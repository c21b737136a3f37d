---------------------------- MODULE SocialProofs ----------------------------
(***************************************************************************)
(* Proofs about what accounts do to one another (MCSocial): the receipts   *)
(* and deliveries of direct messages, the communities, and the writes that *)
(* commit later than the request that made them was admitted.              *)
(*                                                                         *)
(* The parts share no state, so each has an invariant of its own and a     *)
(* step of one part leaves the invariants of the others as they were.      *)
(***************************************************************************)
EXTENDS MCSocial, FiniteSetTheorems, TLAPS

-----------------------------------------------------------------------------
(* Direct messages.                                                        *)

Rows == [st : {"none", "live", "gone"}, peer : Scopes, mine : BOOLEAN,
         at : Nat, rev : Nat, row : BOOLEAN]
Intents == [kind : {"Update", "Delete"}, text : Nat]
TalkStages == {"new", "ended", "edit", "delete", "init", "ack", "read",
               "archive", "unarchive", "reject", "rejectBlock", "block"}
Slots == [pc : TalkStages, s : Scopes, ids : SUBSET Msgs, at : 0..MaxTime,
          e : 0..MaxTime, rev : Nat]

TalkTypes ==
  /\ TypeOK
  /\ msg \in [Msgs -> Rows] /\ wire \in [Msgs -> Seq(Intents)]
  /\ req \in [Requests -> Slots]

(* A message without a recipient row is the viewer's own; the intents of a *)
(* live message are its updates, and a Delete ends them.                   *)
RowSound(m) ==
  /\ Live(m) /\ ~msg[m].row => msg[m].mine
  /\ msg[m] = NoRow => wire[m] = <<>>
  /\ Live(m) => \A i \in 1..Len(wire[m]) : wire[m][i].kind # "Delete"
  /\ \A i \in 1..Len(wire[m]) : wire[m][i].kind = "Delete" => i = Len(wire[m])
  /\ Live(m) /\ msg[m].peer \in Remote =>
       Len(wire[m]) = msg[m].rev
       /\ \A i \in 1..Len(wire[m]) : wire[m][i].text = i

(* Receipts are of live messages and of the exact mode of their scope,     *)
(* which for a community is that of the present membership.                *)
ReceiptSound ==
  /\ \A x \in reads : Live(x[1]) /\ mode[msg[x[1]].peer] = x[2]
  /\ \A p \in Peers : mode[p] \in {NoMode, 0}
  /\ ReceiptsOfEpoch

(* What a request that is under way has resolved.                          *)
SlotSound(r) ==
  /\ req[r].pc \in {"edit", "delete"} => \E m \in Msgs : req[r].ids = {m}
  /\ req[r].pc \in {"archive", "unarchive", "reject", "rejectBlock", "block"} =>
       req[r].s \in Peers
  /\ req[r].s # Group => req[r].e = 0

TalkInv ==
  /\ TalkTypes /\ ReceiptSound
  /\ \A m \in Msgs : RowSound(m)
  /\ \A r \in Requests : SlotSound(r)

LEMMA TalkInit == Init => TalkInv
<1> SUFFICES ASSUME Init PROVE TalkInv
  OBVIOUS
<1> USE TalkAssumption
<1>1. TypeOK
  BY DEF Init, TypeOK, NoMode, Threads, Scopes, Thread
<1>2. msg \in [Msgs -> Rows] /\ wire \in [Msgs -> Seq(Intents)]
  BY DEF Init, NoRow, Row, Rows, Scopes
<1>3. req \in [Requests -> Slots]
  BY DEF Init, Ended, Slot, Slots, TalkStages, Scopes
<1>4. ReceiptSound
  BY DEF Init, ReceiptSound, ReceiptsOfEpoch, NoMode, Peers, Scopes
<1>5. \A m \in Msgs : RowSound(m)
  BY DEF Init, RowSound, Live, NoRow, Row
<1>6. \A r \in Requests : SlotSound(r)
  BY DEF Init, SlotSound, Ended, Slot
<1> QED
  BY <1>1, <1>2, <1>3, <1>4, <1>5, <1>6 DEF TalkInv, TalkTypes

(* A request ends, and the other requests stay as they are.                *)
LEMMA EndedIsSound ==
  ASSUME TalkInv, NEW r \in Requests, Done(r)
  PROVE  req' \in [Requests -> Slots] /\ \A q \in Requests : SlotSound(q)'
<1> USE TalkAssumption
<1>1. Ended \in Slots
  BY DEF Ended, Slot, Slots, TalkStages, Scopes
<1>2. req' \in [Requests -> Slots]
  BY <1>1 DEF Done, TalkInv, TalkTypes
<1>3. \A q \in Requests : SlotSound(q)'
  <2> SUFFICES ASSUME NEW q \in Requests PROVE SlotSound(q)'
    OBVIOUS
  <2>1. CASE q = r
    BY <2>1 DEF Done, SlotSound, Ended, Slot, TalkInv, TalkTypes
  <2>2. CASE q # r
    BY <2>2 DEF Done, SlotSound, TalkInv, TalkTypes
  <2> QED
    BY <2>1, <2>2
<1> QED
  BY <1>2, <1>3

(* A request takes its slot.                                               *)
LEMMA OpenedIsSound ==
  ASSUME TalkInv, NEW r \in Requests, NEW new \in Slots,
         req' = [req EXCEPT ![r] = new],
         new.pc \in {"edit", "delete"} => \E m \in Msgs : new.ids = {m},
         new.pc \in {"archive", "unarchive", "reject", "rejectBlock", "block"} =>
           new.s \in Peers,
         new.s # Group => new.e = 0
  PROVE  req' \in [Requests -> Slots] /\ \A q \in Requests : SlotSound(q)'
<1>1. req' \in [Requests -> Slots]
  BY DEF TalkInv, TalkTypes
<1>2. \A q \in Requests : SlotSound(q)'
  BY DEF TalkInv, TalkTypes, SlotSound
<1> QED
  BY <1>1, <1>2

(* The actions of requests, named for the cases of the proof below.        *)
LEMMA OpenStep ==
  ASSUME TalkInv, NEW r \in Requests, NEW s \in Scopes, NEW ids \in SUBSET Msgs,
         NEW pc \in {"init", "read", "ack", "archive", "unarchive"},
         pc \in {"archive", "unarchive"} => s \in Peers,
         Open(r, pc, s, ids)
  PROVE  TalkInv'
<1> USE TalkAssumption
<1> DEFINE new == [Slot(pc, s, ids, clock) EXCEPT !.e = EpochOf(s)]
<1>1. new = [pc |-> pc, s |-> s, ids |-> ids, at |-> clock, e |-> EpochOf(s),
             rev |-> 0]
  BY DEF Slot
<1>2. new \in Slots
  BY <1>1 DEF Slots, TalkStages, TalkInv, TalkTypes, TypeOK, EpochOf
<1>3. req' = [req EXCEPT ![r] = new] /\ (s # Group => EpochOf(s) = 0)
  BY DEF Open, EpochOf
<1>4. req' \in [Requests -> Slots] /\ \A q \in Requests : SlotSound(q)'
  <2> HIDE DEF new
  <2> QED
    BY <1>1, <1>2, <1>3, OpenedIsSound
<1>5. TypeOK' /\ ReceiptSound' /\ msg' = msg /\ wire' = wire
  BY DEF Open, TalkInv, TalkTypes, TypeOK, ReceiptSound, ReceiptsOfEpoch, Live,
     readVars, archiveVars
<1>6. \A m \in Msgs : RowSound(m)'
  BY <1>5 DEF TalkInv, RowSound, Live
<1> QED
  BY <1>4, <1>5, <1>6 DEF TalkInv, TalkTypes

LEMMA OwnStep ==
  ASSUME TalkInv, NEW r \in Requests, NEW m \in Msgs,
         NEW pc \in {"edit", "delete"}, Own(r, m, pc)
  PROVE  TalkInv'
<1> USE TalkAssumption
<1> DEFINE new == [Slot(pc, msg[m].peer, {m}, clock) EXCEPT !.rev = msg[m].rev]
<1>1. new = [pc |-> pc, s |-> msg[m].peer, ids |-> {m}, at |-> clock, e |-> 0,
             rev |-> msg[m].rev]
  BY DEF Slot
<1>2. new \in Slots
  <2>1. msg[m].peer \in Scopes /\ msg[m].rev \in Nat
    BY DEF TalkInv, TalkTypes, Rows
  <2>2. clock \in 0..MaxTime /\ 0 \in 0..MaxTime
    BY DEF TalkInv, TalkTypes, TypeOK
  <2> QED
    BY <1>1, <2>1, <2>2 DEF Slots, TalkStages
<1>3. req' = [req EXCEPT ![r] = new]
  BY DEF Own
<1>4. req' \in [Requests -> Slots] /\ \A q \in Requests : SlotSound(q)'
  <2> HIDE DEF new
  <2> QED
    BY <1>1, <1>2, <1>3, OpenedIsSound
<1>5. TypeOK' /\ ReceiptSound' /\ msg' = msg /\ wire' = wire
  BY DEF Own, TalkInv, TalkTypes, TypeOK, ReceiptSound, ReceiptsOfEpoch, Live,
     readVars, archiveVars
<1>6. \A n \in Msgs : RowSound(n)'
  BY <1>5 DEF TalkInv, RowSound, Live
<1> QED
  BY <1>4, <1>5, <1>6 DEF TalkInv, TalkTypes

LEMMA RejectStep ==
  ASSUME TalkInv, NEW r \in Requests, NEW p \in Peers,
         NEW pc \in {"reject", "rejectBlock"}, Reject(r, p, pc)
  PROVE  TalkInv'
<1> USE TalkAssumption
<1> DEFINE new == Slot(pc, p, Incoming(p), clock)
<1>1. new = [pc |-> pc, s |-> p, ids |-> Incoming(p), at |-> clock, e |-> 0,
             rev |-> 0]
  BY DEF Slot
<1>2. Incoming(p) \subseteq Msgs /\ p \in Scopes
  BY DEF Incoming, Scopes
<1>3. new \in Slots
  BY <1>1, <1>2 DEF Slots, TalkStages, TalkInv, TalkTypes, TypeOK
<1>4. req' = [req EXCEPT ![r] = new]
  BY DEF Reject
<1>5. req' \in [Requests -> Slots] /\ \A q \in Requests : SlotSound(q)'
  <2> HIDE DEF new
  <2> QED
    BY <1>1, <1>3, <1>4, OpenedIsSound
<1>6. TypeOK' /\ ReceiptSound' /\ msg' = msg /\ wire' = wire
  BY DEF Reject, TalkInv, TalkTypes, TypeOK, ReceiptSound, ReceiptsOfEpoch, Live,
     readVars, archiveVars
<1>7. \A n \in Msgs : RowSound(n)'
  BY <1>6 DEF TalkInv, RowSound, Live
<1> QED
  BY <1>5, <1>6, <1>7 DEF TalkInv, TalkTypes

(* A new row takes the place of none: it has no receipts and no intents.   *)
LEMMA NewRow ==
  ASSUME TalkInv, NEW m \in Msgs, msg[m] = NoRow,
         NEW new \in Rows, msg' = [msg EXCEPT ![m] = new],
         new.st = "live", new.rev = 0, ~new.row => new.mine,
         UNCHANGED <<clock, wire, readVars, archiveVars, blocked, req>>
  PROVE  TalkInv'
<1> USE TalkAssumption
<1>1. TalkTypes'
  BY DEF TalkInv, TalkTypes, TypeOK, readVars, archiveVars
<1>2. ReceiptSound'
  <2>1. \A x \in reads : x[1] \in Msgs /\ x[1] # m
    BY DEF TalkInv, TalkTypes, TypeOK, ReceiptSound, Live, NoRow, Row
  <2>2. \A x \in reads : msg'[x[1]] = msg[x[1]]
    BY <2>1 DEF TalkInv, TalkTypes
  <2> QED
    BY <2>2 DEF TalkInv, ReceiptSound, ReceiptsOfEpoch, Live, readVars
<1>3. \A n \in Msgs : RowSound(n)'
  <2> SUFFICES ASSUME NEW n \in Msgs PROVE RowSound(n)'
    OBVIOUS
  <2>1. CASE n = m
    BY <2>1 DEF TalkInv, TalkTypes, RowSound, Live
  <2>2. CASE n # m
    BY <2>2 DEF TalkInv, TalkTypes, RowSound, Live
  <2> QED
    BY <2>1, <2>2
<1>4. \A q \in Requests : SlotSound(q)'
  BY DEF TalkInv, SlotSound
<1> QED
  BY <1>1, <1>2, <1>3, <1>4 DEF TalkInv

LEMMA ArriveStep ==
  ASSUME TalkInv, NEW m \in Msgs, NEW s \in Scopes, NEW lag \in {0, 1},
         Arrive(m, s, lag)
  PROVE  TalkInv'
<1>1. Row("live", s, FALSE, clock - lag, TRUE) \in Rows
  BY DEF Row, Rows, TalkInv, TalkTypes, TypeOK
<1>2. Row("live", s, FALSE, clock - lag, TRUE).st = "live"
      /\ Row("live", s, FALSE, clock - lag, TRUE).rev = 0
      /\ Row("live", s, FALSE, clock - lag, TRUE).row = TRUE
  BY DEF Row
<1> QED
  BY <1>1, <1>2, NewRow DEF Arrive

LEMMA SendStep ==
  ASSUME TalkInv, NEW m \in Msgs, NEW p \in Peers, Send(m, p)
  PROVE  TalkInv'
<1>1. Row("live", p, TRUE, clock, p \in Local) \in Rows
  BY DEF Row, Rows, TalkInv, TalkTypes, TypeOK, Scopes
<1>2. Row("live", p, TRUE, clock, p \in Local).st = "live"
      /\ Row("live", p, TRUE, clock, p \in Local).rev = 0
      /\ Row("live", p, TRUE, clock, p \in Local).mine = TRUE
  BY DEF Row
<1> QED
  BY <1>1, <1>2, NewRow DEF Send

LEMMA EditStep ==
  ASSUME TalkInv, NEW r \in Requests, EditWrite(r)
  PROVE  TalkInv'
<1> USE TalkAssumption
<1>1. req' \in [Requests -> Slots] /\ \A q \in Requests : SlotSound(q)'
  BY EndedIsSound DEF EditWrite
<1>2. PICK m \in Msgs : req[r].ids = {m}
  BY DEF EditWrite, TalkInv, SlotSound
<1>3. CASE ~SameRow(r, m)
  <2>1. UNCHANGED <<clock, msg, wire, readVars, archiveVars, blocked>>
    BY <1>2, <1>3 DEF EditWrite
  <2> QED
    BY <1>1, <2>1 DEF TalkInv, TalkTypes, TypeOK, readVars, archiveVars,
       ReceiptSound, ReceiptsOfEpoch, RowSound, Live
<1>4. CASE SameRow(r, m)
  <2> DEFINE rev == msg[m].rev + 1
  <2>1. /\ msg' = [msg EXCEPT ![m].rev = rev]
        /\ wire' = Intent(m, "Update", rev)
        /\ UNCHANGED <<clock, readVars, archiveVars, blocked>>
        /\ Live(m)
    BY <1>2, <1>4 DEF EditWrite, SameRow
  <2>2. /\ msg[m] \in Rows /\ wire[m] \in Seq(Intents) /\ rev \in Nat
        /\ [kind |-> "Update", text |-> rev] \in Intents
    BY DEF TalkInv, TalkTypes, Rows, Intents
  <2>3. msg' \in [Msgs -> Rows] /\ wire' \in [Msgs -> Seq(Intents)]
    <3>1. [msg[m] EXCEPT !.rev = rev] \in Rows
      BY <2>2 DEF Rows
    <3>2. msg' = [msg EXCEPT ![m] = [msg[m] EXCEPT !.rev = rev]]
      BY <2>1
    <3>3. msg' \in [Msgs -> Rows]
      BY <3>1, <3>2 DEF TalkInv, TalkTypes
    <3>4. Append(wire[m], [kind |-> "Update", text |-> rev]) \in Seq(Intents)
      BY <2>2
    <3>5. wire' \in [Msgs -> Seq(Intents)]
      BY <2>1, <3>4 DEF TalkInv, TalkTypes, Intent
    <3> QED
      BY <3>3, <3>5
  <2>4. \A n \in Msgs : /\ msg'[n].st = msg[n].st /\ msg'[n].peer = msg[n].peer
                        /\ msg'[n].row = msg[n].row /\ msg'[n].mine = msg[n].mine
    BY <2>1, <2>2 DEF TalkInv, TalkTypes, Rows
  <2>5. ReceiptSound'
    <3>1. \A x \in reads : x[1] \in Msgs
      BY DEF TalkInv, TalkTypes, TypeOK
    <3> QED
      BY <2>1, <2>4, <3>1 DEF TalkInv, ReceiptSound, ReceiptsOfEpoch, Live, readVars
  <2>6. \A n \in Msgs : RowSound(n)'
    <3> SUFFICES ASSUME NEW n \in Msgs PROVE RowSound(n)'
      OBVIOUS
    <3>1. CASE n # m
      <4>1. msg'[n] = msg[n] /\ wire'[n] = wire[n]
        BY <2>1, <3>1 DEF TalkInv, TalkTypes, Intent
      <4> QED
        BY <4>1 DEF TalkInv, RowSound, Live
    <3>2. CASE n = m
      <4>1. RowSound(m) /\ msg'[m].rev = rev /\ msg'[m] # NoRow
        BY <2>1, <2>2, <2>4 DEF TalkInv, TalkTypes, Rows, NoRow, Row, Live
      <4>2. CASE msg[m].peer \notin Remote
        <5>1. wire'[m] = wire[m]
          BY <2>1, <4>2 DEF Intent
        <5> QED
          BY <2>1, <2>4, <3>2, <4>1, <4>2, <5>1 DEF RowSound, Live
      <4>3. CASE msg[m].peer \in Remote
        <5>1. wire'[m] = Append(wire[m], [kind |-> "Update", text |-> rev])
          BY <2>1, <4>3 DEF Intent, TalkInv, TalkTypes
        <5>2. /\ Len(wire[m]) = msg[m].rev /\ Len(wire'[m]) = rev
              /\ \A i \in 1..Len(wire[m]) : wire'[m][i] = wire[m][i]
              /\ wire'[m][rev] = [kind |-> "Update", text |-> rev]
          BY <2>1, <2>2, <4>1, <4>3, <5>1 DEF RowSound
        <5>3. \A i \in 1..rev : i \in 1..Len(wire[m]) \/ i = rev
          BY <2>2, <5>2
        <5>4. \A i \in 1..rev : wire'[m][i].kind # "Delete" /\ wire'[m][i].text = i
          BY <2>1, <4>1, <4>3, <5>2, <5>3 DEF RowSound
        <5> QED
          BY <2>1, <2>4, <3>2, <4>1, <4>3, <5>2, <5>4 DEF RowSound, Live
      <4> QED
        BY <4>2, <4>3
    <3> QED
      BY <3>1, <3>2
  <2>7. TypeOK'
    BY <2>1 DEF TalkInv, TalkTypes, TypeOK, readVars, archiveVars
  <2> QED
    BY <1>1, <2>3, <2>5, <2>6, <2>7 DEF TalkInv, TalkTypes
<1> QED
  BY <1>3, <1>4

(* Messages that go take their receipts along and keep the rest.           *)
LEMMA GoneRows ==
  ASSUME TalkInv, NEW ids \in SUBSET Msgs,
         msg' = [m \in Msgs |-> IF m \in ids THEN [msg[m] EXCEPT !.st = "gone"]
                                ELSE msg[m]],
         reads' = ReadsWithout(ids), mode' = mode, epoch' = epoch
  PROVE  /\ msg' \in [Msgs -> Rows] /\ ReceiptSound'
         /\ reads' \subseteq reads
         /\ \A m \in ids : ~Live(m)' /\ msg'[m] # NoRow
         /\ \A m \in Msgs \ ids : msg'[m] = msg[m]
<1>1. \A m \in Msgs : msg[m] \in Rows /\ [msg[m] EXCEPT !.st = "gone"] \in Rows
  BY DEF TalkInv, TalkTypes, Rows
<1>2. msg' \in [Msgs -> Rows]
  BY <1>1
<1>3. \A m \in ids : msg'[m].st = "gone"
  BY <1>1 DEF Rows
<1>4. \A x \in reads' : x \in reads /\ msg'[x[1]] = msg[x[1]]
  BY DEF ReadsWithout, TalkInv, TalkTypes, TypeOK
<1>5. ReceiptSound'
  BY <1>4 DEF TalkInv, ReceiptSound, ReceiptsOfEpoch, Live
<1> QED
  BY <1>2, <1>3, <1>4, <1>5 DEF Live, NoRow, Row

LEMMA DeleteStep ==
  ASSUME TalkInv, NEW r \in Requests, DeleteWrite(r)
  PROVE  TalkInv'
<1> USE TalkAssumption
<1>1. req' \in [Requests -> Slots] /\ \A q \in Requests : SlotSound(q)'
  BY EndedIsSound DEF DeleteWrite
<1>2. PICK m \in Msgs : req[r].ids = {m}
  BY DEF DeleteWrite, TalkInv, SlotSound
<1>3. CASE ~SameRow(r, m)
  <2>1. UNCHANGED <<clock, msg, wire, readVars, archiveVars, blocked>>
    BY <1>2, <1>3 DEF DeleteWrite, readVars
  <2> QED
    BY <1>1, <2>1 DEF TalkInv, TalkTypes, TypeOK, readVars, archiveVars,
       ReceiptSound, ReceiptsOfEpoch, RowSound, Live
<1>4. CASE SameRow(r, m)
  <2>1. /\ msg' = [msg EXCEPT ![m].st = "gone"]
        /\ wire' = Intent(m, "Delete", msg[m].rev)
        /\ reads' = ReadsWithout({m})
        /\ UNCHANGED <<clock, epoch, mode, lastRead, archiveVars, blocked>>
        /\ Live(m)
    BY <1>2, <1>4 DEF DeleteWrite, SameRow
  <2>2. msg' = [n \in Msgs |-> IF n \in {m} THEN [msg[n] EXCEPT !.st = "gone"]
                               ELSE msg[n]]
    BY <2>1 DEF TalkInv, TalkTypes
  <2>3. /\ msg' \in [Msgs -> Rows] /\ ReceiptSound' /\ reads' \subseteq reads
        /\ ~Live(m)' /\ msg'[m] # NoRow
        /\ \A n \in Msgs \ {m} : msg'[n] = msg[n]
    BY <2>1, <2>2, GoneRows
  <2>4. msg[m] \in Rows /\ wire[m] \in Seq(Intents)
        /\ [kind |-> "Delete", text |-> msg[m].rev] \in Intents
    BY DEF TalkInv, TalkTypes, Rows, Intents
  <2>5. wire' \in [Msgs -> Seq(Intents)]
    <3>1. Append(wire[m], [kind |-> "Delete", text |-> msg[m].rev]) \in Seq(Intents)
      BY <2>4
    <3> QED
      BY <2>1, <3>1 DEF TalkInv, TalkTypes, Intent
  <2>6. \A n \in Msgs : RowSound(n)'
    <3> SUFFICES ASSUME NEW n \in Msgs PROVE RowSound(n)'
      OBVIOUS
    <3>1. CASE n # m
      <4>1. msg'[n] = msg[n] /\ wire'[n] = wire[n]
        BY <2>1, <2>3, <3>1 DEF TalkInv, TalkTypes, Intent
      <4> QED
        BY <4>1 DEF TalkInv, RowSound, Live
    <3>2. CASE n = m
      <4>1. \A i \in 1..Len(wire[m]) : wire[m][i].kind # "Delete"
        BY <2>1 DEF TalkInv, RowSound
      <4>2. \A i \in 1..Len(wire'[m]) :
              wire'[m][i].kind = "Delete" => i = Len(wire'[m])
        <5>1. CASE wire' = wire
          BY <4>1, <5>1
        <5>2. CASE wire'[m] = Append(wire[m], [kind |-> "Delete", text |-> msg[m].rev])
          BY <2>4, <4>1, <5>2
        <5> QED
          BY <2>1, <5>1, <5>2 DEF Intent, TalkInv, TalkTypes
      <4> QED
        BY <2>3, <3>2, <4>2 DEF RowSound
    <3> QED
      BY <3>1, <3>2
  <2>7. TypeOK'
    BY <2>1, <2>3 DEF TalkInv, TalkTypes, TypeOK, archiveVars
  <2> QED
    BY <1>1, <2>3, <2>5, <2>6, <2>7 DEF TalkInv, TalkTypes
<1> QED
  BY <1>3, <1>4

LEMMA RejectWriteStep ==
  ASSUME TalkInv, NEW r \in Requests, RejectWrite(r)
  PROVE  TalkInv'
<1> USE TalkAssumption
<1> DEFINE ids == req[r].ids
<1>1. ids \subseteq Msgs /\ req[r].s \in Peers /\ req[r] \in Slots
  BY DEF RejectWrite, TalkInv, TalkTypes, Slots, SlotSound
<1>2. req' \in [Requests -> Slots] /\ \A q \in Requests : SlotSound(q)'
  <2>1. CASE Done(r)
    BY <2>1, EndedIsSound
  <2>2. CASE req' = [req EXCEPT ![r].pc = "block"]
    <3>1. [req[r] EXCEPT !.pc = "block"] \in Slots
      BY <1>1 DEF Slots, TalkStages
    <3>2. /\ [req[r] EXCEPT !.pc = "block"].pc = "block"
          /\ [req[r] EXCEPT !.pc = "block"].s = req[r].s
          /\ [req[r] EXCEPT !.pc = "block"].e = req[r].e
      BY <1>1 DEF Slots
    <3>3. req' = [req EXCEPT ![r] = [req[r] EXCEPT !.pc = "block"]]
      BY <2>2
    <3>4. req[r].s # Group => req[r].e = 0
      BY DEF TalkInv, SlotSound
    <3> QED
      BY <1>1, <3>1, <3>2, <3>3, <3>4, OpenedIsSound
  <2> QED
    BY <2>1, <2>2 DEF RejectWrite
<1>3. CASE UNCHANGED <<msg, reads>>
  <2>1. UNCHANGED <<clock, msg, wire, readVars, archiveVars, blocked>>
    BY <1>3 DEF RejectWrite, readVars
  <2> QED
    BY <1>2, <2>1 DEF TalkInv, TalkTypes, TypeOK, readVars, archiveVars,
       ReceiptSound, ReceiptsOfEpoch, RowSound, Live
<1>4. CASE /\ \A m \in ids : Readable(m, req[r].s)
           /\ msg' = [m \in Msgs |-> IF m \in ids
                                     THEN [msg[m] EXCEPT !.st = "gone"]
                                     ELSE msg[m]]
           /\ reads' = ReadsWithout(ids)
  <2>1. UNCHANGED <<clock, wire, epoch, mode, lastRead, archiveVars, blocked>>
    BY DEF RejectWrite
  <2>2. /\ msg' \in [Msgs -> Rows] /\ ReceiptSound' /\ reads' \subseteq reads
        /\ \A m \in ids : ~Live(m)' /\ msg'[m] # NoRow
        /\ \A n \in Msgs \ ids : msg'[n] = msg[n]
    BY <1>1, <1>4, <2>1, GoneRows
  <2>3. \A n \in Msgs : RowSound(n)'
    BY <2>1, <2>2 DEF TalkInv, RowSound, Live
  <2>4. TypeOK'
    BY <2>1, <2>2 DEF TalkInv, TalkTypes, TypeOK, archiveVars
  <2> QED
    BY <1>2, <2>1, <2>2, <2>3, <2>4 DEF TalkInv, TalkTypes
<1> QED
  BY <1>3, <1>4 DEF RejectWrite

(* Reading: receipts of readable messages of a scope in its exact mode.    *)
LEMMA ExactMode ==
  ASSUME TalkInv, NEW s \in Scopes, NEW e \in 0..MaxTime, Authorized(s, e),
         s # Group => e = 0, NEW new \in SUBSET Msgs,
         \A m \in new : Readable(m, s),
         mode' = [mode EXCEPT ![s] = e],
         reads' = reads \union {<<m, e>> : m \in new},
         UNCHANGED <<msg, epoch>>
  PROVE  /\ mode' \in [Scopes -> 0..NoMode]
         /\ reads' \subseteq Msgs \X (0..MaxTime)
         /\ ReceiptSound'
<1> USE TalkAssumption
<1>1. mode \in [Scopes -> 0..NoMode] /\ reads \subseteq Msgs \X (0..MaxTime)
  BY DEF TalkInv, TalkTypes, TypeOK
<1>2. mode' \in [Scopes -> 0..NoMode]
  BY <1>1 DEF NoMode
<1>3. reads' \subseteq Msgs \X (0..MaxTime)
  BY <1>1
<1>4. \A x \in reads' : Live(x[1])' /\ mode'[msg'[x[1]].peer] = x[2]
  <2> SUFFICES ASSUME NEW x \in reads'
               PROVE  Live(x[1])' /\ mode'[msg'[x[1]].peer] = x[2]
    OBVIOUS
  <2>1. CASE x \in reads
    <3>1. Live(x[1]) /\ mode[msg[x[1]].peer] = x[2] /\ x[2] \in 0..MaxTime
          /\ x[1] \in Msgs
      BY <1>1, <2>1 DEF TalkInv, ReceiptSound
    <3>2. CASE msg[x[1]].peer # s
      BY <1>1, <3>1, <3>2 DEF Live
    <3>3. CASE msg[x[1]].peer = s
      <4>1. x[2] = e
        <5>1. CASE s = Group
          BY <2>1, <3>3, <5>1 DEF TalkInv, ReceiptSound, ReceiptsOfEpoch, Authorized
        <5>2. CASE s # Group
          BY <3>1, <3>3, <5>2 DEF TalkInv, ReceiptSound, Scopes, NoMode
        <5> QED
          BY <5>1, <5>2
      <4> QED
        BY <1>1, <3>1, <3>3, <4>1 DEF Live
    <3> QED
      BY <3>2, <3>3
  <2>2. CASE x \in {<<m, e>> : m \in new}
    BY <1>1, <2>2 DEF Readable, Live
  <2> QED
    BY <2>1, <2>2
<1>5. \A p \in Peers : mode'[p] \in {NoMode, 0}
  BY <1>1 DEF TalkInv, ReceiptSound, Peers, Scopes
<1>6. ReceiptsOfEpoch'
  <2>1. /\ \A x \in reads' : msg'[x[1]].peer = Group => epoch' # 0 /\ x[2] = epoch'
    BY DEF TalkInv, ReceiptSound, ReceiptsOfEpoch, Authorized, Readable
  <2>2. mode'[Group] \in {NoMode, epoch'} /\ (epoch' = 0 => mode'[Group] = NoMode)
    BY <1>1 DEF TalkInv, ReceiptSound, ReceiptsOfEpoch, Authorized, Scopes
  <2> QED
    BY <2>1, <2>2 DEF ReceiptsOfEpoch
<1> QED
  BY <1>2, <1>3, <1>4, <1>5, <1>6 DEF ReceiptSound

(* What a request that reads has resolved.                                 *)
LEMMA ReaderSlot ==
  ASSUME TalkInv, NEW r \in Requests
  PROVE  /\ req[r].s \in Scopes /\ req[r].e \in 0..MaxTime
         /\ req[r].ids \subseteq Msgs /\ req[r].at \in 0..MaxTime
         /\ req[r].s # Group => req[r].e = 0
  BY DEF TalkInv, TalkTypes, Slots, SlotSound

LEMMA InitStep ==
  ASSUME TalkInv, NEW r \in Requests, InitWrite(r)
  PROVE  TalkInv'
<1> DEFINE s == req[r].s
           e == req[r].e
           new == {n \in Msgs : Readable(n, s) /\ msg[n].at <= Baseline(s, e)}
<1>1. req' \in [Requests -> Slots] /\ \A q \in Requests : SlotSound(q)'
  BY EndedIsSound DEF InitWrite
<1>2. UNCHANGED <<clock, msg, wire, epoch, lastRead, archiveVars, blocked>>
  BY DEF InitWrite
<1>3. /\ mode' \in [Scopes -> 0..NoMode] /\ reads' \subseteq Msgs \X (0..MaxTime)
      /\ ReceiptSound'
  <2>1. CASE UNCHANGED <<reads, mode>>
    BY <1>2, <2>1 DEF TalkInv, TalkTypes, TypeOK, ReceiptSound, ReceiptsOfEpoch, Live
  <2>2. CASE /\ Authorized(s, e) /\ reads' = reads \union {<<m, e>> : m \in new}
             /\ mode' = [mode EXCEPT ![s] = e]
    <3>1. new \subseteq Msgs /\ \A m \in new : Readable(m, s)
      OBVIOUS
    <3> HIDE DEF new
    <3> QED
      BY <1>2, <2>2, <3>1, ReaderSlot, ExactMode
  <2> QED
    BY <2>1, <2>2 DEF InitWrite, Seeded
<1>4. TypeOK'
  BY <1>2, <1>3 DEF TalkInv, TalkTypes, TypeOK, archiveVars, NoMode
<1>5. \A m \in Msgs : RowSound(m)'
  BY <1>2 DEF TalkInv, RowSound, Live
<1> QED
  BY <1>1, <1>2, <1>3, <1>4, <1>5 DEF TalkInv, TalkTypes

LEMMA AckStep ==
  ASSUME TalkInv, NEW r \in Requests, AckWrite(r)
  PROVE  TalkInv'
<1> DEFINE s == req[r].s
           e == req[r].e
<1>1. req' \in [Requests -> Slots] /\ \A q \in Requests : SlotSound(q)'
  BY EndedIsSound DEF AckWrite
<1>2. UNCHANGED <<clock, msg, wire, epoch, mode, lastRead, archiveVars, blocked>>
  BY DEF AckWrite
<1>3. /\ mode' \in [Scopes -> 0..NoMode] /\ reads' \subseteq Msgs \X (0..MaxTime)
      /\ ReceiptSound'
  <2>1. CASE reads' = reads
    BY <1>2, <2>1 DEF TalkInv, TalkTypes, TypeOK, ReceiptSound, ReceiptsOfEpoch, Live
  <2>2. CASE /\ Authorized(s, e) /\ Exact(s, e) /\ \A m \in req[r].ids : Readable(m, s)
             /\ reads' = reads \union {<<m, e>> : m \in req[r].ids}
    <3>1. mode' = [mode EXCEPT ![s] = e]
      BY <1>2, <2>2, ReaderSlot DEF Exact, TalkInv, TalkTypes, TypeOK
    <3> QED
      BY <1>2, <2>2, <3>1, ReaderSlot, ExactMode
  <2> QED
    BY <2>1, <2>2 DEF AckWrite
<1>4. TypeOK'
  BY <1>2, <1>3 DEF TalkInv, TalkTypes, TypeOK, archiveVars, NoMode
<1>5. \A m \in Msgs : RowSound(m)'
  BY <1>2 DEF TalkInv, RowSound, Live
<1> QED
  BY <1>1, <1>2, <1>3, <1>4, <1>5 DEF TalkInv, TalkTypes

LEMMA ReadStep ==
  ASSUME TalkInv, NEW r \in Requests, ReadWrite(r)
  PROVE  TalkInv'
<1> DEFINE s == req[r].s
           e == req[r].e
           new == {n \in Msgs : Readable(n, s)}
<1>1. req' \in [Requests -> Slots] /\ \A q \in Requests : SlotSound(q)'
  BY EndedIsSound DEF ReadWrite
<1>2. UNCHANGED <<clock, msg, wire, epoch, archiveVars, blocked>>
  BY DEF ReadWrite
<1>3. /\ mode' \in [Scopes -> 0..NoMode] /\ reads' \subseteq Msgs \X (0..MaxTime)
      /\ ReceiptSound'
  <2>1. CASE UNCHANGED <<reads, mode>>
    BY <1>2, <2>1 DEF TalkInv, TalkTypes, TypeOK, ReceiptSound, ReceiptsOfEpoch, Live
  <2>2. CASE /\ Authorized(s, e) /\ reads' = reads \union {<<m, e>> : m \in new}
             /\ mode' = [mode EXCEPT ![s] = e]
    <3>1. new \subseteq Msgs /\ \A m \in new : Readable(m, s)
      OBVIOUS
    <3> HIDE DEF new
    <3> QED
      BY <1>2, <2>2, <3>1, ReaderSlot, ExactMode
  <2> QED
    BY <2>1, <2>2 DEF ReadWrite
<1>4. lastRead' \in [Threads -> 0..MaxTime]
  <2>1. Thread(s) \in Threads
    BY ReaderSlot DEF Threads
  <2> QED
    BY <2>1, ReaderSlot DEF ReadWrite, TalkInv, TalkTypes, TypeOK
<1>5. TypeOK'
  BY <1>2, <1>3, <1>4 DEF TalkInv, TalkTypes, TypeOK, archiveVars, NoMode
<1>6. \A m \in Msgs : RowSound(m)'
  BY <1>2 DEF TalkInv, RowSound, Live
<1> QED
  BY <1>1, <1>2, <1>3, <1>5, <1>6 DEF TalkInv, TalkTypes

(* Leaving drops the receipts of the community and its exact mode, so that *)
(* the next membership begins without any.                                 *)
LEMMA MembershipStep ==
  ASSUME TalkInv, Leave \/ Rejoin \/ Tick
  PROVE  TalkInv'
<1> USE TalkAssumption
<1>1. UNCHANGED <<msg, wire, lastRead, archiveVars, blocked, req>>
  BY DEF Leave, Rejoin, Tick, readVars
<1>2. /\ clock' \in 1..MaxTime /\ epoch' \in 0..MaxTime
      /\ mode' \in [Scopes -> 0..NoMode] /\ reads' \subseteq reads
  BY DEF Leave, Rejoin, Tick, readVars, TalkInv, TalkTypes, TypeOK, NoMode
<1>3. TypeOK'
  BY <1>1, <1>2 DEF TalkInv, TalkTypes, TypeOK, archiveVars, NoMode
<1>4. ReceiptSound'
  <2>1. \A x \in reads : x[1] \in Msgs /\ msg[x[1]].peer \in Scopes
    BY DEF TalkInv, TalkTypes, TypeOK, Rows
  <2>2. mode \in [Scopes -> 0..NoMode] /\ Group \in Scopes /\ Group \notin Peers
    BY DEF TalkInv, TalkTypes, TypeOK, Scopes, Peers
  <2>3. CASE Leave
    BY <1>1, <2>1, <2>2, <2>3 DEF Leave, TalkInv, ReceiptSound, ReceiptsOfEpoch,
       Live, Scopes
  <2>4. CASE Rejoin
    BY <1>1, <2>4 DEF Rejoin, TalkInv, ReceiptSound, ReceiptsOfEpoch, Live
  <2>5. CASE Tick
    BY <1>1, <2>5 DEF Tick, readVars, TalkInv, ReceiptSound, ReceiptsOfEpoch, Live
  <2> QED
    BY <2>3, <2>4, <2>5
<1>5. \A m \in Msgs : RowSound(m)'
  BY <1>1 DEF TalkInv, RowSound, Live
<1>6. \A q \in Requests : SlotSound(q)'
  BY <1>1 DEF TalkInv, SlotSound
<1> QED
  BY <1>1, <1>3, <1>4, <1>5, <1>6 DEF TalkInv, TalkTypes

LEMMA ArchiveStep ==
  ASSUME TalkInv, NEW r \in Requests, ArchiveWrite(r) \/ RejectBlock(r)
  PROVE  TalkInv'
<1>1. req' \in [Requests -> Slots] /\ \A q \in Requests : SlotSound(q)'
  BY EndedIsSound DEF ArchiveWrite, RejectBlock
<1>2. UNCHANGED <<clock, msg, wire, readVars, marker>> /\ req[r].s \in Peers
  BY DEF ArchiveWrite, RejectBlock, archiveVars, TalkInv, SlotSound
<1>3. expanded' \subseteq marker /\ archived' \subseteq Peers /\ blocked' \subseteq Peers
  BY <1>2 DEF ArchiveWrite, RejectBlock, archiveVars, Spread, Participants,
     TalkInv, TalkTypes, TypeOK
<1>4. TypeOK'
  BY <1>2, <1>3 DEF TalkInv, TalkTypes, TypeOK, readVars
<1>5. ReceiptSound' /\ \A m \in Msgs : RowSound(m)'
  BY <1>2 DEF TalkInv, ReceiptSound, ReceiptsOfEpoch, RowSound, Live, readVars
<1> QED
  BY <1>1, <1>2, <1>4, <1>5 DEF TalkInv, TalkTypes

LEMMA TalkNext == TalkInv /\ [Next]_vars => TalkInv'
<1> SUFFICES ASSUME TalkInv, [Next]_vars PROVE TalkInv'
  OBVIOUS
<1>1. CASE Next
  <2>1. ASSUME NEW m \in Msgs, NEW s \in Scopes, NEW lag \in {0, 1}, Arrive(m, s, lag)
        PROVE  TalkInv'
    BY <2>1, ArriveStep
  <2>2. ASSUME NEW m \in Msgs, NEW p \in Peers, Send(m, p) PROVE TalkInv'
    BY <2>2, SendStep
  <2>3. ASSUME NEW r \in Requests, NEW m \in Msgs,
               Own(r, m, "edit") \/ Own(r, m, "delete")
        PROVE  TalkInv'
    BY <2>3, OwnStep
  <2>4. ASSUME NEW r \in Requests, NEW s \in Scopes,
               \/ Open(r, "init", s, {}) \/ Open(r, "read", s, {})
               \/ \E m \in Msgs : Readable(m, s) /\ Open(r, "ack", s, {m})
        PROVE  TalkInv'
    BY <2>4, OpenStep
  <2>5. ASSUME NEW r \in Requests, NEW p \in Peers,
               \/ Open(r, "archive", p, {}) \/ Open(r, "unarchive", p, {})
               \/ Reject(r, p, "reject") \/ Reject(r, p, "rejectBlock")
        PROVE  TalkInv'
    BY <2>5, OpenStep, RejectStep DEF Scopes
  <2>6. ASSUME NEW r \in Requests,
               \/ EditWrite(r) \/ DeleteWrite(r) \/ InitWrite(r) \/ AckWrite(r)
               \/ ReadWrite(r) \/ ArchiveWrite(r) \/ RejectWrite(r) \/ RejectBlock(r)
        PROVE  TalkInv'
    BY <2>6, EditStep, DeleteStep, InitStep, AckStep, ReadStep, ArchiveStep,
       RejectWriteStep
  <2> QED
    BY <1>1, <2>1, <2>2, <2>3, <2>4, <2>5, <2>6, MembershipStep DEF Next
<1>2. CASE UNCHANGED vars
  BY <1>2 DEF vars, readVars, archiveVars, TalkInv, TalkTypes, TypeOK,
     ReceiptSound, ReceiptsOfEpoch, RowSound, SlotSound, Live
<1> QED
  BY <1>1, <1>2

-----------------------------------------------------------------------------
(* What the writes of the talks may do.                                    *)

(* Threads of peers are not the thread of the community.                   *)
LEMMA GroupThread ==
  ASSUME NEW s \in Scopes, NEW t \in Scopes, Thread(s) = Thread(t), s # t
  PROVE  s \in Peers /\ t \in Peers
  BY TalkAssumption DEF Thread, Scopes, Peers

LEMMA OthersStayUnread ==
  ASSUME TalkInv, NEW r \in Requests, InitWrite(r) \/ AckWrite(r) \/ ReadWrite(r),
         NEW m \in Msgs, msg[m].peer # req[r].s
  PROVE  Unread(m) <=> Unread(m)'
<1> DEFINE s == req[r].s
           e == req[r].e
           t == msg[m].peer
<1>1. UNCHANGED <<msg, epoch>>
  BY DEF InitWrite, AckWrite, ReadWrite
<1>2. t \in Scopes /\ s \in Scopes /\ msg[m] \in Rows
  BY ReaderSlot DEF TalkInv, TalkTypes, Rows
<1>3. mode'[t] = mode[t]
  BY <1>2 DEF InitWrite, AckWrite, ReadWrite, TalkInv, TalkTypes, TypeOK
<1>4. \A d : <<m, d>> \in reads' <=> <<m, d>> \in reads
  <2>1. \A n \in req[r].ids : n \in Msgs
    BY ReaderSlot
  <2>2. CASE InitWrite(r)
    BY <2>2 DEF InitWrite, Seeded, Readable
  <2>3. CASE AckWrite(r)
    BY <2>1, <2>3 DEF AckWrite, Readable
  <2>4. CASE ReadWrite(r)
    BY <2>4 DEF ReadWrite, Readable
  <2> QED
    BY <2>2, <2>3, <2>4
<1>5. Live(m) /\ ~msg[m].mine => lastRead'[Thread(t)] = lastRead[Thread(t)]
  <2>1. SUFFICES ASSUME Live(m), ~msg[m].mine
                 PROVE  lastRead'[Thread(t)] = lastRead[Thread(t)]
    OBVIOUS
  <2>2. CASE UNCHANGED lastRead
    BY <2>2
  <2>3. CASE ~Ambiguous(s) /\ lastRead' = [lastRead EXCEPT ![Thread(s)] = req[r].at]
    <3>1. msg[m].row
      BY <2>1 DEF TalkInv, RowSound
    <3>2. Thread(t) # Thread(s)
      BY <1>2, <2>1, <2>3, <3>1, GroupThread DEF Ambiguous
    <3> QED
      BY <1>2, <2>3, <3>2 DEF TalkInv, TalkTypes, TypeOK
  <2> QED
    BY <2>2, <2>3 DEF InitWrite, AckWrite, ReadWrite
<1> QED
  BY <1>1, <1>3, <1>4, <1>5 DEF Unread, Live, EpochOf, Exact, Baseline

LEMMA EntryKeepsUnread ==
  ASSUME TalkInv, NEW r \in Requests, InitWrite(r), NEW m \in Msgs
  PROVE  Unread(m) <=> Unread(m)'
<1> DEFINE s == req[r].s
           e == req[r].e
<1>1. CASE msg[m].peer # s
  BY <1>1, OthersStayUnread
<1>2. CASE msg[m].peer = s
  <2>1. UNCHANGED <<msg, epoch, lastRead>>
    BY DEF InitWrite
  <2>2. CASE UNCHANGED <<reads, mode>>
    BY <2>1, <2>2 DEF Unread, Live, EpochOf, Exact, Baseline
  <2>3. CASE /\ Authorized(s, e) /\ ~Exact(s, e)
             /\ reads' = reads \union Seeded(s, e) /\ mode' = [mode EXCEPT ![s] = e]
    <3>1. EpochOf(s) = e /\ (s = Group => epoch # 0)
      BY <2>3, ReaderSlot DEF EpochOf, Authorized
    <3>2. <<m, e>> \notin reads
      BY <1>2, <2>3 DEF TalkInv, ReceiptSound, Exact
    <3>3. mode'[s] = e
      BY <2>3, ReaderSlot DEF TalkInv, TalkTypes, TypeOK
    <3>4. <<m, e>> \in reads' <=> Readable(m, s) /\ msg[m].at <= Baseline(s, e)
      BY <2>3, <3>2 DEF Seeded
    <3>5. Live(m) /\ ~msg[m].mine => Readable(m, s)
      BY <1>2 DEF TalkInv, RowSound, Readable
    <3>6. msg[m].at \in Nat /\ Baseline(s, e) \in Nat
      <4>1. Thread(s) \in Threads /\ e \in 0..MaxTime
        BY ReaderSlot DEF Threads
      <4>2. lastRead[Thread(s)] \in 0..MaxTime /\ msg[m] \in Rows
        BY <4>1 DEF TalkInv, TalkTypes, TypeOK
      <4> QED
        BY <4>1, <4>2, TalkAssumption DEF Baseline, Rows
    <3>7. Unread(m) <=> Live(m) /\ ~msg[m].mine /\ msg[m].at > Baseline(s, e)
      BY <1>2, <2>3, <3>1 DEF Unread
    <3>8. Unread(m)' <=> Live(m) /\ ~msg[m].mine /\ <<m, e>> \notin reads'
      BY <1>2, <2>1, <3>1, <3>3 DEF Unread, Live, EpochOf, Exact
    <3> QED
      BY <3>4, <3>5, <3>6, <3>7, <3>8
  <2> QED
    BY <2>2, <2>3 DEF InitWrite
<1> QED
  BY <1>1, <1>2

(* The marker of a thread is spread over all its participants, so that     *)
(* answering for one of them decides nothing for the others.               *)
LEMMA ArchiveOfOne ==
  ASSUME TalkInv, NEW r \in Requests, ArchiveWrite(r),
         NEW p \in Participants(Thread(req[r].s)) \ {req[r].s}
  PROVE  Archived(p) <=> Archived(p)'
<1>1. Thread(p) = Thread(req[r].s) /\ marker' = marker
  BY DEF Participants, ArchiveWrite
<1>2. p \in archived' <=> p \in archived \/ p \in Spread(Thread(req[r].s))
  BY DEF ArchiveWrite
<1>3. p \in Spread(Thread(req[r].s)) <=> Thread(req[r].s) \in marker \ expanded
  BY DEF Spread
<1>4. Thread(req[r].s) \notin marker \ expanded'
  BY DEF ArchiveWrite
<1> QED
  BY <1>1, <1>2, <1>3, <1>4 DEF Archived

-----------------------------------------------------------------------------
allVars == <<part, vars, roomVars, graphVars, boardVars>>

(* A step of the whole is a step of the talks or leaves them alone.        *)
LEMMA TalksOfStep == [MCNext]_allVars => [Next]_vars
  BY DEF MCNext, TalkStep, RoomStep, GraphStep, BoardStep, allVars

LEMMA TalksInvariant == MCSpec => []TalkInv
<1>1. MCInit => TalkInv
  BY TalkInit DEF MCInit
<1>2. TalkInv /\ [MCNext]_allVars => TalkInv'
  BY TalkNext, TalksOfStep
<1> QED
  BY <1>1, <1>2, PTL DEF MCSpec, allVars

(* The receipts of a community belong to the present membership of the     *)
(* viewer, and a remote peer is sent the edits of a message in the order   *)
(* in which its row took them, with nothing after the Delete, whatever     *)
(* requests overlap (lib/talk-read-receipts.ts, routes/dm/).               *)
THEOREM TalksAreSound == MCSpec => []TalksSound
<1>1. TalkInv => TalksSound
  BY DEF TalkInv, TalkTypes, ReceiptSound, RowSound, TalksSound, WireFollowsRow
<1> QED
  BY <1>1, TalksInvariant, PTL

-----------------------------------------------------------------------------
(* Communities.                                                            *)

Names == Accounts \union Remote \union {"none"}
Comms == [state : {"absent", "live", "deleted"}, visibility : {"public", "private"},
          join : {"open", "approval", "invite"}, post : {"anyone", "members"}]
Notes == [by : Names, rev : Nat]
TeardownStages == {"plan", "inherit", "retire", "erase"}
RoomStages ==
  TeardownStages \union
  {"new", "ended", "settings", "ask", "claim", "enterInvited", "unban", "enter",
   "removeMember", "removeOwner", "removeRemote", "demote", "setRole", "accept",
   "reject", "follow", "post", "edit", "delete"}
EdgeStates == {"none", "pending", "accepted", "rejected"}
RoomSlots == [pc : RoomStages, by : Names, on : Names,
              seen : EdgeStates \union Rooms!MemberRoles \union {"retired"},
              arg : MCPolicies \union Notes]

(* What a slot has resolved.  A teardown is of an account in deletion, and *)
(* a community that does not exist yet has no other requests.              *)
SlotFits(q, state, gone) ==
  /\ q.pc \notin {"new", "ended", "follow"} => q.by \in Accounts
  /\ q.pc \in {"removeMember", "removeOwner", "demote", "setRole"} =>
       q.on \in Accounts
  /\ q.pc = "removeRemote" => q.on \in Remote
  /\ q.pc \in {"demote", "setRole"} => q.seen \in Rooms!MemberRoles
  /\ q.pc = "follow" => q.seen \in EdgeStates
  /\ q.pc = "settings" => q.arg \in MCPolicies
  /\ q.pc \in TeardownStages => q.by \in gone
  /\ state = "absent" => q.pc \in {"new", "ended", "plan", "erase"}

RoomTypes ==
  /\ Rooms!TypeOK
  /\ comm \in Comms /\ roomMsg \in Notes /\ roomReq \in [Clients -> RoomSlots]

(* The invite is claimed before the member row is written, by one request. *)
InviteSound ==
  /\ invite \in {"none", "open"} =>
       entered = {} /\ \A c \in Clients : roomReq[c].pc # "enterInvited"
  /\ \A c, d \in Clients :
       roomReq[c].pc = "enterInvited" /\ roomReq[d].pc = "enterInvited" => c = d
  /\ \A c \in Clients : roomReq[c].pc = "enterInvited" => entered = {}
  /\ entered = {} \/ \E u \in Accounts : entered = {u}

RoomInv ==
  /\ RoomTypes /\ Rooms!CountMatches /\ InviteSound
  /\ comm.state = "absent" => Rooms!Members = {}
  /\ \A c \in Clients : SlotFits(roomReq[c], comm.state, deleting)

(* The instance counts as this module does.                                *)
LEMMA RoomCounts == \A S : Rooms!Cardinality(S) = Cardinality(S)
  BY DEF Rooms!Cardinality, Cardinality

LEMMA EndedSlot ==
  /\ Rooms!Ended \in RoomSlots /\ Rooms!Ended.pc = "ended"
  /\ [Rooms!Ended EXCEPT !.pc = "new"] \in RoomSlots
  /\ [Rooms!Ended EXCEPT !.pc = "new"].pc = "new"
  /\ Rooms!NoMsg \in Notes
<1>1. Rooms!NoMsg \in Notes
  BY DEF Rooms!NoMsg, Notes, Names
<1> QED
  BY <1>1 DEF Rooms!Ended, Rooms!Slot, RoomSlots, RoomStages, Names, EdgeStates

LEMMA MembersFinite == IsFiniteSet(Rooms!Members) /\ Rooms!Members \subseteq Accounts
<1>1. Rooms!Members \subseteq Accounts
  BY DEF Rooms!Members
<1> QED
  BY <1>1, FS_Subset, SocialAssumption

LEMMA RoomInit == Rooms!Init \/ RoomInUse => RoomInv
<1> USE SocialAssumption
<1>1. ASSUME Rooms!Init PROVE RoomInv
  <2>1. comm \in Comms /\ roomMsg \in Notes
    BY <1>1, EndedSlot DEF Rooms!Init, Comms
  <2>2. /\ roomReq \in [Clients -> RoomSlots]
        /\ \A c \in Clients : roomReq[c].pc = "new"
    BY <1>1, EndedSlot DEF Rooms!Init
  <2>3. Rooms!TypeOK
    BY <1>1, <2>1, <2>2 DEF Rooms!Init, Rooms!TypeOK, Comms, Rooms!MemberRoles
  <2>4. Rooms!Members = {}
    BY <1>1 DEF Rooms!Init, Rooms!Members
  <2>5. Rooms!CountMatches
    BY <1>1, <2>4, FS_EmptySet, RoomCounts DEF Rooms!Init, Rooms!CountMatches
  <2>6. InviteSound
    BY <1>1, <2>2 DEF Rooms!Init, InviteSound
  <2>7. \A c \in Clients : SlotFits(roomReq[c], comm.state, deleting)
    BY <2>2 DEF SlotFits, TeardownStages
  <2> QED
    BY <2>1, <2>2, <2>3, <2>4, <2>5, <2>6, <2>7 DEF RoomInv, RoomTypes
<1>2. ASSUME RoomInUse PROVE RoomInv
  <2>1. comm \in Comms /\ comm.state = "live"
    BY <1>2 DEF RoomInUse, Comms
  <2>2. /\ roomReq \in [Clients -> RoomSlots]
        /\ \A c \in Clients : roomReq[c].pc = "new"
    BY <1>2, EndedSlot DEF RoomInUse
  <2>3. roomMsg \in Notes
    BY <1>2 DEF RoomInUse, Notes, Names
  <2>4. Rooms!TypeOK
    BY <1>2, <2>1, <2>2 DEF RoomInUse, Rooms!TypeOK, Rooms!MemberRoles, Rooms!Managers
  <2>5. Rooms!Members = {Owner, Ann}
    BY <1>2 DEF RoomInUse, Rooms!Members
  <2>6. Cardinality({Owner, Ann}) = 2
    <3>1. IsFiniteSet({Owner}) /\ Cardinality({Owner}) = 1
      BY FS_Singleton
    <3>2. {Owner, Ann} = {Owner} \union {Ann} /\ Ann \notin {Owner}
      OBVIOUS
    <3>3. Cardinality({Owner} \union {Ann}) = Cardinality({Owner}) + 1
      BY <3>1, <3>2, FS_AddElement
    <3> QED
      BY <3>1, <3>2, <3>3
  <2>7. Rooms!CountMatches
    BY <1>2, <2>5, <2>6, RoomCounts DEF RoomInUse, Rooms!CountMatches
  <2>8. InviteSound
    BY <1>2, <2>2 DEF RoomInUse, InviteSound
  <2>9. \A c \in Clients : SlotFits(roomReq[c], comm.state, deleting)
    BY <2>1, <2>2 DEF SlotFits, TeardownStages
  <2> QED
    BY <2>1, <2>2, <2>3, <2>4, <2>7, <2>8, <2>9 DEF RoomInv, RoomTypes
<1> QED
  BY <1>1, <1>2

(* The counter moves with the member rows.                                 *)
LEMMA CountOfAdd ==
  ASSUME RoomInv, NEW u \in Accounts, Rooms!AddMember(u)
  PROVE  /\ Rooms!CountMatches' /\ count' \in Nat
         /\ role' \in [Accounts -> Rooms!MemberRoles \union {"none"}]
         /\ Rooms!Members' = Rooms!Members \union {u}
<1>1. role \in [Accounts -> Rooms!MemberRoles \union {"none"}]
      /\ count \in Nat /\ count = Cardinality(Rooms!Members)
  BY RoomCounts DEF RoomInv, RoomTypes, Rooms!TypeOK, Rooms!CountMatches
<1>2. Rooms!Members' = Rooms!Members \union {u}
  BY <1>1 DEF Rooms!AddMember, Rooms!Members
<1>3. u \in Rooms!Members <=> role[u] # "none"
  BY DEF Rooms!Members
<1>4. count' = Cardinality(Rooms!Members')
  BY <1>1, <1>2, <1>3, MembersFinite, FS_AddElement DEF Rooms!AddMember
<1>5. role' \in [Accounts -> Rooms!MemberRoles \union {"none"}] /\ count' \in Nat
  BY <1>1 DEF Rooms!AddMember, Rooms!MemberRoles
<1> QED
  BY <1>2, <1>4, <1>5, RoomCounts DEF Rooms!CountMatches

LEMMA CountOfDrop ==
  ASSUME RoomInv, NEW u \in Accounts, Rooms!DropMember(u)
  PROVE  /\ Rooms!CountMatches' /\ count' \in Nat
         /\ role' \in [Accounts -> Rooms!MemberRoles \union {"none"}]
         /\ Rooms!Members' = Rooms!Members \ {u}
<1>1. role \in [Accounts -> Rooms!MemberRoles \union {"none"}]
      /\ count \in Nat /\ count = Cardinality(Rooms!Members)
  BY RoomCounts DEF RoomInv, RoomTypes, Rooms!TypeOK, Rooms!CountMatches
<1>2. Rooms!Members' = Rooms!Members \ {u}
  BY <1>1 DEF Rooms!DropMember, Rooms!Members
<1>3. u \in Rooms!Members <=> role[u] # "none"
  BY DEF Rooms!Members
<1>4. u \in Rooms!Members => count > 0
  BY <1>1, MembersFinite, FS_EmptySet
<1>5. count' = Cardinality(Rooms!Members')
  BY <1>1, <1>2, <1>3, <1>4, MembersFinite, FS_RemoveElement DEF Rooms!DropMember
<1>6. role' \in [Accounts -> Rooms!MemberRoles \union {"none"}] /\ count' \in Nat
  BY <1>1 DEF Rooms!DropMember, Rooms!MemberRoles
<1> QED
  BY <1>2, <1>5, <1>6, RoomCounts DEF Rooms!CountMatches

(* A request moves to its next slot; what it does to the other rows is     *)
(* shown to fit by each action.                                            *)
LEMMA RoomFrame ==
  ASSUME RoomInv, NEW c \in Clients, NEW new \in RoomSlots,
         roomReq' = [roomReq EXCEPT ![c] = new], new.pc # "enterInvited",
         SlotFits(new, comm'.state, deleting'),
         comm'.state = "absent" => comm.state = "absent" /\ Rooms!Members' = {},
         deleting \subseteq deleting',
         comm' \in Comms, roomMsg' \in Notes, Rooms!TypeOK', Rooms!CountMatches',
         entered' = entered,
         invite' \in {"none", "open"} => invite' = invite
  PROVE  RoomInv'
<1>1. roomReq' \in [Clients -> RoomSlots]
  BY DEF RoomInv, RoomTypes
<1>2. \A d \in Clients : roomReq'[d] = IF d = c THEN new ELSE roomReq[d]
  BY DEF RoomInv, RoomTypes
<1>3. \A d \in Clients : SlotFits(roomReq[d], comm'.state, deleting')
  BY DEF RoomInv, SlotFits
<1>4. \A d \in Clients : SlotFits(roomReq'[d], comm'.state, deleting')
  BY <1>2, <1>3
<1>5. InviteSound'
  BY <1>2 DEF RoomInv, InviteSound
<1> QED
  BY <1>1, <1>4, <1>5 DEF RoomInv, RoomTypes

(* A request takes its slot and nothing else changes.                      *)
LEMMA RoomWait ==
  ASSUME RoomInv, NEW c \in Clients, NEW pc \in RoomStages \ {"enterInvited"},
         NEW u \in Names, NEW t \in Names,
         NEW was \in EdgeStates \union Rooms!MemberRoles \union {"retired"},
         NEW arg \in MCPolicies \union Notes,
         Rooms!Wait(c, pc, u, t, was, arg),
         SlotFits(Rooms!Slot(pc, u, t, was, arg), comm'.state, deleting'),
         comm'.state = "absent" => comm.state = "absent" /\ Rooms!Members' = {},
         deleting \subseteq deleting',
         comm' \in Comms, roomMsg' \in Notes, Rooms!TypeOK', Rooms!CountMatches',
         entered' = entered,
         invite' \in {"none", "open"} => invite' = invite
  PROVE  RoomInv'
<1> DEFINE new == Rooms!Slot(pc, u, t, was, arg)
<1>1. new \in RoomSlots /\ new.pc # "enterInvited"
  BY DEF Rooms!Slot, RoomSlots
<1>2. roomReq' = [roomReq EXCEPT ![c] = new]
  BY DEF Rooms!Wait
<1>3. SlotFits(new, comm'.state, deleting')
  OBVIOUS
<1> HIDE DEF new
<1> QED
  BY <1>1, <1>2, <1>3, RoomFrame

(* The rows other than the requests.                                       *)
otherRooms == <<comm, role, count, roomEdge, banned, asked, invite, entered,
                roomMsg, deleting>>

LEMMA OtherRoomsKept ==
  ASSUME RoomInv, UNCHANGED otherRooms, DOMAIN roomReq' = Clients
  PROVE  /\ Rooms!TypeOK' /\ Rooms!CountMatches'
         /\ Rooms!Members' = Rooms!Members
         /\ comm' \in Comms /\ roomMsg' \in Notes
  BY DEF RoomInv, RoomTypes, Rooms!TypeOK, Rooms!CountMatches, Rooms!Members,
     otherRooms

LEMMA RoomRead ==
  ASSUME RoomInv, NEW c \in Clients, NEW pc \in RoomStages \ {"enterInvited"},
         NEW u \in Names, NEW t \in Names,
         NEW was \in EdgeStates \union Rooms!MemberRoles \union {"retired"},
         NEW arg \in MCPolicies \union Notes,
         Rooms!Wait(c, pc, u, t, was, arg), UNCHANGED otherRooms,
         SlotFits(Rooms!Slot(pc, u, t, was, arg), comm.state, deleting)
  PROVE  RoomInv'
<1>1. DOMAIN roomReq' = Clients
  BY DEF Rooms!Wait, RoomInv, RoomTypes
<1>2. /\ Rooms!TypeOK' /\ Rooms!CountMatches'
      /\ Rooms!Members' = Rooms!Members
      /\ comm' \in Comms /\ roomMsg' \in Notes
  BY <1>1, OtherRoomsKept
<1>3. UNCHANGED <<comm, deleting, entered, invite>>
  BY DEF otherRooms
<1>4. comm.state = "absent" => Rooms!Members = {}
  BY DEF RoomInv
<1> QED
  BY <1>2, <1>3, <1>4, RoomWait

(* What the guards of the readers give.                                    *)
LEMMA RoomValues ==
  ASSUME RoomInv
  PROVE  /\ \A u \in Accounts : role[u] \in EdgeStates \union Rooms!MemberRoles
                                /\ asked[u] \in EdgeStates
         /\ \A p \in Remote : roomEdge[p] \in EdgeStates
         /\ roomMsg \in Notes /\ Rooms!NoMsg \in Notes /\ "none" \in Names
         /\ Accounts \union Remote \subseteq Names
         /\ Rooms!Live => comm.state # "absent"
  BY EndedSlot DEF RoomInv, RoomTypes, Rooms!TypeOK, EdgeStates, Names, Rooms!Live

LEMMA JoinReads ==
  ASSUME RoomInv, NEW c \in Clients, NEW u \in Accounts,
         Rooms!Join(c, u) \/ Rooms!Leave(c, u)
  PROVE  RoomInv'
<1>1. UNCHANGED otherRooms
  BY DEF Rooms!Join, Rooms!Leave, otherRooms
<1>2. comm.state # "absent"
  BY RoomValues DEF Rooms!Join, Rooms!Leave
<1>3. \E pc \in {"ask", "claim", "enter", "removeOwner", "removeMember"},
         was \in EdgeStates \union Rooms!MemberRoles :
           Rooms!Wait(c, pc, u, u, was, Rooms!NoMsg)
  BY RoomValues DEF Rooms!Join, Rooms!Leave, EdgeStates
<1>4. PICK pc \in {"ask", "claim", "enter", "removeOwner", "removeMember"},
         was \in EdgeStates \union Rooms!MemberRoles :
           Rooms!Wait(c, pc, u, u, was, Rooms!NoMsg)
  BY <1>3
<1>5. SlotFits(Rooms!Slot(pc, u, u, was, Rooms!NoMsg), comm.state, deleting)
  BY <1>2 DEF SlotFits, Rooms!Slot, TeardownStages
<1>6. pc \in RoomStages \ {"enterInvited"}
  BY DEF RoomStages
<1> QED
  BY <1>1, <1>4, <1>5, <1>6, RoomValues, RoomRead

LEMMA RemoveReads ==
  ASSUME RoomInv, NEW c \in Clients, NEW u \in Accounts,
         NEW t \in Accounts \union Remote, Rooms!Remove(c, u, t)
  PROVE  RoomInv'
<1>1. UNCHANGED otherRooms
  BY DEF Rooms!Remove, otherRooms
<1>2. comm.state # "absent"
  BY RoomValues DEF Rooms!Remove, Rooms!CanRemove
<1>3. PICK pc \in {"removeOwner", "removeMember", "removeRemote"},
         was \in EdgeStates \union Rooms!MemberRoles :
           /\ Rooms!Wait(c, pc, u, t, was, Rooms!NoMsg)
           /\ pc \in {"removeOwner", "removeMember"} => t \in Accounts
           /\ pc = "removeRemote" => t \in Remote
  BY RoomValues DEF Rooms!Remove
<1>4. SlotFits(Rooms!Slot(pc, u, t, was, Rooms!NoMsg), comm.state, deleting)
  BY <1>2, <1>3 DEF SlotFits, Rooms!Slot, TeardownStages
<1>5. pc \in RoomStages \ {"enterInvited"}
  BY DEF RoomStages
<1> QED
  BY <1>1, <1>3, <1>4, <1>5, RoomValues, RoomRead

LEMMA RoleReads ==
  ASSUME RoomInv, NEW c \in Clients, NEW u \in Accounts, NEW t \in Accounts,
         NEW to \in Rooms!MemberRoles, Rooms!SetRole(c, u, t, to)
  PROVE  RoomInv'
<1>1. UNCHANGED otherRooms
  BY DEF Rooms!SetRole, otherRooms
<1>2. comm.state # "absent"
  BY RoomValues DEF Rooms!SetRole, Rooms!CanSetRole
<1>3. PICK pc \in {"demote", "setRole"} : Rooms!Wait(c, pc, u, t, to, Rooms!NoMsg)
  BY DEF Rooms!SetRole
<1>4. SlotFits(Rooms!Slot(pc, u, t, to, Rooms!NoMsg), comm.state, deleting)
  BY <1>2 DEF SlotFits, Rooms!Slot, TeardownStages
<1>5. pc \in RoomStages \ {"enterInvited"}
  BY DEF RoomStages
<1> QED
  BY <1>1, <1>3, <1>4, <1>5, RoomValues, RoomRead

LEMMA DecideReads ==
  ASSUME RoomInv, NEW c \in Clients, NEW u \in Accounts,
         NEW t \in Accounts \union Remote, NEW v \in {"accept", "reject"},
         Rooms!Decide(c, u, t, v)
  PROVE  RoomInv'
<1>1. UNCHANGED otherRooms
  BY DEF Rooms!Decide, otherRooms
<1>2. comm.state # "absent"
  BY RoomValues DEF Rooms!Decide
<1>3. Rooms!Wait(c, v, u, t, "none", Rooms!NoMsg)
  BY DEF Rooms!Decide
<1>4. SlotFits(Rooms!Slot(v, u, t, "none", Rooms!NoMsg), comm.state, deleting)
  BY <1>2 DEF SlotFits, Rooms!Slot, TeardownStages
<1>5. v \in RoomStages \ {"enterInvited"} /\ "none" \in EdgeStates
  BY DEF RoomStages, EdgeStates
<1> QED
  BY <1>1, <1>3, <1>4, <1>5, RoomValues, RoomRead

LEMMA FollowReads ==
  ASSUME RoomInv, NEW c \in Clients, NEW p \in Remote, Rooms!GroupFollow(c, p)
  PROVE  RoomInv'
<1>1. UNCHANGED otherRooms
  BY DEF Rooms!GroupFollow, otherRooms
<1>2. comm.state # "absent"
  BY RoomValues DEF Rooms!GroupFollow
<1>3. PICK was \in EdgeStates : Rooms!Wait(c, "follow", p, p, was, Rooms!NoMsg)
  BY DEF Rooms!GroupFollow, EdgeStates
<1>4. SlotFits(Rooms!Slot("follow", p, p, was, Rooms!NoMsg), comm.state, deleting)
  BY <1>2 DEF SlotFits, Rooms!Slot, TeardownStages
<1>5. "follow" \in RoomStages \ {"enterInvited"}
  BY DEF RoomStages
<1> QED
  BY <1>1, <1>3, <1>4, <1>5, RoomValues, RoomRead

LEMMA MessageReads ==
  ASSUME RoomInv, NEW c \in Clients, NEW u \in Accounts,
         Rooms!Settings(c, u) \/ Rooms!Post(c, u) \/ Rooms!Edit(c, u)
           \/ Rooms!Delete(c, u)
  PROVE  RoomInv'
<1>1. UNCHANGED otherRooms
  BY DEF Rooms!Settings, Rooms!Post, Rooms!Edit, Rooms!Delete, otherRooms
<1>2. comm.state # "absent"
  BY RoomValues DEF Rooms!Settings, Rooms!Post, Rooms!Edit, Rooms!Delete,
     Rooms!Owned, Rooms!CanRead
<1>3. PICK pc \in {"settings", "post", "edit", "delete"},
         arg \in MCPolicies \union Notes :
           /\ Rooms!Wait(c, pc, u, "none", "none", arg)
           /\ pc = "settings" => arg \in MCPolicies
  BY RoomValues DEF Rooms!Settings, Rooms!Post, Rooms!Edit, Rooms!Delete
<1>4. SlotFits(Rooms!Slot(pc, u, "none", "none", arg), comm.state, deleting)
  BY <1>2, <1>3 DEF SlotFits, Rooms!Slot, TeardownStages
<1>5. pc \in RoomStages \ {"enterInvited"} /\ "none" \in EdgeStates
  BY DEF RoomStages, EdgeStates
<1> QED
  BY <1>1, <1>3, <1>4, <1>5, RoomValues, RoomRead

(* A request ends after its write.                                         *)
LEMMA RoomDone ==
  ASSUME RoomInv, NEW c \in Clients, Rooms!Done(c),
         comm'.state = "absent" => comm.state = "absent" /\ Rooms!Members' = {},
         deleting' = deleting,
         comm' \in Comms, roomMsg' \in Notes, Rooms!TypeOK', Rooms!CountMatches',
         entered' = entered,
         invite' \in {"none", "open"} => invite' = invite
  PROVE  RoomInv'
<1> DEFINE new == Rooms!Ended
<1>1. new \in RoomSlots /\ new.pc = "ended"
  BY EndedSlot
<1>2. roomReq' = [roomReq EXCEPT ![c] = new]
  BY DEF Rooms!Done
<1>3. SlotFits(new, comm'.state, deleting')
  BY <1>1 DEF SlotFits, TeardownStages
<1> HIDE DEF new
<1> QED
  BY <1>1, <1>2, <1>3, RoomFrame

LEMMA SlotOf ==
  ASSUME RoomInv, NEW c \in Clients
  PROVE  /\ roomReq[c] \in RoomSlots
         /\ SlotFits(roomReq[c], comm.state, deleting)
         /\ DOMAIN roomReq = Clients
  BY DEF RoomInv, RoomTypes

LEMMA MembersKept ==
  ASSUME RoomInv, UNCHANGED <<role, count>>
  PROVE  /\ Rooms!CountMatches' /\ Rooms!Members' = Rooms!Members
         /\ comm.state = "absent" => Rooms!Members = {}
  BY DEF RoomInv, Rooms!CountMatches, Rooms!Members

(* The writes that leave the membership alone.                             *)
LEMMA PlainWrites ==
  ASSUME RoomInv, NEW c \in Clients,
         \/ Rooms!Ask(c) \/ Rooms!Unban(c) \/ Rooms!RemoveRemote(c)
         \/ Rooms!Reject(c) \/ Rooms!FollowWrite(c) \/ Rooms!SettingsWrite(c)
         \/ Rooms!PostWrite(c) \/ Rooms!EditWrite(c) \/ Rooms!DeleteWrite(c)
  PROVE  RoomInv'
<1> DEFINE q == roomReq[c]
<1>1. /\ Rooms!Done(c)
      /\ UNCHANGED <<role, count, invite, entered, deleting>>
  BY DEF Rooms!Ask, Rooms!Unban, Rooms!RemoveRemote, Rooms!Reject,
     Rooms!FollowWrite, Rooms!SettingsWrite, Rooms!PostWrite, Rooms!EditWrite,
     Rooms!DeleteWrite
<1>2. q \in RoomSlots /\ SlotFits(q, comm.state, deleting) /\ DOMAIN roomReq' = Clients
  BY <1>1, SlotOf DEF Rooms!Done
<1>3. /\ comm \in Comms /\ roomMsg \in Notes /\ Rooms!NoMsg \in Notes
      /\ Rooms!TypeOK
  BY EndedSlot DEF RoomInv, RoomTypes
<1>4. comm' \in Comms /\ comm'.state = comm.state
  <2>1. CASE comm' = comm
    BY <1>3, <2>1
  <2>2. CASE /\ q.pc = "settings"
             /\ comm' = [comm EXCEPT !.visibility = q.arg.visibility,
                                     !.join = q.arg.join, !.post = q.arg.post]
    <3>1. q.arg \in MCPolicies
      BY <1>2, <2>2 DEF SlotFits
    <3>2. /\ q.arg.visibility \in {"public", "private"}
          /\ q.arg.join \in {"open", "approval", "invite"}
          /\ q.arg.post \in {"anyone", "members"}
      BY <3>1 DEF MCPolicies
    <3> QED
      BY <1>3, <2>2, <3>2 DEF Comms
  <2> QED
    BY <2>1, <2>2 DEF Rooms!Ask, Rooms!Unban, Rooms!RemoveRemote, Rooms!Reject,
       Rooms!FollowWrite, Rooms!SettingsWrite, Rooms!PostWrite, Rooms!EditWrite,
       Rooms!DeleteWrite
<1>5. roomMsg' \in Notes
  <2>1. CASE roomMsg' = roomMsg \/ roomMsg' = Rooms!NoMsg
    BY <1>3, <2>1
  <2>2. CASE roomMsg' = [by |-> q.by, rev |-> 1]
    BY <1>2, <2>2 DEF Notes, RoomSlots
  <2>3. CASE roomMsg' = [roomMsg EXCEPT !.rev = @ + 1]
    BY <1>3, <2>3 DEF Notes
  <2> QED
    BY <2>1, <2>2, <2>3 DEF Rooms!Ask, Rooms!Unban, Rooms!RemoveRemote,
       Rooms!Reject, Rooms!FollowWrite, Rooms!SettingsWrite, Rooms!PostWrite,
       Rooms!EditWrite, Rooms!DeleteWrite
<1>6. roomEdge' \in [Remote -> EdgeStates]
  <2>1. roomEdge \in [Remote -> EdgeStates]
    BY <1>3 DEF Rooms!TypeOK, EdgeStates
  <2>2. CASE Rooms!FollowWrite(c)
    <3>1. q.seen \in EdgeStates
      BY <1>2, <2>2 DEF SlotFits, Rooms!FollowWrite
    <3> QED
      BY <2>1, <2>2, <3>1 DEF Rooms!FollowWrite
  <2>3. CASE Rooms!Reject(c) \/ Rooms!RemoveRemote(c)
    BY <2>1, <2>3 DEF Rooms!Reject, Rooms!RemoveRemote, EdgeStates
  <2> QED
    BY <2>1, <2>2, <2>3 DEF Rooms!Ask, Rooms!Unban, Rooms!SettingsWrite,
       Rooms!PostWrite, Rooms!EditWrite, Rooms!DeleteWrite
<1>7. banned' \subseteq Accounts \union Remote
  <2>1. CASE banned' \subseteq banned
    BY <1>3, <2>1 DEF Rooms!TypeOK
  <2>2. CASE Rooms!RemoveRemote(c)
    BY <1>2, <1>3, <2>2 DEF Rooms!RemoveRemote, Rooms!TypeOK, RoomSlots, SlotFits
  <2> QED
    BY <2>1, <2>2 DEF Rooms!Ask, Rooms!Unban, Rooms!Reject,
       Rooms!FollowWrite, Rooms!SettingsWrite, Rooms!PostWrite, Rooms!EditWrite,
       Rooms!DeleteWrite
<1>8. asked' \in [Accounts -> EdgeStates]
  <2>1. asked \in [Accounts -> EdgeStates]
    BY <1>3 DEF Rooms!TypeOK, EdgeStates
  <2> QED
    BY <2>1 DEF Rooms!Ask, Rooms!Unban, Rooms!RemoveRemote, Rooms!Reject,
       Rooms!FollowWrite, Rooms!SettingsWrite, Rooms!PostWrite, Rooms!EditWrite,
       Rooms!DeleteWrite, EdgeStates
<1>9. Rooms!TypeOK'
  BY <1>1, <1>2, <1>3, <1>4, <1>6, <1>7, <1>8 DEF Rooms!TypeOK, EdgeStates, Comms
<1> QED
  BY <1>1, <1>4, <1>5, <1>9, MembersKept, RoomDone

(* The writes that change the membership and nothing of the invite.        *)
LEMMA MemberWrites ==
  ASSUME RoomInv, NEW c \in Clients,
         \/ Rooms!Enter(c) \/ Rooms!RemoveMember(c) \/ Rooms!RemoveOwner(c)
         \/ Rooms!RoleWrite(c) \/ Rooms!Accept(c)
  PROVE  RoomInv'
<1> DEFINE q == roomReq[c]
           Counted ==
             /\ Rooms!CountMatches' /\ count' \in Nat
             /\ role' \in [Accounts -> Rooms!MemberRoles \union {"none"}]
<1>1. /\ Rooms!Done(c)
      /\ UNCHANGED <<comm, invite, entered, roomMsg, deleting>>
  BY DEF Rooms!Enter, Rooms!RemoveMember, Rooms!RemoveOwner, Rooms!RoleWrite,
     Rooms!Accept
<1>2. q \in RoomSlots /\ SlotFits(q, comm.state, deleting) /\ DOMAIN roomReq' = Clients
  BY <1>1, SlotOf DEF Rooms!Done
<1>3. comm \in Comms /\ roomMsg \in Notes /\ Rooms!TypeOK
  BY DEF RoomInv, RoomTypes
<1>4. comm.state # "absent"
  BY <1>2 DEF SlotFits, Rooms!Enter, Rooms!RemoveMember, Rooms!RemoveOwner,
     Rooms!RoleWrite, Rooms!Accept
<1>5. Counted
  <2>1. CASE UNCHANGED <<role, count>>
    BY <1>3, <2>1, MembersKept DEF Rooms!TypeOK
  <2>2. ASSUME NEW u \in Accounts, Rooms!AddMember(u) PROVE Counted
    BY <2>2, CountOfAdd
  <2>3. ASSUME NEW u \in Accounts, Rooms!DropMember(u) PROVE Counted
    BY <2>3, CountOfDrop
  <2>4. CASE Rooms!RoleWrite(c) /\ role' # role
    <3>1. q.on \in Accounts /\ q.seen \in Rooms!MemberRoles
      BY <1>2, <2>4 DEF Rooms!RoleWrite, SlotFits
    <3>2. role' = [role EXCEPT ![q.on] = q.seen] /\ role[q.on] # "none"
          /\ count' = count
      BY <2>4 DEF Rooms!RoleWrite
    <3>3. "none" \notin Rooms!MemberRoles
      BY DEF Rooms!MemberRoles, Rooms!Managers
    <3>4. Rooms!Members' = Rooms!Members
      BY <1>3, <3>1, <3>2, <3>3 DEF Rooms!Members, Rooms!TypeOK
    <3>5. Rooms!CountMatches'
      BY <3>2, <3>4 DEF RoomInv, Rooms!CountMatches
    <3> QED
      BY <1>3, <3>1, <3>2, <3>5 DEF Rooms!TypeOK
  <2>5. CASE Rooms!Enter(c)
    <3>1. q.by \in Accounts
      BY <1>2, <2>5 DEF SlotFits, Rooms!Enter
    <3> QED
      BY <2>1, <2>2, <2>5, <3>1 DEF Rooms!Enter
  <2>6. CASE Rooms!RemoveMember(c) \/ Rooms!RemoveOwner(c)
    <3>1. q.on \in Accounts
      BY <1>2, <2>6 DEF SlotFits, Rooms!RemoveMember, Rooms!RemoveOwner
    <3> QED
      BY <2>1, <2>3, <2>6, <3>1 DEF Rooms!RemoveMember, Rooms!RemoveOwner
  <2>7. CASE Rooms!Accept(c)
    BY <2>1, <2>2, <2>7 DEF Rooms!Accept
  <2> QED
    BY <2>1, <2>4, <2>5, <2>6, <2>7 DEF Rooms!RoleWrite
<1>6. banned' \subseteq Accounts \union Remote
  <2>1. CASE banned' \subseteq banned
    BY <1>3, <2>1 DEF Rooms!TypeOK
  <2>2. CASE Rooms!RemoveMember(c) \/ Rooms!RemoveOwner(c)
    BY <1>2, <1>3, <2>2 DEF Rooms!RemoveMember, Rooms!RemoveOwner, Rooms!TypeOK,
       SlotFits
  <2> QED
    BY <2>1, <2>2 DEF Rooms!Enter, Rooms!RoleWrite, Rooms!Accept
<1>7. asked' \in [Accounts -> EdgeStates] /\ roomEdge' \in [Remote -> EdgeStates]
  <2>1. asked \in [Accounts -> EdgeStates] /\ roomEdge \in [Remote -> EdgeStates]
    BY <1>3 DEF Rooms!TypeOK, EdgeStates
  <2>2. CASE Rooms!Accept(c)
    BY <2>1, <2>2 DEF Rooms!Accept, EdgeStates
  <2> QED
    BY <2>1, <2>2 DEF Rooms!Enter, Rooms!RemoveMember, Rooms!RemoveOwner,
       Rooms!RoleWrite
<1>8. Rooms!TypeOK'
  BY <1>1, <1>2, <1>3, <1>5, <1>6, <1>7 DEF Rooms!TypeOK, EdgeStates
<1> QED
  BY <1>1, <1>3, <1>4, <1>5, <1>8, RoomDone

(* The claim closes the invite, so that no second request can follow, and  *)
(* the one that claimed is the one that enters.                            *)
LEMMA ClaimStep ==
  ASSUME RoomInv, NEW c \in Clients, Rooms!ClaimInvite(c)
  PROVE  RoomInv'
<1> DEFINE q == roomReq[c]
<1>1. q \in RoomSlots /\ SlotFits(q, comm.state, deleting) /\ DOMAIN roomReq = Clients
  BY SlotOf
<1>2. UNCHANGED <<comm, role, count, roomEdge, banned, asked, entered, roomMsg,
                  deleting>>
  BY DEF Rooms!ClaimInvite
<1>3. /\ comm \in Comms /\ roomMsg \in Notes /\ Rooms!TypeOK
  BY DEF RoomInv, RoomTypes
<1>4. CASE Rooms!Done(c) /\ invite' = invite
  <2>1. Rooms!TypeOK'
    BY <1>1, <1>2, <1>3, <1>4 DEF Rooms!TypeOK, Rooms!Done
  <2> QED
    BY <1>2, <1>3, <1>4, <2>1, MembersKept, RoomDone
<1>5. CASE /\ invite = "open" /\ invite' = "used"
           /\ roomReq' = [roomReq EXCEPT ![c].pc = "enterInvited"]
  <2> DEFINE new == [q EXCEPT !.pc = "enterInvited"]
  <2>1. new \in RoomSlots /\ new.pc = "enterInvited" /\ new.by = q.by
    BY <1>1 DEF RoomSlots, RoomStages
  <2>2. \A d \in Clients : roomReq'[d] = IF d = c THEN new ELSE roomReq[d]
    BY <1>1, <1>5
  <2>3. roomReq' \in [Clients -> RoomSlots]
    BY <1>5, <2>1 DEF RoomInv, RoomTypes
  <2>4. SlotFits(new, comm.state, deleting)
    <3>1. q.by \in Accounts /\ comm.state # "absent"
      BY <1>1 DEF SlotFits, Rooms!ClaimInvite
    <3> QED
      BY <2>1, <3>1 DEF SlotFits, TeardownStages
  <2>5. \A d \in Clients : SlotFits(roomReq'[d], comm'.state, deleting')
    BY <1>2, <2>2, <2>4 DEF RoomInv
  <2>6. InviteSound'
    BY <1>2, <1>5, <2>1, <2>2 DEF RoomInv, InviteSound
  <2>7. Rooms!TypeOK'
    BY <1>2, <1>3, <1>5, <2>3 DEF Rooms!TypeOK
  <2> QED
    BY <1>2, <1>3, <2>3, <2>5, <2>6, <2>7, MembersKept DEF RoomInv, RoomTypes
<1> QED
  BY <1>4, <1>5 DEF Rooms!ClaimInvite

LEMMA EnterInvitedStep ==
  ASSUME RoomInv, NEW c \in Clients, Rooms!EnterInvited(c)
  PROVE  RoomInv'
<1> DEFINE q == roomReq[c]
<1>1. q \in RoomSlots /\ SlotFits(q, comm.state, deleting) /\ DOMAIN roomReq = Clients
  BY SlotOf
<1>2. UNCHANGED <<comm, roomEdge, banned, asked, invite, roomMsg, deleting>>
  BY DEF Rooms!EnterInvited
<1>3. /\ comm \in Comms /\ roomMsg \in Notes /\ Rooms!TypeOK
      /\ q.pc = "enterInvited" /\ q.by \in Accounts /\ comm.state # "absent"
  BY <1>1 DEF RoomInv, RoomTypes, Rooms!EnterInvited, SlotFits
<1>4. CASE Rooms!Done(c) /\ UNCHANGED <<role, count, entered>>
  <2>1. Rooms!TypeOK'
    BY <1>1, <1>2, <1>3, <1>4 DEF Rooms!TypeOK, Rooms!Done
  <2> QED
    BY <1>2, <1>3, <1>4, <2>1, MembersKept, RoomDone
<1>5. CASE /\ Rooms!AddMember(q.by) /\ entered' = entered \union {q.by}
           /\ roomReq' = [roomReq EXCEPT ![c].pc = "unban"]
  <2> DEFINE new == [q EXCEPT !.pc = "unban"]
  <2>1. new \in RoomSlots /\ new.pc = "unban" /\ new.by = q.by
    BY <1>1 DEF RoomSlots, RoomStages
  <2>2. \A d \in Clients : roomReq'[d] = IF d = c THEN new ELSE roomReq[d]
    BY <1>1, <1>5
  <2>3. roomReq' \in [Clients -> RoomSlots]
    BY <1>5, <2>1 DEF RoomInv, RoomTypes
  <2>4. SlotFits(new, comm.state, deleting)
    BY <1>3, <2>1 DEF SlotFits, TeardownStages
  <2>5. \A d \in Clients : SlotFits(roomReq'[d], comm'.state, deleting')
    BY <1>2, <2>2, <2>4 DEF RoomInv
  <2>6. InviteSound'
    <3>1. /\ invite \notin {"none", "open"} /\ entered = {}
          /\ \A d \in Clients : d # c => roomReq[d].pc # "enterInvited"
      BY <1>3 DEF RoomInv, InviteSound
    <3>2. \A d \in Clients : roomReq'[d].pc # "enterInvited"
      BY <2>1, <2>2, <3>1
    <3> QED
      BY <1>2, <1>3, <1>5, <3>1, <3>2 DEF InviteSound
  <2>7. /\ Rooms!CountMatches' /\ count' \in Nat
        /\ role' \in [Accounts -> Rooms!MemberRoles \union {"none"}]
    BY <1>3, <1>5, CountOfAdd
  <2>8. Rooms!TypeOK'
    BY <1>2, <1>3, <1>5, <2>3, <2>7 DEF Rooms!TypeOK
  <2> QED
    BY <1>2, <1>3, <2>3, <2>5, <2>6, <2>7, <2>8 DEF RoomInv, RoomTypes
<1> QED
  BY <1>4, <1>5 DEF Rooms!EnterInvited

(* The teardown of a deleted account.                                      *)
LEMMA TeardownBegins ==
  ASSUME RoomInv, NEW c \in Clients, NEW u \in Accounts, Rooms!BeginTeardown(c, u)
  PROVE  RoomInv'
<1>1. /\ UNCHANGED <<comm, role, count, roomEdge, banned, asked, invite, entered,
                     roomMsg>>
      /\ deleting' = deleting \union {u}
      /\ Rooms!Wait(c, "plan", u, "none", "none", Rooms!NoMsg)
  BY DEF Rooms!BeginTeardown
<1>2. Rooms!TypeOK' /\ comm \in Comms
  BY <1>1, SlotOf DEF RoomInv, RoomTypes, Rooms!TypeOK, Rooms!Wait
<1>3. SlotFits(Rooms!Slot("plan", u, "none", "none", Rooms!NoMsg), comm'.state, deleting')
  BY <1>1 DEF SlotFits, Rooms!Slot, TeardownStages
<1>4. "plan" \in RoomStages \ {"enterInvited"} /\ "none" \in EdgeStates
  BY DEF RoomStages, TeardownStages, EdgeStates
<1> QED
  BY <1>1, <1>2, <1>3, <1>4, MembersKept, RoomValues, RoomWait

LEMMA HandoffPlans ==
  ASSUME RoomInv, NEW c \in Clients, Rooms!PlanHandoff(c)
  PROVE  RoomInv'
<1> DEFINE u == roomReq[c].by
<1>1. /\ UNCHANGED otherRooms /\ u \in Accounts /\ u \in deleting
  BY SlotOf DEF Rooms!PlanHandoff, otherRooms, SlotFits, TeardownStages
<1>2. PICK pc \in TeardownStages, h \in Names :
        /\ Rooms!Wait(c, pc, u, h, "none", Rooms!NoMsg)
        /\ pc # "erase" => role[u] = "owner"
  BY RoomValues DEF Rooms!PlanHandoff, TeardownStages, Rooms!Staying,
     Rooms!Members
<1>3. comm.state = "absent" => pc = "erase"
  BY <1>1, <1>2 DEF RoomInv, Rooms!Members
<1>4. SlotFits(Rooms!Slot(pc, u, h, "none", Rooms!NoMsg), comm.state, deleting)
  BY <1>1, <1>3 DEF SlotFits, Rooms!Slot, TeardownStages
<1>5. pc \in RoomStages \ {"enterInvited"} /\ "none" \in EdgeStates
  BY DEF RoomStages, TeardownStages, EdgeStates
<1> QED
  BY <1>1, <1>2, <1>4, <1>5, RoomValues, RoomRead

LEMMA InheritStep ==
  ASSUME RoomInv, NEW c \in Clients, Rooms!Inherit(c) \/ Rooms!Retire(c)
  PROVE  RoomInv'
<1> DEFINE q == roomReq[c]
<1>1. /\ q \in RoomSlots /\ SlotFits(q, comm.state, deleting)
      /\ DOMAIN roomReq = Clients
  BY SlotOf
<1>2. UNCHANGED <<count, roomEdge, banned, asked, invite, entered, roomMsg,
                  deleting>>
  BY DEF Rooms!Inherit, Rooms!Retire
<1>3. comm \in Comms /\ roomMsg \in Notes /\ Rooms!TypeOK
  BY DEF RoomInv, RoomTypes
<1>4. q.by \in Accounts /\ q.by \in deleting /\ comm.state # "absent"
  BY <1>1 DEF SlotFits, TeardownStages, Rooms!Inherit, Rooms!Retire
<1>5. comm' \in Comms /\ comm'.state # "absent"
  BY <1>3, <1>4 DEF Rooms!Inherit, Rooms!Retire, Comms
<1>6. role' \in [Accounts -> Rooms!MemberRoles \union {"none"}]
      /\ Rooms!Members' = Rooms!Members
  BY <1>3 DEF Rooms!Inherit, Rooms!Retire, Rooms!TypeOK, Rooms!Members,
     Rooms!MemberRoles, Rooms!Managers
<1>7. \E new \in RoomSlots :
        /\ roomReq' = [roomReq EXCEPT ![c] = new]
        /\ new.pc = "erase" /\ new.by = q.by
  <2>1. CASE Rooms!Inherit(c)
    <3> DEFINE new == [q EXCEPT !.pc = "erase", !.on = "none"]
    <3>1. new \in RoomSlots /\ new.pc = "erase" /\ new.by = q.by
      BY <1>1 DEF RoomSlots, RoomStages, TeardownStages, Names
    <3>2. roomReq' = [roomReq EXCEPT ![c] = new]
      BY <2>1 DEF Rooms!Inherit
    <3> QED
      BY <3>1, <3>2
  <2>2. CASE Rooms!Retire(c)
    <3>1. PICK s \in {"retired", "none"} :
            roomReq' = [roomReq EXCEPT ![c] = [q EXCEPT !.pc = "erase", !.seen = s]]
      BY <2>2 DEF Rooms!Retire
    <3>2. /\ [q EXCEPT !.pc = "erase", !.seen = s] \in RoomSlots
          /\ [q EXCEPT !.pc = "erase", !.seen = s].pc = "erase"
          /\ [q EXCEPT !.pc = "erase", !.seen = s].by = q.by
      BY <1>1 DEF RoomSlots, RoomStages, TeardownStages, EdgeStates
    <3> QED
      BY <3>1, <3>2
  <2> QED
    BY <2>1, <2>2
<1>8. PICK new \in RoomSlots :
        /\ roomReq' = [roomReq EXCEPT ![c] = new]
        /\ new.pc = "erase" /\ new.by = q.by
  BY <1>7
<1>9. SlotFits(new, comm'.state, deleting')
  BY <1>2, <1>4, <1>5, <1>8 DEF SlotFits, TeardownStages
<1>10. Rooms!CountMatches'
  BY <1>2, <1>6 DEF RoomInv, Rooms!CountMatches
<1>11. Rooms!TypeOK'
  BY <1>1, <1>2, <1>3, <1>5, <1>6, <1>8 DEF Rooms!TypeOK, Comms
<1> QED
  BY <1>2, <1>3, <1>5, <1>8, <1>9, <1>10, <1>11, RoomFrame

LEMMA EraseStep ==
  ASSUME RoomInv, NEW c \in Clients, Rooms!EraseMembership(c)
  PROVE  RoomInv'
<1> DEFINE u == roomReq[c].by
<1>1. /\ u \in Accounts /\ DOMAIN roomReq' = Clients
  BY SlotOf DEF Rooms!EraseMembership, SlotFits, Rooms!Done
<1>2. /\ Rooms!DropMember(u) /\ Rooms!Done(c)
      /\ UNCHANGED <<comm, entered, deleting>>
  BY DEF Rooms!EraseMembership
<1>3. comm \in Comms /\ roomMsg' \in Notes /\ Rooms!TypeOK
  BY RoomValues DEF Rooms!EraseMembership, RoomInv, RoomTypes
<1>4. /\ Rooms!CountMatches' /\ count' \in Nat
      /\ role' \in [Accounts -> Rooms!MemberRoles \union {"none"}]
      /\ Rooms!Members' = Rooms!Members \ {u}
  BY <1>1, <1>2, CountOfDrop
<1>5. /\ roomEdge' \in [Remote -> EdgeStates] /\ asked' \in [Accounts -> EdgeStates]
      /\ banned' \subseteq Accounts \union Remote
      /\ invite' \in {"none", "open", "expired", "used", "deleted"}
  BY <1>3 DEF Rooms!EraseMembership, Rooms!TypeOK, EdgeStates
<1>6. Rooms!TypeOK'
  BY <1>1, <1>2, <1>3, <1>4, <1>5 DEF Rooms!TypeOK, EdgeStates
<1>7. invite' \in {"none", "open"} => invite' = invite
  BY DEF Rooms!EraseMembership
<1>8. comm'.state = "absent" => comm.state = "absent" /\ Rooms!Members' = {}
  BY <1>2, <1>4 DEF RoomInv
<1> QED
  BY <1>2, <1>3, <1>4, <1>6, <1>7, <1>8, RoomDone

(* The steps without a request.                                            *)
LEMMA CreateStep ==
  ASSUME RoomInv, NEW u \in Accounts, Rooms!Create(u)
  PROVE  RoomInv'
<1>1. /\ comm.state = "absent" /\ comm' = [comm EXCEPT !.state = "live"]
      /\ role' = [role EXCEPT ![u] = "owner"] /\ count' = 1
      /\ UNCHANGED <<roomEdge, banned, asked, invite, entered, roomMsg, deleting,
                     roomReq>>
  BY DEF Rooms!Create
<1>2. comm' \in Comms /\ comm'.state = "live"
  BY <1>1 DEF RoomInv, RoomTypes, Comms
<1>3. Rooms!TypeOK'
  BY <1>1, <1>2 DEF RoomInv, RoomTypes, Rooms!TypeOK, Rooms!MemberRoles, Rooms!Managers
<1>4. Rooms!Members' = {u}
  BY <1>1 DEF RoomInv, RoomTypes, Rooms!TypeOK, Rooms!Members
<1>5. Rooms!CountMatches'
  BY <1>1, <1>4, FS_Singleton, RoomCounts DEF Rooms!CountMatches
<1>6. InviteSound'
  BY <1>1 DEF RoomInv, InviteSound
<1>7. \A c \in Clients : SlotFits(roomReq'[c], comm'.state, deleting')
  BY <1>1, <1>2 DEF RoomInv, SlotFits
<1> QED
  BY <1>1, <1>2, <1>3, <1>5, <1>6, <1>7 DEF RoomInv, RoomTypes

LEMMA InviteStep ==
  ASSUME RoomInv, NEW u \in Accounts,
         Rooms!CreateInvite(u) \/ Rooms!DeleteInvite(u) \/ Rooms!InviteExpires
  PROVE  RoomInv'
<1>1. UNCHANGED <<comm, role, count, roomEdge, banned, asked, entered, roomMsg,
                  deleting, roomReq>>
  BY DEF Rooms!CreateInvite, Rooms!DeleteInvite, Rooms!InviteExpires
<1>2. /\ invite' \in {"none", "open"} => invite = "none"
      /\ invite' \in {"open", "deleted", "expired"}
  BY DEF Rooms!CreateInvite, Rooms!DeleteInvite, Rooms!InviteExpires
<1>3. InviteSound'
  BY <1>1, <1>2 DEF RoomInv, InviteSound
<1>4. Rooms!TypeOK'
  BY <1>1, <1>2 DEF RoomInv, RoomTypes, Rooms!TypeOK
<1> QED
  BY <1>1, <1>3, <1>4, MembersKept DEF RoomInv, RoomTypes

LEMMA UndoStep ==
  ASSUME RoomInv, NEW p \in Remote, Rooms!GroupUndo(p)
  PROVE  RoomInv'
<1>1. UNCHANGED <<comm, role, count, banned, asked, invite, entered, roomMsg,
                  deleting, roomReq>>
  BY DEF Rooms!GroupUndo
<1>2. Rooms!TypeOK'
  BY <1>1 DEF Rooms!GroupUndo, RoomInv, RoomTypes, Rooms!TypeOK
<1>3. InviteSound'
  BY <1>1 DEF RoomInv, InviteSound
<1> QED
  BY <1>1, <1>2, <1>3, MembersKept DEF RoomInv, RoomTypes

LEMMA RoomNext == RoomInv /\ [Rooms!Next]_roomVars => RoomInv'
<1> SUFFICES ASSUME RoomInv, [Rooms!Next]_roomVars PROVE RoomInv'
  OBVIOUS
<1>1. ASSUME NEW c \in Clients, Rooms!MemberStep(c) PROVE RoomInv'
  <2>1. CASE \/ Rooms!Ask(c) \/ Rooms!Unban(c) \/ Rooms!RemoveRemote(c)
             \/ Rooms!Reject(c) \/ Rooms!FollowWrite(c)
    BY <2>1, PlainWrites
  <2>2. CASE \/ Rooms!Enter(c) \/ Rooms!RemoveMember(c) \/ Rooms!RemoveOwner(c)
             \/ Rooms!RoleWrite(c) \/ Rooms!Accept(c)
    BY <2>2, MemberWrites
  <2>3. CASE Rooms!ClaimInvite(c) \/ Rooms!EnterInvited(c)
    BY <2>3, ClaimStep, EnterInvitedStep
  <2>4. ASSUME NEW u \in Accounts, Rooms!Join(c, u) \/ Rooms!Leave(c, u)
        PROVE  RoomInv'
    BY <2>4, JoinReads
  <2>5. ASSUME NEW u \in Accounts, NEW t \in Accounts \union Remote,
               Rooms!Remove(c, u, t)
        PROVE  RoomInv'
    BY <2>5, RemoveReads
  <2>6. ASSUME NEW u \in Accounts, NEW t \in Accounts \union Remote,
               NEW v \in {"accept", "reject"}, Rooms!Decide(c, u, t, v)
        PROVE  RoomInv'
    BY <2>6, DecideReads
  <2>7. ASSUME NEW u \in Accounts, NEW t \in Accounts, NEW new \in Rooms!MemberRoles,
               Rooms!SetRole(c, u, t, new)
        PROVE  RoomInv'
    BY <2>7, RoleReads
  <2>8. ASSUME NEW p \in Remote, Rooms!GroupFollow(c, p) PROVE RoomInv'
    BY <2>8, FollowReads
  <2> QED
    BY <1>1, <2>1, <2>2, <2>3, <2>4, <2>5, <2>6, <2>7, <2>8 DEF Rooms!MemberStep
<1>2. ASSUME NEW c \in Clients, Rooms!MessageStep(c) PROVE RoomInv'
  BY <1>2, PlainWrites, MessageReads DEF Rooms!MessageStep
<1>3. ASSUME NEW c \in Clients, Rooms!TeardownStep(c) PROVE RoomInv'
  BY <1>3, TeardownBegins, HandoffPlans, InheritStep, EraseStep
     DEF Rooms!TeardownStep
<1>4. ASSUME NEW u \in Accounts,
             Rooms!Create(u) \/ Rooms!CreateInvite(u) \/ Rooms!DeleteInvite(u)
      PROVE  RoomInv'
  BY <1>4, CreateStep, InviteStep
<1>5. CASE Rooms!InviteExpires
  BY <1>5, InviteStep, SocialAssumption
<1>6. ASSUME NEW p \in Remote, Rooms!GroupUndo(p) PROVE RoomInv'
  BY <1>6, UndoStep
<1>7. CASE UNCHANGED roomVars
  <2>1. UNCHANGED <<otherRooms, roomReq>>
    BY <1>7 DEF roomVars, otherRooms
  <2>2. InviteSound'
    BY <2>1 DEF otherRooms, RoomInv, InviteSound
  <2> QED
    BY <2>1, <2>2, OtherRoomsKept, MembersKept, SlotOf DEF otherRooms, RoomInv, RoomTypes
<1> QED
  BY <1>1, <1>2, <1>3, <1>4, <1>5, <1>6, <1>7 DEF Rooms!Next

(* The author's own write, a manager's deletion, or the teardown of the    *)
(* author: nothing else touches a message.                                 *)
LEMMA MessageOfAdmitted ==
  ASSUME RoomInv, [Rooms!Next]_roomVars, roomMsg # Rooms!NoMsg, roomMsg' # roomMsg
  PROVE  \/ \E c \in Clients :
              /\ roomReq[c].pc \in {"edit", "delete"}
              /\ roomReq'[c] = Rooms!Ended
              /\ Rooms!Owned(roomReq[c].by, roomReq[c].pc = "delete")
         \/ roomMsg.by \in deleting
<1>1. PICK c \in Clients :
        Rooms!EditWrite(c) \/ Rooms!DeleteWrite(c) \/ Rooms!EraseMembership(c)
  <2>1. ASSUME NEW c \in Clients, Rooms!MemberStep(c) PROVE FALSE
    BY <2>1 DEF Rooms!MemberStep, Rooms!Ask, Rooms!ClaimInvite, Rooms!EnterInvited,
       Rooms!Unban, Rooms!Enter, Rooms!RemoveMember, Rooms!RemoveOwner,
       Rooms!RemoveRemote, Rooms!RoleWrite, Rooms!Accept, Rooms!Reject,
       Rooms!FollowWrite, Rooms!Join, Rooms!Leave, Rooms!Remove, Rooms!Decide,
       Rooms!SetRole, Rooms!GroupFollow
  <2>2. ASSUME NEW c \in Clients, Rooms!MessageStep(c)
        PROVE  Rooms!EditWrite(c) \/ Rooms!DeleteWrite(c)
    BY <2>2 DEF Rooms!MessageStep, Rooms!SettingsWrite, Rooms!PostWrite,
       Rooms!Settings, Rooms!Post, Rooms!Edit, Rooms!Delete
  <2>3. ASSUME NEW c \in Clients, Rooms!TeardownStep(c)
        PROVE  Rooms!EraseMembership(c)
    BY <2>3 DEF Rooms!TeardownStep, Rooms!PlanHandoff, Rooms!Inherit, Rooms!Retire,
       Rooms!BeginTeardown
  <2> QED
    BY <2>1, <2>2, <2>3 DEF Rooms!Next, roomVars, Rooms!Create, Rooms!CreateInvite,
       Rooms!DeleteInvite, Rooms!InviteExpires, Rooms!GroupUndo
<1>2. CASE Rooms!EditWrite(c) \/ Rooms!DeleteWrite(c)
  <2>1. roomReq'[c] = Rooms!Ended
    BY <1>2, SlotOf DEF Rooms!EditWrite, Rooms!DeleteWrite, Rooms!Done
  <2>2. roomReq[c].pc \in {"edit", "delete"}
    BY <1>2 DEF Rooms!EditWrite, Rooms!DeleteWrite
  <2>3. Rooms!Owned(roomReq[c].by, roomReq[c].pc = "delete")
    BY <1>2 DEF Rooms!EditWrite, Rooms!DeleteWrite, Rooms!Unchanged, Rooms!Owned
  <2> QED
    BY <2>1, <2>2, <2>3
<1>3. CASE Rooms!EraseMembership(c)
  BY <1>3, SlotOf DEF Rooms!EraseMembership, SlotFits, TeardownStages
<1> QED
  BY <1>1, <1>2, <1>3

-----------------------------------------------------------------------------
(* Posts.                                                                  *)

BoardStages ==
  {"new", "ended", "reply", "edit", "delete", "storyCascade", "sweepCascade",
   "storyDelete", "sweepDelete", "sweepCount", "like", "unlike", "repost",
   "unrepost", "mark", "toolMark", "view", "vote", "share", "likeStory",
   "unlikeStory"}
BoardSlots == [pc : BoardStages, by : Fellows \union {"none"},
               on : Board!Objects \union {"none"}]

(* What a slot has resolved: a deletion has read its object, and a sweep   *)
(* that is to count has removed the story.                                 *)
BoardFits(q, o) ==
  /\ q.pc \notin {"new", "ended"} => q.by \in Fellows /\ q.on \in Board!Objects
  /\ q.pc = "delete" => o[q.on] # "none"
  /\ q.pc = "sweepCount" => o["story"] = "gone"

BoardTypes == Board!TypeOK /\ postReq \in [Clients -> BoardSlots]

(* An author's counter covers the live objects, and the story that a sweep *)
(* has removed and is yet to count; there is one such sweep at most.       *)
One(b) == IF b THEN 1 ELSE 0
Counting == {c \in Clients : postReq[c].pc = "sweepCount"}
PostsCovered ==
  /\ postCount[Ann] >= One(Board!Live("note"))
                         + One(Board!Live("story") \/ Counting # {})
  /\ postCount[Bob] >= One(Board!Live("reply"))
  /\ \A c, d \in Counting : c = d

(* A Note that is not there yet has no likes and no replies.               *)
EdgesSound ==
  /\ Board!EdgesHaveObject
  /\ \A o \in {"note", "reply"} :
       /\ Board!Live(o) => likeCount[o] = Board!Counted(likes, o)
       /\ obj[o] = "none" => likeCount[o] = 0
RepliesSound ==
  /\ Board!Live("note") => replyCount = Board!Replies(Board!Live("reply"))
  /\ obj["note"] = "none" => obj["reply"] = "none" /\ replyCount = 0

BoardInv ==
  /\ BoardTypes /\ PostsCovered /\ EdgesSound /\ RepliesSound
  /\ \A c \in Clients : BoardFits(postReq[c], obj)

LEMMA BoardNames ==
  /\ Ann \in Fellows /\ Bob \in Fellows /\ Ann # Bob
  /\ Board!Objects = {"note", "reply", "story"}
  /\ Board!AuthorOf("note") = Ann /\ Board!AuthorOf("story") = Ann
  /\ Board!AuthorOf("reply") = Bob
  BY SocialAssumption DEF Fellows, Board!Objects, Board!AuthorOf

LEMMA BoardCounts == \A S : Board!Cardinality(S) = Cardinality(S)
  BY DEF Board!Cardinality, Cardinality

LEMMA EndedPost ==
  /\ Board!Ended \in BoardSlots /\ Board!Ended.pc = "ended"
  /\ [Board!Ended EXCEPT !.pc = "new"] \in BoardSlots
  /\ [Board!Ended EXCEPT !.pc = "new"].pc = "new"
  BY DEF Board!Ended, Board!Slot, BoardSlots, BoardStages

(* Likes of one object are finitely many.                                  *)
LEMMA LikesFinite ==
  ASSUME NEW E \in SUBSET (Fellows \X Board!Objects), NEW o
  PROVE  Board!Counted(E, o) \in Nat
<1>1. IsFiniteSet(Fellows) /\ IsFiniteSet(Board!Objects)
  <2>1. IsFiniteSet(Fellows)
    BY FS_Subset, SocialAssumption DEF Fellows
  <2>2. IsFiniteSet(Board!Objects)
    <3>1. IsFiniteSet(({} \union {"note"}) \union {"reply"})
      BY FS_EmptySet, FS_AddElement
    <3>2. IsFiniteSet((({} \union {"note"}) \union {"reply"}) \union {"story"})
      BY <3>1, FS_AddElement
    <3>3. (({} \union {"note"}) \union {"reply"}) \union {"story"} = Board!Objects
      BY DEF Board!Objects
    <3> QED
      BY <3>2, <3>3
  <2> QED
    BY <2>1, <2>2
<1>2. IsFiniteSet(Fellows \X Board!Objects)
  BY <1>1, FS_Product
<1>3. {e \in E : e[2] = o} \subseteq Fellows \X Board!Objects
  OBVIOUS
<1>4. IsFiniteSet({e \in E : e[2] = o})
  BY <1>2, <1>3, FS_Subset
<1>5. Cardinality({e \in E : e[2] = o}) \in Nat
  BY <1>4, FS_CardinalityType
<1> QED
  BY <1>5, BoardCounts DEF Board!Counted

LEMMA NoLikes ==
  ASSUME NEW E, NEW o, \A e \in E : e[2] # o
  PROVE  Board!Counted(E, o) = 0
<1>1. {e \in E : e[2] = o} = {}
  OBVIOUS
<1> QED
  BY <1>1, FS_EmptySet, BoardCounts DEF Board!Counted

LEMMA BoardInit == Board!Init \/ BoardInUse => BoardInv
<1> USE BoardNames
<1>1. ASSUME Board!Init PROVE BoardInv
  <2>1. postReq \in [Clients -> BoardSlots] /\ \A c \in Clients : postReq[c].pc = "new"
    BY <1>1, EndedPost DEF Board!Init
  <2>2. BoardTypes
    BY <1>1, <2>1 DEF Board!Init, BoardTypes, Board!TypeOK
  <2>3. PostsCovered
    BY <1>1, <2>1 DEF Board!Init, PostsCovered, One, Counting, Board!Live
  <2>4. EdgesSound /\ RepliesSound
    BY <1>1 DEF Board!Init, EdgesSound, RepliesSound, Board!EdgesHaveObject, Board!Live
  <2>5. \A c \in Clients : BoardFits(postReq[c], obj)
    BY <2>1 DEF BoardFits
  <2> QED
    BY <2>2, <2>3, <2>4, <2>5 DEF BoardInv
<1>2. ASSUME BoardInUse PROVE BoardInv
  <2>1. postReq \in [Clients -> BoardSlots] /\ \A c \in Clients : postReq[c].pc = "new"
    BY <1>2, EndedPost DEF BoardInUse
  <2>2. BoardTypes
    <3>1. likes \subseteq Fellows \X Board!Objects
      BY <1>2 DEF BoardInUse
    <3>2. /\ likeCount \in [Board!Objects -> Nat] /\ postCount \in [Fellows -> Nat]
          /\ obj \in [Board!Objects -> {"none", "live", "gone"}]
      BY <1>2 DEF BoardInUse
    <3> QED
      BY <1>2, <2>1, <3>1, <3>2 DEF BoardInUse, BoardTypes, Board!TypeOK
  <2>3. PostsCovered
    BY <1>2, <2>1 DEF BoardInUse, PostsCovered, One, Counting, Board!Live
  <2>4. Board!Counted(likes, "note") = 2
    <3>1. {e \in likes : e[2] = "note"} = {<<Ann, "note">>} \union {<<Bob, "note">>}
      BY <1>2 DEF BoardInUse
    <3>2. IsFiniteSet({<<Ann, "note">>}) /\ Cardinality({<<Ann, "note">>}) = 1
      BY FS_Singleton
    <3>3. <<Bob, "note">> \notin {<<Ann, "note">>}
      OBVIOUS
    <3>4. Cardinality({<<Ann, "note">>} \union {<<Bob, "note">>})
            = Cardinality({<<Ann, "note">>}) + 1
      BY <3>2, <3>3, FS_AddElement
    <3>5. Cardinality({<<Ann, "note">>} \union {<<Bob, "note">>}) = 2
      BY <3>2, <3>4
    <3>6. Cardinality({e \in likes : e[2] = "note"}) = 2
      BY <3>1, <3>5, Zenon
    <3> QED
      BY <3>6, BoardCounts DEF Board!Counted
  <2>5. Board!Counted(likes, "reply") = 0
    BY <1>2, NoLikes DEF BoardInUse
  <2>6. EdgesSound
    BY <1>2, <2>4, <2>5 DEF BoardInUse, EdgesSound, Board!EdgesHaveObject, Board!Live
  <2>7. RepliesSound
    BY <1>2 DEF BoardInUse, RepliesSound, Board!Replies, Board!Live
  <2>8. \A c \in Clients : BoardFits(postReq[c], obj)
    BY <2>1 DEF BoardFits
  <2> QED
    BY <2>2, <2>3, <2>6, <2>7, <2>8 DEF BoardInv
<1> QED
  BY <1>1, <1>2

(* A request moves to its next slot while its objects only age.            *)
Ages == \A o \in Board!Objects :
          /\ obj[o] # "none" => obj'[o] # "none"
          /\ obj[o] = "gone" => obj'[o] = "gone"

LEMMA BoardFrame ==
  ASSUME BoardInv, NEW c \in Clients, NEW new \in BoardSlots,
         postReq' = [postReq EXCEPT ![c] = new], BoardFits(new, obj'), Ages,
         Board!TypeOK', PostsCovered', EdgesSound', RepliesSound'
  PROVE  BoardInv'
<1>1. postReq' \in [Clients -> BoardSlots]
  BY DEF BoardInv, BoardTypes
<1>2. \A d \in Clients : postReq'[d] = IF d = c THEN new ELSE postReq[d]
  BY DEF BoardInv, BoardTypes
<1>3. \A d \in Clients : BoardFits(postReq[d], obj')
  BY DEF BoardInv, BoardFits, Ages, Board!Objects
<1> QED
  BY <1>1, <1>2, <1>3 DEF BoardInv, BoardTypes

(* Whoever is to count stays so, unless it is the request that moves.      *)
LEMMA CountingShrinks ==
  ASSUME BoardInv, NEW c \in Clients, NEW new \in BoardSlots,
         postReq' = [postReq EXCEPT ![c] = new], new.pc # "sweepCount"
  PROVE  Counting' = Counting \ {c}
  BY DEF BoardInv, BoardTypes, Counting

(* A request that ends or moves on without a change of the objects or of   *)
(* the counters of their authors.                                          *)
LEMMA BoardMoves ==
  ASSUME BoardInv, NEW c \in Clients, NEW new \in BoardSlots,
         postReq' = [postReq EXCEPT ![c] = new], new.pc # "sweepCount",
         BoardFits(new, obj), UNCHANGED <<obj, postCount, replyCount>>,
         Board!TypeOK', EdgesSound'
  PROVE  BoardInv'
<1>1. Ages
  BY DEF Ages
<1>2. PostsCovered'
  <2>1. Counting' = Counting \ {c}
    BY CountingShrinks
  <2> QED
    BY <2>1, BoardNames DEF BoardInv, BoardTypes, Board!TypeOK, PostsCovered, One,
       Board!Live
<1>3. RepliesSound'
  BY DEF BoardInv, RepliesSound, Board!Live, Board!Replies
<1> QED
  BY <1>1, <1>2, <1>3, BoardFrame

LEMMA BoardRead ==
  ASSUME BoardInv, NEW c \in Clients, NEW pc \in BoardStages \ {"sweepCount", "new"},
         NEW u \in Fellows, NEW o \in Board!Objects, Board!Wait(c, pc, u, o),
         pc = "delete" => obj[o] # "none",
         UNCHANGED <<obj, expired, likes, reposts, marks, seen, likeCount,
                     repostCount, shareCount, replyCount, postCount>>
  PROVE  BoardInv'
<1> DEFINE new == Board!Slot(pc, u, o)
<1>1. new \in BoardSlots /\ new.pc = pc /\ new.by = u /\ new.on = o
  BY DEF Board!Slot, BoardSlots
<1>2. BoardFits(new, obj)
  BY <1>1 DEF BoardFits
<1>3. postReq' = [postReq EXCEPT ![c] = new]
  BY DEF Board!Wait
<1>4. Board!TypeOK' /\ EdgesSound'
  BY DEF BoardInv, BoardTypes, Board!TypeOK, EdgesSound, Board!EdgesHaveObject,
     Board!Live, Board!Counted
<1> HIDE DEF new
<1> QED
  BY <1>1, <1>2, <1>3, <1>4, BoardMoves

LEMMA BoardDone ==
  ASSUME BoardInv, NEW c \in Clients, Board!Done(c),
         UNCHANGED <<obj, postCount, replyCount>>, Board!TypeOK', EdgesSound'
  PROVE  BoardInv'
<1> DEFINE new == Board!Ended
<1>1. new \in BoardSlots /\ new.pc = "ended"
  BY EndedPost
<1>2. BoardFits(new, obj)
  BY <1>1 DEF BoardFits
<1>3. postReq' = [postReq EXCEPT ![c] = new]
  BY DEF Board!Done
<1> HIDE DEF new
<1> QED
  BY <1>1, <1>2, <1>3, BoardMoves

(* The reads of the interactions and of the routes.                        *)
boardRows == <<obj, expired, likes, reposts, marks, seen, likeCount, repostCount,
               shareCount, replyCount, postCount>>

LEMMA Readers ==
  ASSUME BoardInv, NEW c \in Clients, NEW u \in Fellows, NEW o \in Board!Objects,
         \/ Board!Reply(c) \/ Board!Edit(c) \/ Board!Delete(c, o)
         \/ Board!DeleteStory(c) \/ Board!Sweep(c)
         \/ Board!Like(c, u, o) \/ Board!Unlike(c, u, o) \/ Board!Repost(c, u, o)
         \/ Board!Unrepost(c, u, o) \/ Board!Bookmark(c, u, o, "mark")
         \/ Board!Bookmark(c, u, o, "toolMark")
         \/ Board!View(c, u) \/ Board!Vote(c, u) \/ Board!Share(c, u)
         \/ Board!LikeStory(c, u) \/ Board!UnlikeStory(c, u)
  PROVE  BoardInv'
<1> USE BoardNames
<1>1. UNCHANGED boardRows
  BY DEF boardRows, Board!Reply, Board!Edit, Board!Delete, Board!DeleteStory,
     Board!Sweep, Board!Like, Board!Unlike, Board!Repost, Board!Unrepost,
     Board!Bookmark, Board!View, Board!Vote, Board!Share, Board!StoryRow,
     Board!LikeStory, Board!UnlikeStory, Board!edgeVars, Board!countVars
<1>2. CASE \/ Board!Reply(c) \/ Board!Edit(c) \/ Board!DeleteStory(c)
           \/ Board!Sweep(c)
  <2>1. PICK pc \in {"reply", "edit", "storyCascade", "sweepCascade"},
           v \in Fellows, p \in Board!Objects : Board!Wait(c, pc, v, p)
    BY <1>2 DEF Board!Reply, Board!Edit, Board!DeleteStory, Board!Sweep
  <2>2. pc \in BoardStages \ {"sweepCount", "new"} /\ pc # "delete"
    BY DEF BoardStages
  <2> QED
    BY <1>1, <2>1, <2>2, BoardRead DEF boardRows
<1>3. CASE Board!Delete(c, o)
  <2>1. Board!Wait(c, "delete", Board!AuthorOf(o), o) /\ obj[o] # "none"
    BY <1>3 DEF Board!Delete, Board!Live
  <2>2. Board!AuthorOf(o) \in Fellows /\ "delete" \in BoardStages \ {"sweepCount", "new"}
    BY DEF BoardStages
  <2> QED
    BY <1>1, <2>1, <2>2, BoardRead DEF boardRows
<1>4. CASE \/ Board!Like(c, u, o) \/ Board!Unlike(c, u, o) \/ Board!Repost(c, u, o)
           \/ Board!Unrepost(c, u, o) \/ Board!Bookmark(c, u, o, "mark")
           \/ Board!Bookmark(c, u, o, "toolMark")
  <2>1. PICK pc \in {"like", "unlike", "repost", "unrepost", "mark", "toolMark"} :
           Board!Wait(c, pc, u, o)
    BY <1>4 DEF Board!Like, Board!Unlike, Board!Repost, Board!Unrepost,
       Board!Bookmark
  <2>2. pc \in BoardStages \ {"sweepCount", "new"} /\ pc # "delete"
    BY DEF BoardStages
  <2> QED
    BY <1>1, <2>1, <2>2, BoardRead DEF boardRows
<1>5. CASE \/ Board!View(c, u) \/ Board!Vote(c, u) \/ Board!Share(c, u)
           \/ Board!LikeStory(c, u) \/ Board!UnlikeStory(c, u)
  <2>1. PICK pc \in {"view", "vote", "share", "likeStory", "unlikeStory"} :
           Board!Wait(c, pc, u, "story")
    BY <1>5 DEF Board!View, Board!Vote, Board!Share, Board!StoryRow,
       Board!LikeStory, Board!UnlikeStory
  <2>2. pc \in BoardStages \ {"sweepCount", "new"} /\ pc # "delete"
    BY DEF BoardStages
  <2> QED
    BY <1>1, <2>1, <2>2, BoardRead DEF boardRows
<1> QED
  BY <1>2, <1>3, <1>4, <1>5

(* What a request under way has resolved.                                  *)
LEMMA PostSlot ==
  ASSUME BoardInv, NEW c \in Clients, postReq[c].pc \notin {"new", "ended"}
  PROVE  /\ postReq[c].by \in Fellows /\ postReq[c].on \in Board!Objects
         /\ postReq[c] \in BoardSlots /\ BoardFits(postReq[c], obj)
  BY DEF BoardInv, BoardTypes, BoardFits

(* Likes change with their counter, and only those of a live Note count.   *)
LEMMA LikesKept ==
  ASSUME BoardInv, UNCHANGED <<obj, likes, likeCount>>, reposts' \subseteq reposts
  PROVE  EdgesSound'
  BY DEF BoardInv, EdgesSound, Board!EdgesHaveObject, Board!Live, Board!Counted

LEMMA OneLike ==
  ASSUME BoardInv, NEW o \in Board!Objects, NEW u,
         \/ Board!Live(o) /\ likes' = likes \union {<<u, o>>}
         \/ likes' = likes \ {<<u, o>>},
         u \in Fellows,
         likeCount' = [likeCount EXCEPT ![o] =
                         IF Board!Live(o) THEN Board!Counted(likes', o) ELSE @],
         UNCHANGED <<obj, reposts>>
  PROVE  EdgesSound' /\ likes' \subseteq Fellows \X Board!Objects
         /\ likeCount' \in [Board!Objects -> Nat]
<1>1. likes \subseteq Fellows \X Board!Objects /\ likeCount \in [Board!Objects -> Nat]
  BY DEF BoardInv, BoardTypes, Board!TypeOK
<1>2. likes' \subseteq Fellows \X Board!Objects
  BY <1>1
<1>3. likeCount' \in [Board!Objects -> Nat]
  BY <1>1, <1>2, LikesFinite
<1>4. \A p \in Board!Objects : p # o => Board!Counted(likes', p) = Board!Counted(likes, p)
  <2> SUFFICES ASSUME NEW p \in Board!Objects, p # o
               PROVE  Board!Counted(likes', p) = Board!Counted(likes, p)
    OBVIOUS
  <2>1. {e \in likes' : e[2] = p} = {e \in likes : e[2] = p}
    OBVIOUS
  <2> QED
    BY <2>1 DEF Board!Counted
<1>5. Board!EdgesHaveObject'
  BY DEF BoardInv, EdgesSound, Board!EdgesHaveObject, Board!Live
<1>6. \A p \in {"note", "reply"} :
        /\ Board!Live(p)' => likeCount'[p] = Board!Counted(likes', p)
        /\ obj'[p] = "none" => likeCount'[p] = 0
  BY <1>1, <1>4, BoardNames DEF BoardInv, EdgesSound, Board!Live
<1>7. EdgesSound'
  BY <1>5, <1>6 DEF EdgesSound, Board!Counted, Board!Live
<1> QED
  BY <1>2, <1>3, <1>7

LEMMA LikeSteps ==
  ASSUME BoardInv, NEW c \in Clients, Board!LikeWrite(c) \/ Board!UnlikeWrite(c)
  PROVE  BoardInv'
<1> DEFINE u == postReq[c].by
           o == postReq[c].on
<1>1. u \in Fellows /\ o \in Board!Objects
  BY PostSlot DEF Board!LikeWrite, Board!UnlikeWrite
<1>2. /\ Board!Done(c)
      /\ UNCHANGED <<obj, expired, reposts, marks, seen, repostCount, shareCount,
                     replyCount, postCount>>
  BY DEF Board!LikeWrite, Board!UnlikeWrite
<1>3. \/ UNCHANGED <<likes, likeCount>>
      \/ /\ \/ Board!Live(o) /\ likes' = likes \union {<<u, o>>}
            \/ likes' = likes \ {<<u, o>>}
         /\ likeCount' = [likeCount EXCEPT ![o] =
              IF Board!Live(o) THEN Board!Counted(likes', o) ELSE @]
  BY DEF Board!LikeWrite, Board!UnlikeWrite, Board!Guarded, Board!UnlikeCount
<1>4. EdgesSound' /\ likes' \subseteq Fellows \X Board!Objects
      /\ likeCount' \in [Board!Objects -> Nat]
  <2>1. CASE UNCHANGED <<likes, likeCount>>
    BY <1>2, <2>1, LikesKept DEF BoardInv, BoardTypes, Board!TypeOK
  <2>2. CASE ~UNCHANGED <<likes, likeCount>>
    BY <1>1, <1>2, <1>3, <2>2, OneLike
  <2> QED
    BY <2>1, <2>2
<1>5. Board!TypeOK'
  BY <1>2, <1>4 DEF BoardInv, BoardTypes, Board!TypeOK
<1> QED
  BY <1>2, <1>4, <1>5, BoardDone

(* Likes of the story: neither its edges nor its counter are of a Note.    *)
LEMMA StoryLikes ==
  ASSUME BoardInv, NEW c \in Clients,
         Board!LikeStoryWrite(c) \/ Board!UnlikeStoryWrite(c)
  PROVE  BoardInv'
<1> DEFINE e == <<postReq[c].by, "story">>
<1>1. postReq[c].by \in Fellows
  BY PostSlot DEF Board!LikeStoryWrite, Board!UnlikeStoryWrite
<1>2. /\ Board!Done(c)
      /\ UNCHANGED <<obj, expired, reposts, marks, seen, repostCount, shareCount,
                     replyCount, postCount>>
      /\ likes' = likes \/ likes' = likes \union {e} \/ likes' = likes \ {e}
  BY DEF Board!LikeStoryWrite, Board!UnlikeStoryWrite
<1>3. likes' \subseteq Fellows \X Board!Objects
  BY <1>1, <1>2, BoardNames DEF BoardInv, BoardTypes, Board!TypeOK
<1>4. /\ likeCount' \in [Board!Objects -> Nat]
      /\ \A p \in {"note", "reply"} : likeCount'[p] = likeCount[p]
  BY BoardNames DEF Board!LikeStoryWrite, Board!UnlikeStoryWrite, Board!Minus,
     BoardInv, BoardTypes, Board!TypeOK
<1>5. EdgesSound'
  <2>1. \A p \in {"note", "reply"} : Board!Counted(likes', p) = Board!Counted(likes, p)
    <3> SUFFICES ASSUME NEW p \in {"note", "reply"}
                 PROVE  Board!Counted(likes', p) = Board!Counted(likes, p)
      OBVIOUS
    <3>1. {d \in likes' : d[2] = p} = {d \in likes : d[2] = p}
      BY <1>2
    <3> QED
      BY <3>1 DEF Board!Counted
  <2>2. Board!EdgesHaveObject'
    BY <1>2 DEF BoardInv, EdgesSound, Board!EdgesHaveObject, Board!Live
  <2>3. \A p \in {"note", "reply"} :
          /\ Board!Live(p)' => likeCount'[p] = Board!Counted(likes', p)
          /\ obj'[p] = "none" => likeCount'[p] = 0
    BY <1>2, <1>4, <2>1 DEF BoardInv, EdgesSound, Board!Live
  <2> QED
    BY <2>2, <2>3 DEF EdgesSound, Board!Counted, Board!Live
<1>6. Board!TypeOK'
  BY <1>2, <1>3, <1>4 DEF BoardInv, BoardTypes, Board!TypeOK
<1> QED
  BY <1>2, <1>5, <1>6, BoardDone

(* A repost lands only on an object that is there.                         *)
LEMMA RepostSteps ==
  ASSUME BoardInv, NEW c \in Clients, Board!RepostWrite(c) \/ Board!UnrepostWrite(c)
  PROVE  BoardInv'
<1> DEFINE e == <<postReq[c].by, postReq[c].on>>
<1>1. e \in Fellows \X Board!Objects
  BY PostSlot DEF Board!RepostWrite, Board!UnrepostWrite
<1>2. /\ Board!Done(c)
      /\ UNCHANGED <<obj, expired, likes, marks, seen, likeCount, shareCount,
                     replyCount, postCount>>
      /\ \/ reposts' \subseteq reposts
         \/ Board!Live(postReq[c].on) /\ reposts' = reposts \union {e}
  <2>1. /\ Board!Done(c)
        /\ UNCHANGED <<obj, expired, likes, marks, seen, likeCount, shareCount,
                       replyCount, postCount>>
    BY DEF Board!RepostWrite, Board!UnrepostWrite
  <2>2. \/ reposts' = reposts \/ reposts' = reposts \ {e}
        \/ Board!Live(postReq[c].on) /\ reposts' = reposts \union {e}
    BY DEF Board!RepostWrite, Board!UnrepostWrite, Board!Guarded
  <2>3. \/ reposts' \subseteq reposts
        \/ Board!Live(postReq[c].on) /\ reposts' = reposts \union {e}
    BY <2>2
  <2> QED
    BY <2>1, <2>3
<1>3. reposts' \subseteq Fellows \X Board!Objects
  BY <1>1, <1>2 DEF BoardInv, BoardTypes, Board!TypeOK
<1>4. repostCount' \in [Board!Objects -> Nat]
  BY DEF Board!RepostWrite, Board!UnrepostWrite, Board!Minus, BoardInv, BoardTypes,
     Board!TypeOK
<1>5. EdgesSound'
  BY <1>2 DEF BoardInv, EdgesSound, Board!EdgesHaveObject, Board!Live, Board!Counted
<1>6. Board!TypeOK'
  BY <1>2, <1>3, <1>4 DEF BoardInv, BoardTypes, Board!TypeOK
<1> QED
  BY <1>2, <1>5, <1>6, BoardDone

(* The writes that touch neither likes nor reposts nor counted posts.      *)
LEMMA SideWrites ==
  ASSUME BoardInv, NEW c \in Clients,
         \/ Board!BookmarkWrite(c) \/ Board!StoryRowWrite(c) \/ Board!EditWrite(c)
         \/ Board!Crash(c)
         \/ \E u \in Fellows, o \in Board!Objects : Board!Unbookmark(c, u, o)
  PROVE  BoardInv'
<1>1. /\ Board!Done(c)
      /\ UNCHANGED <<obj, expired, likes, reposts, likeCount, repostCount,
                     replyCount, postCount>>
  BY DEF Board!BookmarkWrite, Board!StoryRowWrite, Board!EditWrite, Board!Crash,
     Board!Unbookmark, Board!edgeVars, Board!countVars
<1>2. /\ marks' \subseteq Fellows \X Board!Objects
      /\ seen' \subseteq {"view", "vote", "share"} \X Fellows
      /\ shareCount' \in Nat
  <2>1. /\ marks \subseteq Fellows \X Board!Objects
        /\ seen \subseteq {"view", "vote", "share"} \X Fellows
        /\ shareCount \in Nat
    BY DEF BoardInv, BoardTypes, Board!TypeOK
  <2>2. CASE Board!BookmarkWrite(c)
    BY <2>1, <2>2, PostSlot DEF Board!BookmarkWrite, Board!countVars
  <2>3. CASE Board!StoryRowWrite(c)
    BY <2>1, <2>3, PostSlot DEF Board!StoryRowWrite
  <2>4. CASE \/ Board!EditWrite(c) \/ Board!Crash(c)
             \/ \E u \in Fellows, o \in Board!Objects : Board!Unbookmark(c, u, o)
    BY <2>1, <2>4 DEF Board!EditWrite, Board!Crash, Board!Unbookmark,
       Board!edgeVars, Board!countVars
  <2> QED
    BY <2>2, <2>3, <2>4
<1>3. Board!TypeOK'
  BY <1>1, <1>2 DEF BoardInv, BoardTypes, Board!TypeOK
<1> QED
  BY <1>1, <1>3, LikesKept, BoardDone

(* The cascade of an object leaves the likes of the others.                *)
LEMMA CascadeKeeps ==
  ASSUME BoardInv, NEW o \in Board!Objects, Board!Cascade(o),
         likeCount' = likeCount, obj' = obj \/ obj' = [obj EXCEPT ![o] = "gone"],
         o = "story" \/ obj'[o] = "gone"
  PROVE  /\ EdgesSound'
         /\ likes' \subseteq likes /\ reposts' \subseteq reposts
         /\ marks' \subseteq marks /\ seen' \subseteq seen
<1>1. \A p \in Board!Objects : p # o => obj'[p] = obj[p]
  BY DEF BoardInv, BoardTypes, Board!TypeOK
<1>2. likes' \subseteq likes /\ reposts' \subseteq reposts
      /\ marks' \subseteq marks /\ seen' \subseteq seen
  BY DEF Board!Cascade
<1>3. \A p \in Board!Objects : p # o => Board!Counted(likes', p) = Board!Counted(likes, p)
  <2> SUFFICES ASSUME NEW p \in Board!Objects, p # o
               PROVE  Board!Counted(likes', p) = Board!Counted(likes, p)
    OBVIOUS
  <2>1. {e \in likes' : e[2] = p} = {e \in likes : e[2] = p}
    BY DEF Board!Cascade
  <2> QED
    BY <2>1 DEF Board!Counted
<1>4. Board!EdgesHaveObject'
  <2>1. \A e \in likes' \union reposts' : e \in likes \union reposts /\ e[2] # o
                                          /\ e[2] \in Board!Objects
    BY DEF Board!Cascade, BoardInv, BoardTypes, Board!TypeOK
  <2> QED
    BY <1>1, <2>1 DEF BoardInv, EdgesSound, Board!EdgesHaveObject, Board!Live
<1>5. \A p \in {"note", "reply"} :
        /\ Board!Live(p)' => likeCount'[p] = Board!Counted(likes', p)
        /\ obj'[p] = "none" => likeCount'[p] = 0
  BY <1>1, <1>3, BoardNames DEF BoardInv, EdgesSound, Board!Live
<1> QED
  BY <1>2, <1>4, <1>5 DEF EdgesSound, Board!Counted, Board!Live

(* Creating: nothing hangs on an object that was not there.                *)
LEMMA CreateSteps ==
  ASSUME BoardInv, Board!CreatePost \/ Board!CreateStory \/ Board!Expire
  PROVE  BoardInv'
<1> USE BoardNames
<1>1. UNCHANGED <<likes, reposts, marks, seen, likeCount, repostCount, shareCount,
                  replyCount, postReq>>
  BY DEF Board!CreatePost, Board!CreateStory, Board!Expire, Board!edgeVars,
     Board!countVars
<1>2. /\ obj \in [Board!Objects -> {"none", "live", "gone"}]
      /\ postCount \in [Fellows -> Nat]
  BY DEF BoardInv, BoardTypes, Board!TypeOK
<1>3. Board!TypeOK'
  <2>1. /\ obj' \in [Board!Objects -> {"none", "live", "gone"}]
        /\ postCount' \in [Fellows -> Nat]
    BY <1>2 DEF Board!CreatePost, Board!CreateStory, Board!Expire
  <2>2. expired' \in BOOLEAN
    BY DEF Board!CreatePost, Board!CreateStory, Board!Expire, BoardInv, BoardTypes,
       Board!TypeOK
  <2> QED
    BY <1>1, <2>1, <2>2 DEF BoardInv, BoardTypes, Board!TypeOK
<1>4. Ages
  BY <1>2 DEF Ages, Board!CreatePost, Board!CreateStory, Board!Expire
<1>5. \A c \in Clients : BoardFits(postReq'[c], obj')
  BY <1>1, <1>4 DEF BoardInv, BoardFits, Ages
<1>6. PostsCovered'
  <2>1. Counting' = Counting
    BY <1>1 DEF Counting
  <2>2. obj["story"] = "none" => Counting = {}
    BY DEF BoardInv, Counting, BoardFits
  <2>3. CASE Board!CreatePost
    BY <1>2, <2>1, <2>3 DEF Board!CreatePost, BoardInv, PostsCovered, One, Board!Live
  <2>4. CASE Board!CreateStory
    BY <1>2, <2>1, <2>2, <2>4 DEF Board!CreateStory, BoardInv, PostsCovered, One,
       Board!Live
  <2>5. CASE Board!Expire
    BY <2>1, <2>5 DEF Board!Expire, BoardInv, PostsCovered, One, Board!Live
  <2> QED
    BY <2>3, <2>4, <2>5
<1>7. Board!EdgesHaveObject'
  <2>1. \A o \in Board!Objects : Board!Live(o) => obj'[o] = "live"
    BY <1>2 DEF Board!CreatePost, Board!CreateStory, Board!Expire, Board!Live
  <2>2. \A e \in likes \union reposts : e[2] \in Board!Objects
    BY DEF BoardInv, BoardTypes, Board!TypeOK
  <2> QED
    BY <1>1, <2>1, <2>2 DEF BoardInv, EdgesSound, Board!EdgesHaveObject, Board!Live
<1>8. obj["note"] = "none" => Board!Counted(likes, "note") = 0
  BY NoLikes DEF BoardInv, EdgesSound, Board!EdgesHaveObject, Board!Live
<1>9. \A p \in {"note", "reply"} :
        /\ Board!Live(p)' => likeCount'[p] = Board!Counted(likes', p)
        /\ obj'[p] = "none" => likeCount'[p] = 0
  BY <1>1, <1>2, <1>8 DEF Board!CreatePost, Board!CreateStory, Board!Expire,
     BoardInv, EdgesSound, Board!Live
<1>10. EdgesSound'
  BY <1>7, <1>9 DEF EdgesSound, Board!Counted, Board!Live
<1>11. RepliesSound'
  BY <1>1, <1>2 DEF Board!CreatePost, Board!CreateStory, Board!Expire,
     BoardInv, RepliesSound, Board!Live, Board!Replies
<1> QED
  BY <1>1, <1>3, <1>5, <1>6, <1>10, <1>11 DEF BoardInv, BoardTypes

LEMMA ReplyStep ==
  ASSUME BoardInv, NEW c \in Clients, Board!ReplyWrite(c)
  PROVE  BoardInv'
<1> USE BoardNames
<1> DEFINE new == Board!Ended
<1>1. new \in BoardSlots /\ new.pc = "ended"
  BY EndedPost
<1>2. /\ postReq' = [postReq EXCEPT ![c] = new]
      /\ UNCHANGED <<expired, likes, reposts, marks, seen, likeCount, repostCount,
                     shareCount>>
  BY DEF Board!ReplyWrite, Board!Done, Board!edgeVars
<1>3. /\ obj \in [Board!Objects -> {"none", "live", "gone"}]
      /\ postCount \in [Fellows -> Nat] /\ replyCount \in Nat
  BY DEF BoardInv, BoardTypes, Board!TypeOK
<1>4. CASE UNCHANGED <<obj, postCount, replyCount>>
  BY <1>2, <1>4, LikesKept, BoardDone DEF Board!ReplyWrite, BoardInv, BoardTypes,
     Board!TypeOK
<1>5. CASE /\ Board!Live("note") /\ obj["reply"] = "none"
           /\ obj' = [obj EXCEPT !["reply"] = "live"]
           /\ postCount' = [postCount EXCEPT ![Bob] = @ + 1]
           /\ replyCount' = Board!Replies(TRUE)
  <2>1. Ages /\ BoardFits(new, obj')
    BY <1>1, <1>3, <1>5 DEF Ages, BoardFits
  <2>2. Board!TypeOK'
    BY <1>2, <1>3, <1>5 DEF BoardInv, BoardTypes, Board!TypeOK, Board!Replies
  <2>3. Counting' = Counting \ {c}
    <3> HIDE DEF new
    <3> QED
      BY <1>1, <1>2, CountingShrinks
  <2>4. PostsCovered'
    BY <1>3, <1>5, <2>3 DEF BoardInv, PostsCovered, One, Board!Live
  <2>5. Board!EdgesHaveObject'
    BY <1>2, <1>3, <1>5 DEF BoardInv, EdgesSound, Board!EdgesHaveObject, Board!Live
  <2>6. Board!Counted(likes, "reply") = 0
    BY <1>5, NoLikes DEF BoardInv, EdgesSound, Board!EdgesHaveObject, Board!Live
  <2>7. \A p \in {"note", "reply"} :
          /\ Board!Live(p)' => likeCount'[p] = Board!Counted(likes', p)
          /\ obj'[p] = "none" => likeCount'[p] = 0
    BY <1>2, <1>3, <1>5, <2>6 DEF BoardInv, EdgesSound, Board!Live
  <2>8. EdgesSound'
    BY <2>5, <2>7 DEF EdgesSound, Board!Counted, Board!Live
  <2>9. RepliesSound'
    BY <1>3, <1>5 DEF BoardInv, RepliesSound, Board!Live, Board!Replies
  <2> HIDE DEF new
  <2> QED
    BY <1>1, <1>2, <2>1, <2>2, <2>4, <2>8, <2>9, BoardFrame
<1> QED
  BY <1>4, <1>5 DEF Board!ReplyWrite

(* An object goes with one decrement, when it was there.                   *)
LEMMA DeleteSteps ==
  ASSUME BoardInv, NEW c \in Clients,
         Board!DeleteWrite(c) \/ Board!DeleteStoryWrite(c)
  PROVE  BoardInv'
<1> USE BoardNames
<1> DEFINE new == Board!Ended
           o == IF postReq[c].pc = "delete" THEN postReq[c].on ELSE "story"
<1>1. new \in BoardSlots /\ new.pc = "ended"
  BY EndedPost
<1>2. /\ postReq' = [postReq EXCEPT ![c] = new]
      /\ UNCHANGED <<expired, likeCount, repostCount, shareCount>>
      /\ obj' = [obj EXCEPT ![o] = "gone"]
      /\ postCount' = Board!PostCountAfter(o)
      /\ replyCount' = IF o = "reply" THEN Board!Replies(FALSE) ELSE replyCount
  BY DEF Board!DeleteWrite, Board!DeleteStoryWrite, Board!Done, Board!edgeVars,
     Board!countVars
<1>3. /\ obj \in [Board!Objects -> {"none", "live", "gone"}]
      /\ postCount \in [Fellows -> Nat] /\ replyCount \in Nat
  BY DEF BoardInv, BoardTypes, Board!TypeOK
<1>4. o \in Board!Objects /\ (o # "story" => obj[o] # "none")
  BY PostSlot DEF Board!DeleteWrite, Board!DeleteStoryWrite, BoardFits
<1>5. /\ EdgesSound'
      /\ likes' \subseteq likes /\ reposts' \subseteq reposts
      /\ marks' \subseteq marks /\ seen' \subseteq seen
  <2>1. CASE Board!DeleteWrite(c)
    <3>1. Board!Cascade(o) /\ obj'[o] = "gone"
      BY <1>2, <1>3, <1>4, <2>1 DEF Board!DeleteWrite
    <3> QED
      BY <1>2, <1>4, <3>1, CascadeKeeps
  <2>2. CASE Board!DeleteStoryWrite(c)
    <3>1. o = "story" /\ UNCHANGED <<likes, reposts, marks, seen>>
      BY <2>2 DEF Board!DeleteStoryWrite, Board!edgeVars
    <3>2. \A p \in {"note", "reply"} : obj'[p] = obj[p]
      BY <1>2, <1>3, <3>1
    <3>3. \A e \in likes \union reposts : e[2] \in Board!Objects
      BY DEF BoardInv, BoardTypes, Board!TypeOK
    <3>4. Board!EdgesHaveObject'
      BY <3>1, <3>2, <3>3 DEF BoardInv, EdgesSound, Board!EdgesHaveObject, Board!Live
    <3>5. \A p \in {"note", "reply"} :
            /\ Board!Live(p)' => likeCount'[p] = Board!Counted(likes', p)
            /\ obj'[p] = "none" => likeCount'[p] = 0
      BY <1>2, <3>1, <3>2 DEF BoardInv, EdgesSound, Board!Live
    <3> QED
      BY <3>1, <3>4, <3>5 DEF EdgesSound, Board!Counted, Board!Live
  <2> QED
    BY <2>1, <2>2
<1>6. Ages /\ BoardFits(new, obj')
  BY <1>1, <1>2, <1>3, <1>4 DEF Ages, BoardFits
<1>7. postCount' \in [Fellows -> Nat]
  <2>1. Board!AuthorOf(o) \in Fellows
    BY <1>4
  <2>2. Board!Minus(postCount[Board!AuthorOf(o)], 1) \in Nat
    BY <1>3, <2>1 DEF Board!Minus
  <2> HIDE DEF o
  <2> QED
    BY <1>2, <1>3, <2>2 DEF Board!PostCountAfter
<1>8. Board!TypeOK'
  BY <1>2, <1>3, <1>4, <1>5, <1>7 DEF BoardInv, BoardTypes, Board!TypeOK, Board!Replies
<1>9. Counting' = Counting \ {c}
  <2> HIDE DEF new
  <2> QED
    BY <1>1, <1>2, CountingShrinks
<1>10. PostsCovered'
  <2>1. Board!Live("story") => Counting = {}
    BY DEF BoardInv, Counting, BoardFits, Board!Live
  <2> HIDE DEF o
  <2>2. CASE o = "note"
    BY <1>2, <1>3, <1>9, <2>1, <2>2 DEF BoardInv, PostsCovered, One, Board!Live,
       Board!PostCountAfter, Board!Minus
  <2>3. CASE o = "reply"
    BY <1>2, <1>3, <1>9, <2>1, <2>3 DEF BoardInv, PostsCovered, One, Board!Live,
       Board!PostCountAfter, Board!Minus
  <2>4. CASE o = "story"
    BY <1>2, <1>3, <1>9, <2>1, <2>4 DEF BoardInv, PostsCovered, One, Board!Live,
       Board!PostCountAfter, Board!Minus
  <2> QED
    BY <1>4, <2>2, <2>3, <2>4
<1>11. RepliesSound'
  BY <1>2, <1>3, <1>4 DEF BoardInv, RepliesSound, Board!Live, Board!Replies
<1> HIDE DEF new
<1> QED
  BY <1>1, <1>2, <1>5, <1>6, <1>8, <1>10, <1>11, BoardFrame

(* The steps of the expiry sweep.                                          *)
LEMMA SweepSteps ==
  ASSUME BoardInv, NEW c \in Clients,
         Board!StoryCascade(c) \/ Board!SweepDelete(c) \/ Board!SweepCount(c)
  PROVE  BoardInv'
<1> USE BoardNames
<1>1. /\ obj \in [Board!Objects -> {"none", "live", "gone"}]
      /\ postCount \in [Fellows -> Nat]
  BY DEF BoardInv, BoardTypes, Board!TypeOK
<1>2. CASE Board!StoryCascade(c)
  <2>1. PICK pc \in {"storyDelete", "sweepDelete"} : Board!Wait(c, pc, Ann, "story")
    BY <1>2 DEF Board!StoryCascade
  <2> DEFINE new == Board!Slot(pc, Ann, "story")
  <2>2. new \in BoardSlots /\ new.pc \notin {"sweepCount", "delete"}
        /\ new.by = Ann /\ new.on = "story"
    BY DEF Board!Slot, BoardSlots, BoardStages
  <2>3. BoardFits(new, obj)
    BY <2>2 DEF BoardFits
  <2>4. postReq' = [postReq EXCEPT ![c] = new]
    BY <2>1 DEF Board!Wait
  <2>5. UNCHANGED <<obj, expired, likeCount, repostCount, shareCount, replyCount,
                    postCount>>
    BY <1>2 DEF Board!StoryCascade, Board!countVars
  <2>6. /\ EdgesSound'
        /\ likes' \subseteq likes /\ reposts' \subseteq reposts
        /\ marks' \subseteq marks /\ seen' \subseteq seen
    BY <1>2, <2>5, CascadeKeeps DEF Board!StoryCascade
  <2>7. Board!TypeOK'
    BY <2>5, <2>6 DEF BoardInv, BoardTypes, Board!TypeOK
  <2> HIDE DEF new
  <2> QED
    BY <2>2, <2>3, <2>4, <2>5, <2>6, <2>7, BoardMoves
<1>3. CASE Board!SweepDelete(c) \/ Board!SweepCount(c)
  <2>1. /\ UNCHANGED <<expired, likes, reposts, marks, seen, likeCount, repostCount,
                       shareCount, replyCount>>
        /\ obj' = obj \/ obj' = [obj EXCEPT !["story"] = "gone"]
    BY <1>3 DEF Board!SweepDelete, Board!SweepCount, Board!edgeVars, Board!countVars
  <2>2. postCount' \in [Fellows -> Nat]
    BY <1>1, <1>3 DEF Board!SweepDelete, Board!SweepCount, Board!Minus
  <2>3. /\ obj' \in [Board!Objects -> {"none", "live", "gone"}]
        /\ \A p \in {"note", "reply"} : obj'[p] = obj[p]
    BY <1>1, <2>1
  <2>4. Ages
    BY <1>1, <2>1 DEF Ages
  <2>5. Board!TypeOK'
    BY <2>1, <2>2, <2>3 DEF BoardInv, BoardTypes, Board!TypeOK
  <2>6. EdgesSound'
    <3>1. \A e \in likes \union reposts : e[2] \in Board!Objects
      BY DEF BoardInv, BoardTypes, Board!TypeOK
    <3>2. Board!EdgesHaveObject'
      BY <2>1, <2>3, <3>1 DEF BoardInv, EdgesSound, Board!EdgesHaveObject, Board!Live
    <3>3. \A p \in {"note", "reply"} :
            /\ Board!Live(p)' => likeCount'[p] = Board!Counted(likes', p)
            /\ obj'[p] = "none" => likeCount'[p] = 0
      BY <2>1, <2>3 DEF BoardInv, EdgesSound, Board!Live
    <3> QED
      BY <3>2, <3>3 DEF EdgesSound, Board!Counted, Board!Live
  <2>7. RepliesSound'
    BY <2>1, <2>3 DEF BoardInv, RepliesSound, Board!Live, Board!Replies
  <2>8. \E new \in BoardSlots :
          /\ postReq' = [postReq EXCEPT ![c] = new] /\ BoardFits(new, obj')
          /\ new.pc = "sweepCount" =>
               Board!SweepDelete(c) /\ Board!Live("story")
    <3>1. CASE Board!Done(c)
      <4>1. BoardFits(Board!Ended, obj') /\ Board!Ended.pc # "sweepCount"
        BY EndedPost DEF BoardFits
      <4> QED
        BY <3>1, <4>1, EndedPost DEF Board!Done
    <3>2. CASE Board!SweepDelete(c) /\ Board!Live("story")
               /\ Board!Wait(c, "sweepCount", Ann, "story")
      <4> DEFINE new == Board!Slot("sweepCount", Ann, "story")
      <4>1. new \in BoardSlots /\ new.pc = "sweepCount"
            /\ new.by = Ann /\ new.on = "story"
        BY DEF Board!Slot, BoardSlots, BoardStages
      <4>2. obj'["story"] = "gone"
        BY <1>1, <3>2 DEF Board!SweepDelete
      <4>3. BoardFits(new, obj')
        BY <4>1, <4>2 DEF BoardFits
      <4> QED
        BY <3>2, <4>1, <4>3 DEF Board!Wait
    <3> QED
      BY <1>3, <3>1, <3>2 DEF Board!SweepDelete, Board!SweepCount, Board!Swept
  <2>9. PICK new \in BoardSlots :
          /\ postReq' = [postReq EXCEPT ![c] = new] /\ BoardFits(new, obj')
          /\ new.pc = "sweepCount" =>
               Board!SweepDelete(c) /\ Board!Live("story")
    BY <2>8
  <2>10. PostsCovered'
    <3>1. Board!Live("story") => Counting = {}
      BY DEF BoardInv, Counting, BoardFits, Board!Live
    <3>2. Counting' \subseteq Counting \union {c}
      BY <2>9 DEF BoardInv, BoardTypes, Counting
    <3>3. CASE Board!SweepDelete(c) /\ Board!Live("story")
      <4>1. /\ \A d, e \in Counting' : d = e
            /\ postCount' = postCount
        BY <3>1, <3>2, <3>3 DEF Board!SweepDelete
      <4> QED
        BY <1>1, <2>3, <3>3, <4>1 DEF BoardInv, PostsCovered, One, Board!Live
    <3>4. CASE Board!SweepDelete(c) /\ ~Board!Live("story")
      <4>1. Counting' \subseteq Counting
        BY <2>9, <3>4, CountingShrinks
      <4>2. postCount' = postCount /\ ~Board!Live("story")'
        BY <1>1, <3>4 DEF Board!SweepDelete, Board!Live
      <4> QED
        BY <1>1, <2>3, <4>1, <4>2 DEF BoardInv, PostsCovered, One, Board!Live
    <3>5. CASE Board!SweepCount(c)
      <4>1. c \in Counting /\ ~Board!Live("story") /\ obj' = obj
        BY <3>1, <3>5 DEF Counting, Board!SweepCount
      <4>2. Counting' = Counting \ {c}
        <5>1. Board!Ended.pc # "sweepCount" /\ Board!Ended \in BoardSlots
          BY EndedPost
        <5> QED
          BY <3>5, <5>1 DEF Board!SweepCount, Board!Done, BoardInv, BoardTypes, Counting
      <4>3. Counting' = {}
        BY <4>1, <4>2 DEF BoardInv, PostsCovered
      <4>4. postCount'[Ann] = Board!Minus(postCount[Ann], 1)
            /\ postCount'[Bob] = postCount[Bob]
        BY <1>1, <3>5 DEF Board!SweepCount
      <4> QED
        BY <1>1, <4>1, <4>3, <4>4 DEF BoardInv, PostsCovered, One, Board!Live, Board!Minus
    <3> QED
      BY <1>3, <3>3, <3>4, <3>5
  <2> QED
    BY <2>4, <2>5, <2>6, <2>7, <2>9, <2>10, BoardFrame
<1> QED
  BY <1>2, <1>3

LEMMA BoardNext == BoardInv /\ [Board!Next]_boardVars => BoardInv'
<1> SUFFICES ASSUME BoardInv, [Board!Next]_boardVars PROVE BoardInv'
  OBVIOUS
<1>1. CASE Board!CreatePost \/ Board!CreateStory \/ Board!Expire
  BY <1>1, CreateSteps
<1>2. ASSUME NEW c \in Clients,
             \/ Board!Reply(c) \/ Board!Edit(c) \/ Board!DeleteStory(c)
             \/ Board!Sweep(c)
      PROVE  BoardInv'
  BY <1>2, Readers, BoardNames
<1>3. ASSUME NEW c \in Clients,
             \/ Board!EditWrite(c) \/ Board!BookmarkWrite(c)
             \/ Board!StoryRowWrite(c) \/ Board!Crash(c)
      PROVE  BoardInv'
  BY <1>3, SideWrites
<1>4. ASSUME NEW c \in Clients,
             \/ Board!ReplyWrite(c) \/ Board!DeleteWrite(c)
             \/ Board!DeleteStoryWrite(c) \/ Board!StoryCascade(c)
             \/ Board!SweepDelete(c) \/ Board!SweepCount(c)
      PROVE  BoardInv'
  BY <1>4, ReplyStep, DeleteSteps, SweepSteps
<1>5. ASSUME NEW c \in Clients,
             \/ Board!LikeWrite(c) \/ Board!UnlikeWrite(c) \/ Board!RepostWrite(c)
             \/ Board!UnrepostWrite(c) \/ Board!LikeStoryWrite(c)
             \/ Board!UnlikeStoryWrite(c)
      PROVE  BoardInv'
  BY <1>5, LikeSteps, RepostSteps, StoryLikes
<1>6. ASSUME NEW c \in Clients, NEW o \in Board!Objects, Board!Delete(c, o)
      PROVE  BoardInv'
  BY <1>6, Readers, BoardNames
<1>7. ASSUME NEW c \in Clients, NEW u \in Fellows,
             \/ Board!View(c, u) \/ Board!Vote(c, u) \/ Board!Share(c, u)
             \/ Board!LikeStory(c, u) \/ Board!UnlikeStory(c, u)
      PROVE  BoardInv'
  BY <1>7, Readers, BoardNames
<1>8. ASSUME NEW c \in Clients, NEW u \in Fellows, NEW o \in Board!Objects,
             \/ Board!Like(c, u, o) \/ Board!Unlike(c, u, o)
             \/ Board!Repost(c, u, o) \/ Board!Unrepost(c, u, o)
             \/ Board!Bookmark(c, u, o, "mark")
             \/ Board!Bookmark(c, u, o, "toolMark")
             \/ Board!Unbookmark(c, u, o)
      PROVE  BoardInv'
  BY <1>8, Readers, SideWrites
<1>9. CASE UNCHANGED boardVars
  <2>1. Counting' = Counting
    BY <1>9 DEF boardVars, Counting
  <2> QED
    BY <1>9, <2>1 DEF boardVars, BoardInv, BoardTypes, Board!TypeOK, PostsCovered,
       EdgesSound, RepliesSound, Board!EdgesHaveObject, Board!Live, Board!Counted,
       BoardFits
<1> QED
  BY <1>1, <1>2, <1>3, <1>4, <1>5, <1>6, <1>7, <1>8, <1>9 DEF Board!Next

-----------------------------------------------------------------------------
(* The activities stored for the Note.                                     *)

(* An edit that waits has read the Note.                                   *)
EditsRead == \A c \in Clients : postReq[c].pc = "edit" => obj["note"] # "none"
LogInv ==
  /\ log \in Seq({"Create", "Update", "Delete"})
  /\ Board!ActivitiesTell /\ EditsRead

LEMMA LogAppends ==
  ASSUME NEW S, NEW s \in Seq(S), NEW x \in S, NEW t, t = Append(s, x)
  PROVE  /\ t \in Seq(S) /\ t # <<>>
         /\ t[1] = IF s = <<>> THEN x ELSE s[1]
         /\ \A a : (\E i \in DOMAIN t : t[i] = a)
                     <=> x = a \/ \E i \in DOMAIN s : s[i] = a
<1>1. /\ t \in Seq(S) /\ Len(t) = Len(s) + 1 /\ t[Len(s) + 1] = x
      /\ \A i \in 1..Len(s) : t[i] = s[i]
  OBVIOUS
<1>2. Len(s) \in Nat /\ DOMAIN s = 1..Len(s) /\ DOMAIN t = 1..(Len(s) + 1)
  BY <1>1
<1>3. s = <<>> \/ 1 \in 1..Len(s)
  BY <1>2
<1> QED
  BY <1>1, <1>2, <1>3

(* A step that stores nothing and leaves the Note where it is.             *)
LEMMA LogRests ==
  ASSUME LogInv, log' = log, obj'["note"] = obj["note"], EditsRead'
  PROVE  LogInv'
  BY DEF LogInv, Board!ActivitiesTell

(* A request that moves on waits for an edit only if it has read the Note. *)
LEMMA EditsMove ==
  ASSUME BoardInv, LogInv, obj["note"] # "none" => obj'["note"] # "none",
         NEW c \in Clients, NEW new, postReq' = [postReq EXCEPT ![c] = new],
         new.pc = "edit" => obj["note"] # "none"
  PROVE  EditsRead'
  BY DEF BoardInv, BoardTypes, LogInv, EditsRead

(* A step that stores an activity.                                         *)
LEMMA LogCreate == BoardInv /\ LogInv /\ Board!CreatePost => LogInv'
<1> SUFFICES ASSUME BoardInv, LogInv, Board!CreatePost PROVE LogInv'
  OBVIOUS
<1> DEFINE S == {"Create", "Update", "Delete"}
<1>1. /\ obj["note"] = "none" /\ obj'["note"] = "live" /\ postReq' = postReq
      /\ log' = Append(log, "Create") /\ log \in Seq(S)
  BY BoardNames DEF Board!CreatePost, Board!PreparedCreate, BoardInv, BoardTypes,
     Board!TypeOK, LogInv
<1>2. log' \in Seq(S) /\ log' # <<>> /\ log'[1] = "Create"
      /\ ~\E i \in DOMAIN log' : log'[i] = "Delete"
  BY <1>1, LogAppends DEF LogInv, Board!ActivitiesTell
<1> QED
  BY <1>1, <1>2 DEF LogInv, Board!ActivitiesTell, EditsRead

LEMMA LogSteps ==
  ASSUME BoardInv, LogInv, NEW c \in Clients, Board!EditWrite(c) \/ Board!DeleteWrite(c)
  PROVE  LogInv'
<1> USE BoardNames
<1> DEFINE S == {"Create", "Update", "Delete"}
<1>1. obj \in [Board!Objects -> {"none", "live", "gone"}] /\ log \in Seq(S)
  BY DEF BoardInv, BoardTypes, Board!TypeOK, LogInv
<1>2. Board!Ended.pc # "edit"
  BY EndedPost
<1>3. CASE Board!EditWrite(c)
  <2>1. /\ obj' = obj /\ obj["note"] # "none" /\ log' = Append(log, "Update")
        /\ postReq' = [postReq EXCEPT ![c] = Board!Ended]
    BY <1>3 DEF Board!EditWrite, Board!Done, LogInv, EditsRead
  <2>2. /\ log' \in Seq(S) /\ log' # <<>> /\ log'[1] = "Create"
        /\ (\E i \in DOMAIN log' : log'[i] = "Delete")
              <=> \E i \in DOMAIN log : log[i] = "Delete"
    BY <1>1, <2>1, LogAppends DEF LogInv, Board!ActivitiesTell
  <2>3. EditsRead'
    BY <1>2, <2>1, EditsMove
  <2> QED
    BY <2>1, <2>2, <2>3 DEF LogInv, Board!ActivitiesTell
<1>4. CASE Board!DeleteWrite(c)
  <2> DEFINE o == postReq[c].on
  <2>1. /\ obj[o] # "none" /\ obj' = [obj EXCEPT ![o] = "gone"] /\ o \in Board!Objects
        /\ log' = Board!PreparedDelete(o)
        /\ postReq' = [postReq EXCEPT ![c] = Board!Ended]
    BY <1>4 DEF Board!DeleteWrite, Board!Done, BoardInv, BoardFits
  <2> HIDE DEF o
  <2>2. EditsRead'
    BY <1>1, <1>2, <2>1, EditsMove
  <2>3. CASE o = "note"
    <3>1. log' = Append(log, "Delete")
      BY <2>1, <2>3 DEF Board!PreparedDelete
    <3>2. log' \in Seq(S) /\ log' # <<>> /\ log'[1] = "Create"
          /\ \E i \in DOMAIN log' : log'[i] = "Delete"
      BY <1>1, <2>1, <2>3, <3>1, LogAppends DEF LogInv, Board!ActivitiesTell
    <3> QED
      BY <1>1, <2>1, <2>2, <2>3, <3>2 DEF LogInv, Board!ActivitiesTell
  <2>4. CASE o # "note"
    BY <1>1, <2>1, <2>2, <2>4, LogRests DEF Board!PreparedDelete
  <2> QED
    BY <2>3, <2>4
<1> QED
  BY <1>3, <1>4

LEMMA LogNext == BoardInv /\ LogInv /\ [Board!Next]_boardVars => LogInv'
<1> SUFFICES ASSUME BoardInv, LogInv, [Board!Next]_boardVars PROVE LogInv'
  OBVIOUS
<1> USE BoardNames
<1>1. obj \in [Board!Objects -> {"none", "live", "gone"}]
  BY DEF BoardInv, BoardTypes, Board!TypeOK
<1>2. Board!Ended.pc # "edit"
  BY EndedPost
<1>3. CASE Board!CreateStory \/ Board!Expire
  <2>1. log' = log /\ obj'["note"] = obj["note"] /\ postReq' = postReq
    BY <1>1, <1>3 DEF Board!CreateStory, Board!Expire
  <2> QED
    BY <2>1, LogRests DEF LogInv, EditsRead
<1>4. ASSUME NEW c \in Clients, Board!EditWrite(c) \/ Board!DeleteWrite(c)
      PROVE  LogInv'
  BY <1>4, LogSteps
<1>5. ASSUME NEW c \in Clients,
             \/ Board!Reply(c) \/ Board!Edit(c) \/ Board!DeleteStory(c)
             \/ Board!Sweep(c) \/ Board!StoryCascade(c) \/ Board!SweepDelete(c)
             \/ \E o \in Board!Objects : Board!Delete(c, o)
             \/ \E u \in Fellows :
                  \/ Board!View(c, u) \/ Board!Vote(c, u) \/ Board!Share(c, u)
                  \/ Board!LikeStory(c, u) \/ Board!UnlikeStory(c, u)
             \/ \E u \in Fellows, o \in Board!Objects :
                  \/ Board!Like(c, u, o) \/ Board!Unlike(c, u, o)
                  \/ Board!Repost(c, u, o) \/ Board!Unrepost(c, u, o)
                  \/ Board!Bookmark(c, u, o, "mark")
                  \/ Board!Bookmark(c, u, o, "toolMark")
                  \/ Board!Unbookmark(c, u, o)
      PROVE  LogInv'
  <2>1. log' = log /\ obj'["note"] = obj["note"]
    BY <1>1, <1>5 DEF Board!Reply, Board!Edit, Board!DeleteStory, Board!Sweep,
       Board!StoryCascade, Board!SweepDelete, Board!Delete, Board!View, Board!Vote,
       Board!Share, Board!StoryRow, Board!LikeStory, Board!UnlikeStory, Board!Like,
       Board!Unlike, Board!Repost, Board!Unrepost, Board!Bookmark, Board!Unbookmark
  <2>2. \E new : /\ postReq' = [postReq EXCEPT ![c] = new]
                 /\ new.pc = "edit" => obj["note"] # "none"
    <3>1. CASE Board!Edit(c)
      BY <3>1 DEF Board!Edit, Board!Wait, Board!Live
    <3>2. CASE Board!Done(c)
      BY <1>2, <3>2 DEF Board!Done
    <3>3. CASE \E pc \in BoardStages \ {"edit"}, u \in Fellows, o \in Board!Objects :
                 Board!Wait(c, pc, u, o)
      <4>1. PICK pc \in BoardStages \ {"edit"}, u \in Fellows, o \in Board!Objects :
                   Board!Wait(c, pc, u, o)
        BY <3>3
      <4>2. Board!Slot(pc, u, o).pc # "edit"
        BY DEF Board!Slot
      <4> QED
        BY <4>1, <4>2 DEF Board!Wait
    <3>4. CASE \/ Board!Reply(c) \/ Board!DeleteStory(c) \/ Board!Sweep(c)
               \/ Board!StoryCascade(c) \/ Board!SweepDelete(c)
      <4>1. Board!Done(c) \/ \E pc \in BoardStages \ {"edit"}, u \in Fellows,
                                 o \in Board!Objects : Board!Wait(c, pc, u, o)
        BY <3>4 DEF BoardStages, Board!Reply, Board!DeleteStory, Board!Sweep,
           Board!StoryCascade, Board!SweepDelete
      <4> QED
        BY <3>2, <3>3, <4>1
    <3>5. ASSUME NEW o \in Board!Objects, Board!Delete(c, o)
          PROVE  Board!Wait(c, "delete", Board!AuthorOf(o), o)
      BY <3>5 DEF Board!Delete
    <3>6. ASSUME NEW u \in Fellows,
                 \/ Board!View(c, u) \/ Board!Vote(c, u) \/ Board!Share(c, u)
                 \/ Board!LikeStory(c, u) \/ Board!UnlikeStory(c, u)
          PROVE  \E pc \in BoardStages \ {"edit"} : Board!Wait(c, pc, u, "story")
      BY <3>6 DEF BoardStages, Board!View, Board!Vote, Board!Share, Board!StoryRow,
         Board!LikeStory, Board!UnlikeStory
    <3>7. ASSUME NEW u \in Fellows, NEW o \in Board!Objects,
                 \/ Board!Like(c, u, o) \/ Board!Unlike(c, u, o)
                 \/ Board!Repost(c, u, o) \/ Board!Unrepost(c, u, o)
                 \/ Board!Bookmark(c, u, o, "mark")
                 \/ Board!Bookmark(c, u, o, "toolMark")
                 \/ Board!Unbookmark(c, u, o)
          PROVE  Board!Done(c) \/ \E pc \in BoardStages \ {"edit"} : Board!Wait(c, pc, u, o)
      BY <3>7 DEF BoardStages, Board!Like, Board!Unlike, Board!Repost, Board!Unrepost,
         Board!Bookmark, Board!Unbookmark
    <3>8. "delete" \in BoardStages \ {"edit"} /\ \A o \in Board!Objects :
                                                     Board!AuthorOf(o) \in Fellows
      BY DEF BoardStages, Board!AuthorOf
    <3> QED
      BY <1>5, <3>1, <3>2, <3>3, <3>4, <3>5, <3>6, <3>7, <3>8
  <2> QED
    BY <2>1, <2>2, EditsMove, LogRests
<1>6. ASSUME NEW c \in Clients,
             \/ Board!ReplyWrite(c) \/ Board!DeleteStoryWrite(c)
             \/ Board!SweepCount(c) \/ Board!LikeWrite(c) \/ Board!UnlikeWrite(c)
             \/ Board!RepostWrite(c) \/ Board!UnrepostWrite(c)
             \/ Board!BookmarkWrite(c) \/ Board!StoryRowWrite(c)
             \/ Board!LikeStoryWrite(c) \/ Board!UnlikeStoryWrite(c)
             \/ Board!Crash(c)
      PROVE  LogInv'
  <2>1. log' = log /\ obj'["note"] = obj["note"] /\ Board!Done(c)
    BY <1>1, <1>6 DEF Board!ReplyWrite, Board!DeleteStoryWrite, Board!SweepCount,
       Board!LikeWrite, Board!UnlikeWrite, Board!RepostWrite, Board!UnrepostWrite,
       Board!BookmarkWrite, Board!StoryRowWrite, Board!LikeStoryWrite,
       Board!UnlikeStoryWrite, Board!Crash
  <2> QED
    BY <1>2, <2>1, EditsMove, LogRests DEF Board!Done
<1>7. CASE UNCHANGED boardVars
  BY <1>7, LogRests DEF boardVars, LogInv, EditsRead
<1> QED
  BY <1>3, <1>4, <1>5, <1>6, <1>7, LogCreate DEF Board!Next

LEMMA LogInit == Board!Init \/ BoardInUse => LogInv
<1>1. \A c \in Clients : Board!Init \/ BoardInUse => postReq[c].pc = "new"
  BY EndedPost DEF Board!Init, BoardInUse
<1>2. Board!Init => LogInv
  BY <1>1, BoardNames DEF Board!Init, LogInv, Board!ActivitiesTell, EditsRead
<1>3. BoardInUse => LogInv
  BY <1>1, BoardNames DEF BoardInUse, LogInv, Board!ActivitiesTell, EditsRead
<1> QED
  BY <1>2, <1>3

LEMMA BoardIsSound == BoardInv =>
  Board!TypeOK /\ Board!PostCountCovers /\ Board!EdgesHaveObject /\ Board!RecountsExact
<1> SUFFICES ASSUME BoardInv
             PROVE  Board!PostCountCovers /\ Board!RecountsExact
  BY DEF BoardInv, BoardTypes, EdgesSound
<1> USE BoardNames
<1>1. postCount \in [Fellows -> Nat]
  BY DEF BoardInv, BoardTypes, Board!TypeOK
<1>2. Board!RecountsExact
  BY DEF BoardInv, EdgesSound, RepliesSound, Board!RecountsExact
<1>3. Board!PostCountCovers
  <2> SUFFICES ASSUME NEW u \in Fellows
               PROVE  postCount[u] >= Cardinality({o \in Board!Objects :
                                Board!Live(o) /\ Board!AuthorOf(o) = u})
    BY BoardCounts DEF Board!PostCountCovers
  <2> DEFINE own == {o \in Board!Objects : Board!Live(o) /\ Board!AuthorOf(o) = u}
             noted == IF Board!Live("note") THEN {"note"} ELSE {}
             told == IF Board!Live("story") THEN {"story"} ELSE {}
             replied == IF Board!Live("reply") THEN {"reply"} ELSE {}
  <2>1. /\ Cardinality(noted) = One(Board!Live("note")) /\ IsFiniteSet(noted)
        /\ Cardinality(replied) = One(Board!Live("reply"))
    BY FS_EmptySet, FS_Singleton DEF One
  <2>2. Cardinality(noted \union told) = One(Board!Live("note")) + One(Board!Live("story"))
    <3>1. CASE Board!Live("story")
      <4>1. "story" \notin noted
        OBVIOUS
      <4>2. Cardinality(noted \union {"story"}) = Cardinality(noted) + 1
        BY <2>1, <4>1, FS_AddElement
      <4> QED
        BY <2>1, <3>1, <4>2 DEF One
    <3>2. CASE ~Board!Live("story")
      <4>1. noted \union told = noted
        BY <3>2
      <4> QED
        BY <2>1, <3>2, <4>1 DEF One
    <3> QED
      BY <3>1, <3>2
  <2>3. CASE u = Ann
    <3>1. own = noted \union told
      BY <2>3
    <3> HIDE DEF own, noted, told
    <3>2. Cardinality(own) = One(Board!Live("note")) + One(Board!Live("story"))
      BY <2>2, <3>1
    <3> QED
      BY <1>1, <2>3, <3>2 DEF BoardInv, PostsCovered, One, own
  <2>4. CASE u = Bob
    <3>1. own = replied
      BY <2>4
    <3> HIDE DEF own, replied
    <3>2. Cardinality(own) = One(Board!Live("reply"))
      BY <2>1, <3>1
    <3> QED
      BY <1>1, <2>4, <3>2 DEF BoardInv, PostsCovered, own
  <2>5. CASE u \notin {Ann, Bob}
    <3>1. own = {}
      BY <2>5
    <3> QED
      BY <1>1, <3>1, FS_EmptySet
  <2> QED
    BY <2>3, <2>4, <2>5
<1> QED
  BY <1>2, <1>3

-----------------------------------------------------------------------------
(* Follows.                                                                *)

Kin == Graph!Actors
PairStages == {"follow", "followFetch", "unfollow", "accept", "reject",
               "inFollow", "inAccept", "inSever"}
PeerStages == {"fetching", "claiming", "recovering", "followFetch", "failed",
               "releasing", "purge"}
FollowStages == PairStages \union PeerStages \union
                {"new", "ended", "acceptAll", "move"}
FollowSlots == [pc : FollowStages, by : Kin \union {"none"},
                on : Kin \union {"none"},
                seen : {"none", "pending", "accepted", "unavailable", "gone"},
                todo : SUBSET Kin]

(* What a slot has resolved: the edge it writes, or the peer it fetches.   *)
FollowFits(q) ==
  /\ q.pc \in PairStages => <<q.by, q.on>> \in Graph!Pairs
  /\ q.pc \in PeerStages => q.on \in Distant
  /\ q.pc = "failed" => q.seen \in {"unavailable", "gone"}
  /\ q.pc = "acceptAll" => q.on \in Fellows /\ q.on \notin q.todo
  /\ q.pc = "move" => q.by \in Distant /\ q.on \in Distant /\ q.by # q.on

FollowReqs ==
  /\ followReq \in [Clients -> FollowSlots]
  /\ \A c \in Clients : FollowFits(followReq[c])

(* The followers and the followings of an account in a set of edges.       *)
In(E, y) == {d \in Graph!Pairs : d[2] = y /\ E[d] = "accepted"}
Out(E, x) == {d \in Graph!Pairs : d[1] = x /\ E[d] = "accepted"}
Follows == [Graph!Pairs -> {"none", "pending", "accepted"}]
Covers(E, n, m) ==
  \A x \in Fellows : n[x] >= Cardinality(In(E, x)) /\ m[x] >= Cardinality(Out(E, x))

EdgesCovered ==
  /\ followEdge \in Follows
  /\ followerCount \in [Fellows -> Nat] /\ followingCount \in [Fellows -> Nat]
  /\ Covers(followEdge, followerCount, followingCount)

CacheSound ==
  /\ Graph!CacheTypeOK
  /\ Graph!TombstonedNotCached /\ Graph!CachedNotRefused

ModsTyped ==
  /\ blocks \subseteq Fellows \X Kin /\ mutes \subseteq Fellows \X Kin
  /\ opBlocked \subseteq Distant

GraphInv == FollowReqs /\ EdgesCovered /\ CacheSound /\ ModsTyped

LEMMA GraphCounts == \A S : Graph!Cardinality(S) = Cardinality(S)
  BY DEF Graph!Cardinality, Cardinality

LEMMA GraphNames ==
  /\ Ann \in Fellows /\ Bob \in Fellows /\ Ann # Bob /\ Pat \in Distant
  /\ Fellows \intersect Distant = {} /\ Kin = Fellows \union Distant
  BY SocialAssumption DEF Fellows, Kin, Graph!Actors

LEMMA PairParts ==
  \A d \in Graph!Pairs :
    /\ d[1] \in Kin /\ d[2] \in Kin /\ d[1] # d[2] /\ d = <<d[1], d[2]>>
    /\ d[1] \in Fellows \/ d[2] \in Fellows
  BY DEF Graph!Pairs, Kin

LEMMA PairOf ==
  \A x \in Fellows, y \in Kin :
    x # y => <<x, y>> \in Graph!Pairs /\ <<y, x>> \in Graph!Pairs
  BY GraphNames DEF Graph!Pairs, Kin

(* An account has finitely many followers and followings.                  *)
LEMMA PairsFinite ==
  /\ IsFiniteSet(Graph!Pairs)
  /\ \A E, x : /\ IsFiniteSet(In(E, x)) /\ Cardinality(In(E, x)) \in Nat
               /\ IsFiniteSet(Out(E, x)) /\ Cardinality(Out(E, x)) \in Nat
<1>1. IsFiniteSet(Fellows)
  BY FS_Subset, SocialAssumption DEF Fellows
<1>2. IsFiniteSet(Kin)
  BY <1>1, FS_Union, SocialAssumption, GraphNames
<1>3. IsFiniteSet(Kin \X Kin)
  BY <1>2, FS_Product
<1>4. IsFiniteSet(Graph!Pairs)
  <2>1. Graph!Pairs \subseteq Kin \X Kin
    BY DEF Graph!Pairs, Kin
  <2> QED
    BY <1>3, <2>1, FS_Subset
<1>5. ASSUME NEW E, NEW x
      PROVE  IsFiniteSet(In(E, x)) /\ IsFiniteSet(Out(E, x))
  <2>1. In(E, x) \subseteq Graph!Pairs /\ Out(E, x) \subseteq Graph!Pairs
    BY DEF In, Out
  <2> QED
    BY <1>4, <2>1, FS_Subset
<1> QED
  BY <1>4, <1>5, FS_CardinalityType

LEMMA FewerEdges ==
  ASSUME NEW E, NEW F, NEW x
  PROVE  /\ In(F, x) \subseteq In(E, x) => Cardinality(In(F, x)) <= Cardinality(In(E, x))
         /\ Out(F, x) \subseteq Out(E, x) => Cardinality(Out(F, x)) <= Cardinality(Out(E, x))
  BY PairsFinite, FS_Subset

LEMMA EndedFollow ==
  /\ Graph!Ended \in FollowSlots /\ Graph!Ended.pc = "ended"
  /\ [Graph!Ended EXCEPT !.pc = "new"] \in FollowSlots
  /\ [Graph!Ended EXCEPT !.pc = "new"].pc = "new"
  BY DEF Graph!Ended, Graph!Slot, FollowSlots, FollowStages

LEMMA GraphInit == GraphInUse => GraphInv
<1> SUFFICES ASSUME GraphInUse PROVE GraphInv
  OBVIOUS
<1> USE GraphNames
<1> DEFINE edges == {<<Ann, Bob>>, <<Bob, Ann>>, <<Ann, Pat>>}
<1>1. FollowReqs
  <2>1. /\ followReq \in [Clients -> FollowSlots]
        /\ \A c \in Clients : followReq[c].pc = "new"
    BY EndedFollow DEF GraphInUse
  <2> QED
    BY <2>1 DEF FollowReqs, FollowFits, PairStages, PeerStages
<1>2. CacheSound
  <2>1. \A p \in Distant : fail[p] = Graph!NoFailure
    BY DEF GraphInUse
  <2> QED
    BY <2>1 DEF GraphInUse, CacheSound, Graph!CacheTypeOK, Graph!TombstonedNotCached,
       Graph!CachedNotRefused, Graph!NoFailure
<1>3. ModsTyped
  BY DEF GraphInUse, ModsTyped
<1>4. edges \subseteq Graph!Pairs
  BY PairOf
<1>5. /\ followEdge \in Follows
      /\ \A d \in Graph!Pairs : followEdge[d] = "accepted" <=> d \in edges
  BY DEF GraphInUse, Follows
<1>6. /\ followerCount \in [Fellows -> Nat] /\ followingCount \in [Fellows -> Nat]
      /\ \A x \in Fellows : followerCount[x] = IF x \in {Ann, Bob} THEN 1 ELSE 0
      /\ \A x \in Fellows :
           followingCount[x] = IF x = Ann THEN 2 ELSE IF x = Bob THEN 1 ELSE 0
  <2>1. followerCount = [x \in Fellows |-> IF x \in {Ann, Bob} THEN 1 ELSE 0]
    BY DEF GraphInUse
  <2>2. followingCount = [x \in Fellows |-> CASE x = Ann -> 2 [] x = Bob -> 1
                                             [] OTHER -> 0]
    BY DEF GraphInUse
  <2>3. \A x \in Fellows : followingCount[x]
           = CASE x = Ann -> 2 [] x = Bob -> 1 [] OTHER -> 0
    BY <2>2
  <2> QED
    BY <2>1, <2>2, <2>3
<1>7. \A d : /\ Cardinality({d}) = 1 /\ IsFiniteSet({d})
  BY FS_Singleton
<1>8. ASSUME NEW x \in Fellows
      PROVE  followerCount[x] >= Cardinality(In(followEdge, x))
  <2>1. CASE x = Ann
    <3>1. In(followEdge, x) = {<<Bob, Ann>>}
      BY <1>4, <1>5, <2>1 DEF In
    <3>2. Cardinality(In(followEdge, x)) = 1
      BY <1>7, <3>1
    <3> QED
      BY <1>6, <2>1, <3>2, GraphNames
  <2>2. CASE x = Bob
    <3>1. In(followEdge, x) = {<<Ann, Bob>>}
      BY <1>4, <1>5, <2>2 DEF In
    <3>2. Cardinality(In(followEdge, x)) = 1
      BY <1>7, <3>1
    <3> QED
      BY <1>6, <2>2, <3>2, GraphNames
  <2>3. CASE x \notin {Ann, Bob}
    <3>1. In(followEdge, x) = {}
      BY <1>4, <1>5, <2>3 DEF In
    <3> QED
      BY <1>6, <2>3, <3>1, FS_EmptySet
  <2> QED
    BY <2>1, <2>2, <2>3
<1>9. ASSUME NEW x \in Fellows
      PROVE  followingCount[x] >= Cardinality(Out(followEdge, x))
  <2>1. CASE x = Ann
    <3>1. Out(followEdge, x) = {<<Ann, Bob>>} \union {<<Ann, Pat>>}
      BY <1>4, <1>5, <2>1 DEF Out
    <3>2. <<Ann, Pat>> \notin {<<Ann, Bob>>}
      OBVIOUS
    <3>3. Cardinality({<<Ann, Bob>>} \union {<<Ann, Pat>>})
            = Cardinality({<<Ann, Bob>>}) + 1
      BY <1>7, <3>2, FS_AddElement
    <3>4. Cardinality({<<Ann, Bob>>}) = 1
      BY <1>7
    <3>5. Cardinality({<<Ann, Bob>>} \union {<<Ann, Pat>>}) = 2
      BY <3>3, <3>4
    <3>6. Cardinality(Out(followEdge, x)) = 2
      BY <3>1, <3>5, Zenon
    <3> QED
      BY <1>6, <2>1, <3>6
  <2>2. CASE x = Bob
    <3>1. Out(followEdge, x) = {<<Bob, Ann>>}
      BY <1>4, <1>5, <2>2 DEF Out
    <3>2. Cardinality(Out(followEdge, x)) = 1
      BY <1>7, <3>1
    <3> QED
      BY <1>6, <2>2, <3>2, GraphNames
  <2>3. CASE x \notin {Ann, Bob}
    <3>1. Out(followEdge, x) = {}
      BY <1>4, <1>5, <2>3 DEF Out
    <3> QED
      BY <1>6, <2>3, <3>1, FS_EmptySet
  <2> QED
    BY <2>1, <2>2, <2>3
<1> QED
  BY <1>1, <1>2, <1>3, <1>5, <1>6, <1>8, <1>9 DEF GraphInv, EdgesCovered, Covers

(* What the batches of the follow graph do to the counters.                *)
LEMMA EdgesStay ==
  EdgesCovered /\ UNCHANGED <<followEdge, followerCount, followingCount>>
    => EdgesCovered'
  BY DEF EdgesCovered, Covers, Follows, In, Out

LEMMA EdgesEqual ==
  \A x : /\ Graph!Followers(x) = In(followEdge, x)
         /\ Graph!Followings(x) = Out(followEdge, x)
  BY DEF Graph!Followers, Graph!Followings, In, Out

(* Edges that go take along what they contributed.                         *)
LEMMA SeverCovers ==
  ASSUME EdgesCovered, NEW D \in SUBSET Graph!Pairs, Graph!Sever(D)
  PROVE  EdgesCovered'
<1>1. /\ followEdge' = [d \in Graph!Pairs |-> IF d \in D THEN "none" ELSE followEdge[d]]
      /\ followerCount' = [y \in Fellows |-> Graph!Minus(followerCount[y],
           Cardinality(D \intersect In(followEdge, y)))]
      /\ followingCount' = [x \in Fellows |-> Graph!Minus(followingCount[x],
           Cardinality(D \intersect Out(followEdge, x)))]
  BY EdgesEqual, GraphCounts DEF Graph!Sever
<1>2. followEdge' \in Follows
  BY <1>1 DEF EdgesCovered, Follows
<1>3. \A x : /\ In(followEdge', x) = In(followEdge, x) \ D
             /\ Out(followEdge', x) = Out(followEdge, x) \ D
  BY <1>1 DEF In, Out
<1>4. ASSUME NEW x \in Fellows
      PROVE  /\ followerCount'[x] \in Nat
             /\ followerCount'[x] >= Cardinality(In(followEdge', x))
             /\ followingCount'[x] \in Nat
             /\ followingCount'[x] >= Cardinality(Out(followEdge', x))
  <2> DEFINE I == In(followEdge, x)
             O == Out(followEdge, x)
  <2>1. IsFiniteSet(I) /\ IsFiniteSet(O) /\ Cardinality(I) \in Nat /\ Cardinality(O) \in Nat
    BY PairsFinite
  <2>2. /\ Cardinality(I \ D) = Cardinality(I) - Cardinality(I \intersect D)
        /\ Cardinality(O \ D) = Cardinality(O) - Cardinality(O \intersect D)
    BY <2>1, FS_Difference
  <2>3. /\ Cardinality(I \intersect D) \in Nat /\ Cardinality(O \intersect D) \in Nat
        /\ Cardinality(I \ D) \in Nat /\ Cardinality(O \ D) \in Nat
    BY <2>1, FS_Intersection, FS_Subset, FS_CardinalityType
  <2>4. D \intersect I = I \intersect D /\ D \intersect O = O \intersect D
    OBVIOUS
  <2>5. /\ followerCount[x] \in Nat /\ followerCount[x] >= Cardinality(I)
        /\ followingCount[x] \in Nat /\ followingCount[x] >= Cardinality(O)
    BY DEF EdgesCovered, Covers
  <2>6. /\ followerCount'[x] = Graph!Minus(followerCount[x], Cardinality(I \intersect D))
        /\ followingCount'[x] = Graph!Minus(followingCount[x], Cardinality(O \intersect D))
    BY <1>1, <2>4
  <2>7. In(followEdge', x) = I \ D /\ Out(followEdge', x) = O \ D
    BY <1>3
  <2> HIDE DEF I, O
  <2>8. /\ followerCount'[x] \in Nat /\ followerCount'[x] >= Cardinality(I \ D)
    BY <2>1, <2>2, <2>3, <2>5, <2>6 DEF Graph!Minus
  <2>9. /\ followingCount'[x] \in Nat /\ followingCount'[x] >= Cardinality(O \ D)
    BY <2>1, <2>2, <2>3, <2>5, <2>6 DEF Graph!Minus
  <2> QED
    BY <2>7, <2>8, <2>9
<1>5. followerCount' \in [Fellows -> Nat] /\ followingCount' \in [Fellows -> Nat]
  BY <1>1, <1>4
<1> QED
  BY <1>2, <1>4, <1>5 DEF EdgesCovered, Covers

(* An accepted edge is counted at both of its local ends.                  *)
LEMMA RaiseCovers ==
  ASSUME EdgesCovered, NEW e \in Graph!Pairs, Graph!Raise(e)
  PROVE  EdgesCovered'
<1>1. followEdge' \in Follows
  BY DEF EdgesCovered, Follows, Graph!Raise
<1>2. /\ followerCount' \in [Fellows -> Nat] /\ followingCount' \in [Fellows -> Nat]
      /\ \A x \in Fellows :
           /\ followerCount'[x] = followerCount[x] + (IF x = e[2] THEN 1 ELSE 0)
           /\ followingCount'[x] = followingCount[x] + (IF x = e[1] THEN 1 ELSE 0)
  BY DEF EdgesCovered, Graph!Raise
<1>3. \A x : /\ In(followEdge', x)
                  = IF x = e[2] THEN In(followEdge, x) \union {e} ELSE In(followEdge, x)
             /\ Out(followEdge', x)
                  = IF x = e[1] THEN Out(followEdge, x) \union {e} ELSE Out(followEdge, x)
  BY DEF In, Out, EdgesCovered, Follows, Graph!Raise
<1>4. \A S : IsFiniteSet(S) => Cardinality(S \union {e}) <= Cardinality(S) + 1
  <2> SUFFICES ASSUME NEW S, IsFiniteSet(S)
               PROVE  Cardinality(S \union {e}) <= Cardinality(S) + 1
    OBVIOUS
  <2>1. Cardinality(S) \in Nat
    BY FS_CardinalityType
  <2>2. CASE e \in S
    <3>1. S \union {e} = S
      BY <2>2
    <3> QED
      BY <2>1, <3>1
  <2>3. CASE e \notin S
    <3>1. Cardinality(S \union {e}) = Cardinality(S) + 1
      BY <2>3, FS_AddElement
    <3> QED
      BY <2>1, <3>1
  <2> QED
    BY <2>2, <2>3
<1>5. ASSUME NEW x \in Fellows
      PROVE  followerCount'[x] >= Cardinality(In(followEdge', x))
  <2>1. /\ IsFiniteSet(In(followEdge, x)) /\ Cardinality(In(followEdge, x)) \in Nat
        /\ Cardinality(In(followEdge', x)) \in Nat
    BY PairsFinite
  <2>2. followerCount[x] \in Nat /\ followerCount[x] >= Cardinality(In(followEdge, x))
    BY DEF EdgesCovered, Covers
  <2>3. CASE x = e[2]
    <3>1. Cardinality(In(followEdge', x)) <= Cardinality(In(followEdge, x)) + 1
      BY <1>3, <1>4, <2>1, <2>3
    <3>2. followerCount'[x] = followerCount[x] + 1
      BY <1>2, <2>3
    <3> QED
      BY <2>1, <2>2, <3>1, <3>2
  <2>4. CASE x # e[2]
    <3>1. In(followEdge', x) = In(followEdge, x)
      BY <1>3, <2>4
    <3>2. followerCount'[x] = followerCount[x]
      BY <1>2, <2>2, <2>4
    <3> QED
      BY <2>2, <3>1, <3>2
  <2> QED
    BY <2>3, <2>4
<1>6. ASSUME NEW x \in Fellows
      PROVE  followingCount'[x] >= Cardinality(Out(followEdge', x))
  <2>1. /\ IsFiniteSet(Out(followEdge, x)) /\ Cardinality(Out(followEdge, x)) \in Nat
        /\ Cardinality(Out(followEdge', x)) \in Nat
    BY PairsFinite
  <2>2. followingCount[x] \in Nat /\ followingCount[x] >= Cardinality(Out(followEdge, x))
    BY DEF EdgesCovered, Covers
  <2>3. CASE x = e[1]
    <3>1. Cardinality(Out(followEdge', x)) <= Cardinality(Out(followEdge, x)) + 1
      BY <1>3, <1>4, <2>1, <2>3
    <3>2. followingCount'[x] = followingCount[x] + 1
      BY <1>2, <2>3
    <3> QED
      BY <2>1, <2>2, <3>1, <3>2
  <2>4. CASE x # e[1]
    <3>1. Out(followEdge', x) = Out(followEdge, x)
      BY <1>3, <2>4
    <3>2. followingCount'[x] = followingCount[x]
      BY <1>2, <2>2, <2>4
    <3> QED
      BY <2>2, <3>1, <3>2
  <2> QED
    BY <2>3, <2>4
<1> QED
  BY <1>1, <1>2, <1>5, <1>6 DEF EdgesCovered, Covers

(* An edge that is not accepted afterwards may change without a counter.   *)
LEMMA OneEdgeCovers ==
  ASSUME EdgesCovered, NEW e \in Graph!Pairs, NEW status \in {"none", "pending"},
         followEdge' = [followEdge EXCEPT ![e] = status],
         UNCHANGED <<followerCount, followingCount>>
  PROVE  EdgesCovered'
<1>1. followEdge' \in Follows
  BY DEF EdgesCovered, Follows
<1>2. ASSUME NEW x \in Fellows
      PROVE  /\ Cardinality(In(followEdge', x)) <= Cardinality(In(followEdge, x))
             /\ Cardinality(Out(followEdge', x)) <= Cardinality(Out(followEdge, x))
  <2>1. /\ In(followEdge', x) \subseteq In(followEdge, x)
        /\ Out(followEdge', x) \subseteq Out(followEdge, x)
    BY DEF In, Out, EdgesCovered, Follows
  <2> QED
    BY <2>1, FewerEdges
<1>3. ASSUME NEW x \in Fellows
      PROVE  /\ followerCount'[x] >= Cardinality(In(followEdge', x))
             /\ followingCount'[x] >= Cardinality(Out(followEdge', x))
  <2>1. /\ Cardinality(In(followEdge, x)) \in Nat /\ Cardinality(Out(followEdge, x)) \in Nat
        /\ Cardinality(In(followEdge', x)) \in Nat /\ Cardinality(Out(followEdge', x)) \in Nat
    BY PairsFinite
  <2>2. /\ followerCount[x] \in Nat /\ followerCount[x] >= Cardinality(In(followEdge, x))
        /\ followingCount[x] \in Nat /\ followingCount[x] >= Cardinality(Out(followEdge, x))
    BY DEF EdgesCovered, Covers
  <2>3. followerCount'[x] = followerCount[x] /\ followingCount'[x] = followingCount[x]
    OBVIOUS
  <2>4. /\ Cardinality(In(followEdge', x)) <= Cardinality(In(followEdge, x))
        /\ Cardinality(Out(followEdge', x)) <= Cardinality(Out(followEdge, x))
    BY <1>2
  <2>5. followerCount[x] >= Cardinality(In(followEdge', x))
    BY <2>1, <2>2, <2>4
  <2>6. followingCount[x] >= Cardinality(Out(followEdge', x))
    BY <2>1, <2>2, <2>4
  <2> QED
    BY <2>3, <2>5, <2>6
<1> QED
  BY <1>1, <1>3 DEF EdgesCovered, Covers

LEMMA EraseCovers ==
  ASSUME EdgesCovered, NEW e \in Graph!Pairs, Graph!Erase(e)
  PROVE  EdgesCovered'
  BY OneEdgeCovers DEF Graph!Erase

LEMMA InsertCovers ==
  ASSUME EdgesCovered, NEW e \in Graph!Pairs, NEW status \in {"pending", "accepted"},
         Graph!Insert(e, status)
  PROVE  EdgesCovered'
<1>1. CASE status = "accepted"
  BY <1>1, RaiseCovers DEF Graph!Insert
<1>2. CASE status = "pending"
  BY <1>2, OneEdgeCovers DEF Graph!Insert
<1> QED
  BY <1>1, <1>2

(* handleMove: the followers of the old account that the new one gains are *)
(* as many as the old one's followees lose, and no local actor's following *)
(* of the old account stays counted.                                       *)
LEMMA MoveCovers ==
  ASSUME EdgesCovered, NEW p \in Distant, NEW q \in Distant, p # q,
         followingCount' = [x \in Fellows |->
           Graph!Minus(followingCount[x],
                       IF followEdge[<<x, p>>] = "accepted" THEN 1 ELSE 0)],
         followerCount' = Graph!MoveCounts(p, q),
         followEdge' = Graph!MoveEdges(p, q)
  PROVE  EdgesCovered'
<1> USE GraphNames
<1>1. \A x \in Fellows, z \in Distant :
        <<x, z>> \in Graph!Pairs /\ <<z, x>> \in Graph!Pairs /\ x # z
  BY PairOf
<1>2. ASSUME NEW d \in Graph!Pairs
      PROVE  /\ d[1] = q => d[2] \in Fellows /\ <<p, d[2]>> \in Graph!Pairs
             /\ followEdge'[d] =
                  IF d[1] = p \/ d[2] = p THEN "none"
                  ELSE IF d[1] = q /\ followEdge[d] = "none" THEN followEdge[<<p, d[2]>>]
                  ELSE IF /\ d[2] = q /\ followEdge[d] = "none"
                          /\ followEdge[<<d[1], p>>] # "none" THEN "pending"
                  ELSE followEdge[d]
  <2>1. d[1] = q => d[2] \in Fellows /\ <<p, d[2]>> \in Graph!Pairs
    BY <1>1, PairParts
  <2>2. /\ d[1] = q => d[2] # q /\ d[2] # p
        /\ d[2] = q => d[1] # q /\ d[1] # p
    BY PairParts
  <2>3. followEdge'[d] =
          CASE p \in {d[1], d[2]} -> "none"
            [] d[1] = q /\ followEdge[d] = "none" -> followEdge[<<p, d[2]>>]
            [] d[2] = q /\ followEdge[d] = "none" /\ followEdge[<<d[1], p>>] # "none" ->
                 "pending"
            [] OTHER -> followEdge[d]
    BY DEF Graph!MoveEdges
  <2> QED
    BY <2>1, <2>2, <2>3
<1>3. followEdge' \in Follows
  <2>1. \A d \in Graph!Pairs : followEdge'[d] \in {"none", "pending", "accepted"}
    BY <1>2 DEF EdgesCovered, Follows
  <2>2. followEdge' = [d \in Graph!Pairs |-> followEdge'[d]]
    BY DEF Graph!MoveEdges
  <2> QED
    BY <2>1, <2>2 DEF Follows
<1>4. ASSUME NEW x \in Fellows
      PROVE  followingCount'[x] \in Nat /\ followingCount'[x] >= Cardinality(Out(followEdge', x))
  <2> DEFINE O == Out(followEdge, x)
  <2>1. /\ IsFiniteSet(O) /\ Cardinality(O) \in Nat
        /\ Cardinality(Out(followEdge', x)) \in Nat
    BY PairsFinite
  <2>2. followingCount[x] \in Nat /\ followingCount[x] >= Cardinality(O)
    BY DEF EdgesCovered, Covers
  <2>3. Out(followEdge', x) \subseteq O \ {<<x, p>>}
    <3> SUFFICES ASSUME NEW d \in Out(followEdge', x)
                 PROVE  d \in O /\ d # <<x, p>>
      OBVIOUS
    <3>1. d \in Graph!Pairs /\ d[1] = x /\ followEdge'[d] = "accepted"
      BY DEF Out
    <3>2. d[1] # p /\ d[1] # q /\ d[2] # p /\ followEdge[d] = "accepted"
      BY <1>1, <1>2, <3>1
    <3> QED
      BY <3>1, <3>2 DEF Out
  <2>4. CASE followEdge[<<x, p>>] = "accepted"
    <3>1. <<x, p>> \in O
      BY <1>1, <2>4 DEF Out
    <3>2. Cardinality(O \ {<<x, p>>}) = Cardinality(O) - 1 /\ IsFiniteSet(O \ {<<x, p>>})
      BY <2>1, <3>1, FS_RemoveElement
    <3>3. Cardinality(Out(followEdge', x)) <= Cardinality(O \ {<<x, p>>})
      BY <2>3, <3>2, FS_Subset
    <3>4. Cardinality(Out(followEdge', x)) <= Cardinality(O) - 1
      BY <3>2, <3>3
    <3>5. followingCount'[x] = Graph!Minus(followingCount[x], 1)
      BY <2>4
    <3> HIDE DEF O
    <3> QED
      BY <2>1, <2>2, <3>4, <3>5 DEF Graph!Minus
  <2>5. CASE followEdge[<<x, p>>] # "accepted"
    <3>1. Cardinality(Out(followEdge', x)) <= Cardinality(O)
      BY <2>3, FewerEdges
    <3>2. followingCount'[x] = Graph!Minus(followingCount[x], 0)
      BY <2>5
    <3> HIDE DEF O
    <3> QED
      BY <2>1, <2>2, <3>1, <3>2 DEF Graph!Minus
  <2> QED
    BY <2>4, <2>5
<1>5. ASSUME NEW y \in Fellows
      PROVE  followerCount'[y] \in Nat /\ followerCount'[y] >= Cardinality(In(followEdge', y))
  <2> DEFINE I == In(followEdge, y)
             J == In(followEdge', y)
             old == <<p, y>>
             new == <<q, y>>
  <2>1. /\ IsFiniteSet(I) /\ Cardinality(I) \in Nat
        /\ IsFiniteSet(J) /\ Cardinality(J) \in Nat
    BY PairsFinite
  <2>2. followerCount[y] \in Nat /\ followerCount[y] >= Cardinality(I)
    BY DEF EdgesCovered, Covers
  <2>3. old \in Graph!Pairs /\ new \in Graph!Pairs /\ old # new
    BY <1>1
  <2>4. followerCount'[y] = IF followEdge[old] = "accepted" /\ followEdge[new] # "none"
                            THEN Graph!Minus(followerCount[y], 1) ELSE followerCount[y]
    BY DEF Graph!MoveCounts
  <2>5. \A d \in Graph!Pairs \ {old, new} : d \in J <=> d \in I
    <3> SUFFICES ASSUME NEW d \in Graph!Pairs \ {old, new}, d[2] = y
                 PROVE  followEdge'[d] = followEdge[d]
      BY DEF In
    <3>1. d[1] # p /\ d[1] # q /\ d[2] # p /\ d[2] # q
      BY <1>1, PairParts
    <3> QED
      BY <1>2, <3>1
  <2>6. followEdge'[old] = "none"
    BY <1>2, <2>3
  <2>7. followEdge'[new] = IF followEdge[new] = "none" THEN followEdge[old]
                           ELSE followEdge[new]
    BY <1>1, <1>2, <2>3
  <2>8. /\ old \notin J
        /\ old \in I <=> followEdge[old] = "accepted"
        /\ new \in I <=> followEdge[new] = "accepted"
        /\ new \in J <=> followEdge'[new] = "accepted"
        /\ I \subseteq Graph!Pairs /\ J \subseteq Graph!Pairs
    BY <2>3, <2>6 DEF In
  <2>9. J = In(followEdge', y)
    OBVIOUS
  <2> HIDE DEF I, J, old, new
  <2>10. CASE followEdge[old] = "accepted" /\ followEdge[new] # "none"
    <3>1. J = I \ {old}
      BY <2>3, <2>5, <2>7, <2>8, <2>10
    <3>2. Cardinality(J) = Cardinality(I) - 1
      BY <2>1, <2>8, <2>10, <3>1, FS_RemoveElement
    <3>3. followerCount'[y] = Graph!Minus(followerCount[y], 1)
      BY <2>4, <2>10
    <3>4. followerCount'[y] \in Nat /\ followerCount'[y] >= Cardinality(J)
      BY <2>1, <2>2, <3>2, <3>3 DEF Graph!Minus
    <3> QED
      BY <2>9, <3>4
  <2>11. CASE followEdge[old] = "accepted" /\ followEdge[new] = "none"
    <3>1. J = (I \ {old}) \union {new}
      BY <2>3, <2>5, <2>7, <2>8, <2>11
    <3>2. /\ Cardinality(I \ {old}) = Cardinality(I) - 1 /\ IsFiniteSet(I \ {old})
          /\ new \notin I \ {old}
      BY <2>1, <2>8, <2>11, FS_RemoveElement
    <3>3. Cardinality((I \ {old}) \union {new}) = Cardinality(I \ {old}) + 1
      BY <3>2, FS_AddElement
    <3>4. Cardinality(J) = Cardinality(I)
      BY <2>1, <3>1, <3>2, <3>3
    <3>5. followerCount'[y] = followerCount[y]
      BY <2>4, <2>11
    <3> QED
      BY <2>2, <2>9, <3>4, <3>5
  <2>12. CASE followEdge[old] # "accepted"
    <3>1. J \subseteq I
      BY <2>3, <2>5, <2>7, <2>8, <2>12
    <3>2. Cardinality(J) <= Cardinality(I)
      BY <2>1, <3>1, FS_Subset
    <3>3. followerCount'[y] = followerCount[y]
      BY <2>4, <2>12
    <3> QED
      BY <2>1, <2>2, <2>9, <3>2, <3>3
  <2> QED
    BY <2>10, <2>11, <2>12
<1>6. followerCount' \in [Fellows -> Nat] /\ followingCount' \in [Fellows -> Nat]
  BY <1>4, <1>5 DEF Graph!MoveCounts
<1> QED
  BY <1>3, <1>4, <1>5, <1>6 DEF EdgesCovered, Covers

(* purgeRetainedInteractionEdges: the local ends of the edge that goes are *)
(* counted anew.                                                           *)
LEMMA PageCovers ==
  ASSUME EdgesCovered, NEW e \in Graph!Pairs,
         followEdge' = [followEdge EXCEPT ![e] = "none"],
         followerCount' = [y \in Fellows |->
           IF y = e[2] THEN Graph!Cardinality(Graph!Followers(y) \ {e})
           ELSE followerCount[y]],
         followingCount' = [x \in Fellows |->
           IF x = e[1] THEN Graph!Cardinality(Graph!Followings(x) \ {e})
           ELSE followingCount[x]]
  PROVE  EdgesCovered'
<1>1. followEdge' \in Follows
  BY DEF EdgesCovered, Follows
<1>2. \A x : /\ In(followEdge', x) = In(followEdge, x) \ {e}
             /\ Out(followEdge', x) = Out(followEdge, x) \ {e}
  BY DEF In, Out, EdgesCovered, Follows
<1>3. ASSUME NEW x \in Fellows
      PROVE  /\ followerCount'[x] = IF x = e[2] THEN Cardinality(In(followEdge', x))
                                    ELSE followerCount[x]
             /\ followingCount'[x] = IF x = e[1] THEN Cardinality(Out(followEdge', x))
                                     ELSE followingCount[x]
  BY <1>2, EdgesEqual, GraphCounts
<1>4. ASSUME NEW x \in Fellows
      PROVE  /\ followerCount'[x] \in Nat
             /\ followerCount'[x] >= Cardinality(In(followEdge', x))
             /\ followingCount'[x] \in Nat
             /\ followingCount'[x] >= Cardinality(Out(followEdge', x))
  <2>1. /\ Cardinality(In(followEdge, x)) \in Nat /\ Cardinality(Out(followEdge, x)) \in Nat
        /\ Cardinality(In(followEdge', x)) \in Nat /\ Cardinality(Out(followEdge', x)) \in Nat
    BY PairsFinite
  <2>2. /\ followerCount[x] \in Nat /\ followerCount[x] >= Cardinality(In(followEdge, x))
        /\ followingCount[x] \in Nat /\ followingCount[x] >= Cardinality(Out(followEdge, x))
    BY DEF EdgesCovered, Covers
  <2>3. /\ Cardinality(In(followEdge', x)) <= Cardinality(In(followEdge, x))
        /\ Cardinality(Out(followEdge', x)) <= Cardinality(Out(followEdge, x))
    BY <1>2, FewerEdges
  <2>4. /\ followerCount[x] >= Cardinality(In(followEdge', x))
        /\ followingCount[x] >= Cardinality(Out(followEdge', x))
    BY <2>1, <2>2, <2>3
  <2>5. followerCount'[x] \in Nat /\ followerCount'[x] >= Cardinality(In(followEdge', x))
    <3>1. CASE x = e[2]
      <4>1. followerCount'[x] = Cardinality(In(followEdge', x))
        BY <1>3, <3>1
      <4> QED
        BY <2>1, <4>1
    <3>2. CASE x # e[2]
      <4>1. followerCount'[x] = followerCount[x]
        BY <1>3, <3>2
      <4> QED
        BY <2>2, <2>4, <4>1
    <3> QED
      BY <3>1, <3>2
  <2>6. followingCount'[x] \in Nat /\ followingCount'[x] >= Cardinality(Out(followEdge', x))
    <3>1. CASE x = e[1]
      <4>1. followingCount'[x] = Cardinality(Out(followEdge', x))
        BY <1>3, <3>1
      <4> QED
        BY <2>1, <4>1
    <3>2. CASE x # e[1]
      <4>1. followingCount'[x] = followingCount[x]
        BY <1>3, <3>2
      <4> QED
        BY <2>2, <2>4, <4>1
    <3> QED
      BY <3>1, <3>2
  <2> QED
    BY <2>5, <2>6
<1>5. followerCount' \in [Fellows -> Nat] /\ followingCount' \in [Fellows -> Nat]
  BY <1>4
<1> QED
  BY <1>1, <1>4, <1>5 DEF EdgesCovered, Covers

(* A request moves to its next slot.                                       *)
LEMMA FollowMoves ==
  ASSUME FollowReqs, NEW c \in Clients, NEW new \in FollowSlots, FollowFits(new),
         followReq' = [followReq EXCEPT ![c] = new]
  PROVE  FollowReqs'
<1>1. followReq' \in [Clients -> FollowSlots]
  BY DEF FollowReqs
<1>2. \A d \in Clients : followReq'[d] = IF d = c THEN new ELSE followReq[d]
  BY DEF FollowReqs
<1>3. \A d \in Clients : FollowFits(followReq'[d])
  BY <1>2 DEF FollowReqs
<1> QED
  BY <1>1, <1>3 DEF FollowReqs

LEMMA FollowDone ==
  ASSUME FollowReqs, NEW c \in Clients, Graph!Done(c)
  PROVE  FollowReqs'
<1> DEFINE new == Graph!Ended
<1>1. new \in FollowSlots /\ new.pc = "ended"
  BY EndedFollow
<1>2. FollowFits(new)
  BY <1>1 DEF FollowFits, PairStages, PeerStages
<1>3. followReq' = [followReq EXCEPT ![c] = new]
  BY DEF Graph!Done
<1> HIDE DEF new
<1> QED
  BY <1>1, <1>2, <1>3, FollowMoves

LEMMA FollowWait ==
  ASSUME FollowReqs, NEW c \in Clients, NEW pc \in FollowStages,
         NEW x \in Kin \union {"none"}, NEW y \in Kin \union {"none"},
         NEW was \in {"none", "pending", "accepted", "unavailable", "gone"},
         Graph!Wait(c, pc, x, y, was), pc # "acceptAll",
         pc \in PairStages => <<x, y>> \in Graph!Pairs,
         pc \in PeerStages => y \in Distant,
         pc = "failed" => was \in {"unavailable", "gone"},
         pc = "move" => x \in Distant /\ y \in Distant /\ x # y
  PROVE  FollowReqs'
<1> DEFINE new == Graph!Slot(pc, x, y, was)
<1>1. /\ new \in FollowSlots
      /\ new.pc = pc /\ new.by = x /\ new.on = y /\ new.seen = was
  BY DEF Graph!Slot, FollowSlots
<1>2. FollowFits(new)
  BY <1>1 DEF FollowFits
<1>3. followReq' = [followReq EXCEPT ![c] = new]
  BY DEF Graph!Wait
<1> HIDE DEF new
<1> QED
  BY <1>1, <1>2, <1>3, FollowMoves

LEMMA CacheStays ==
  CacheSound /\ UNCHANGED <<cached, tomb, fail>> => CacheSound'
  BY DEF CacheSound, Graph!CacheTypeOK, Graph!TombstonedNotCached,
     Graph!CachedNotRefused

LEMMA ModsStay == ModsTyped /\ UNCHANGED <<blocks, mutes, opBlocked>> => ModsTyped'
  BY DEF ModsTyped

(* The reads of the routes and of the inbox.                               *)
followRows == <<cached, tomb, fail, followEdge, followerCount, followingCount,
                blocks, mutes, opBlocked>>

LEMMA FollowRead ==
  ASSUME GraphInv, FollowReqs', UNCHANGED followRows
  PROVE  GraphInv'
  BY EdgesStay, CacheStays, ModsStay DEF GraphInv, followRows

LEMMA LocalReads ==
  ASSUME GraphInv, NEW c \in Clients, NEW x \in Fellows, NEW y \in Kin,
         \/ Graph!Follow(c, x, y) \/ Graph!ToolFollow(c, x, y)
         \/ Graph!Unfollow(c, x, y) \/ Graph!ToolUnfollow(c, x, y)
         \/ Graph!Accept(c, x, y) \/ Graph!Reject(c, x, y)
  PROVE  GraphInv'
<1> USE GraphNames
<1>1. FollowReqs /\ x # y
  BY DEF GraphInv, Graph!Follow, Graph!ToolFollow, Graph!Unfollow,
     Graph!ToolUnfollow, Graph!Accept, Graph!Reject
<1>2. <<x, y>> \in Graph!Pairs /\ <<y, x>> \in Graph!Pairs
  BY <1>1, PairOf
<1>3. followEdge[<<x, y>>] \in {"none", "pending", "accepted"}
  BY <1>2 DEF GraphInv, EdgesCovered, Follows
<1>4. UNCHANGED followRows
  BY DEF Graph!Follow, Graph!ToolFollow, Graph!Unfollow, Graph!ToolUnfollow,
     Graph!Accept, Graph!Reject, Graph!cacheVars, Graph!graphVars, Graph!modVars,
     followRows
<1>5. ASSUME Graph!Follow(c, x, y) PROVE FollowReqs'
  <2> DEFINE pc == IF y \in Distant \ cached THEN "followFetch" ELSE "follow"
  <2>1. pc \in FollowStages /\ pc # "acceptAll" /\ pc # "failed" /\ pc # "move"
        /\ (pc \in PeerStages => y \in Distant)
    BY DEF FollowStages, PairStages, PeerStages
  <2>2. Graph!Wait(c, pc, x, y, "none")
    BY <1>5 DEF Graph!Follow
  <2> HIDE DEF pc
  <2> QED
    BY <1>1, <1>2, <2>1, <2>2, FollowWait
<1>6. ASSUME Graph!ToolFollow(c, x, y) PROVE FollowReqs'
  <2>1. Graph!Wait(c, "follow", x, y, "none")
    BY <1>6 DEF Graph!ToolFollow
  <2> QED
    BY <1>1, <1>2, <2>1, FollowWait DEF FollowStages, PairStages, PeerStages
<1>7. ASSUME Graph!Unfollow(c, x, y) \/ Graph!ToolUnfollow(c, x, y) PROVE FollowReqs'
  <2>1. Graph!Wait(c, "unfollow", x, y, followEdge[<<x, y>>])
    BY <1>7 DEF Graph!Unfollow, Graph!ToolUnfollow
  <2> QED
    BY <1>1, <1>2, <1>3, <2>1, FollowWait DEF FollowStages, PairStages, PeerStages
<1>8. ASSUME Graph!Accept(c, x, y) PROVE FollowReqs'
  <2>1. Graph!Wait(c, "accept", y, x, "pending")
    BY <1>8 DEF Graph!Accept
  <2> QED
    BY <1>1, <1>2, <2>1, FollowWait DEF FollowStages, PairStages, PeerStages
<1>9. ASSUME Graph!Reject(c, x, y) PROVE FollowReqs'
  <2>1. Graph!Wait(c, "reject", y, x, "pending")
    BY <1>9 DEF Graph!Reject
  <2> QED
    BY <1>1, <1>2, <2>1, FollowWait DEF FollowStages, PairStages, PeerStages
<1> QED
  BY <1>4, <1>5, <1>6, <1>7, <1>8, <1>9, FollowRead

LEMMA InboxReads ==
  ASSUME GraphInv, NEW c \in Clients, NEW p \in Distant, NEW y \in Fellows,
         \/ Graph!InFollow(c, p, y) \/ Graph!InAccept(c, p, y)
         \/ Graph!InReject(c, p, y) \/ Graph!InUndo(c, p, y)
  PROVE  GraphInv'
<1> USE GraphNames
<1>1. FollowReqs /\ p # y
  BY DEF GraphInv
<1>2. <<p, y>> \in Graph!Pairs /\ <<y, p>> \in Graph!Pairs
  BY <1>1, PairOf
<1>3. /\ followEdge[<<p, y>>] \in {"none", "pending", "accepted"}
      /\ followEdge[<<y, p>>] \in {"none", "pending", "accepted"}
  BY <1>2 DEF GraphInv, EdgesCovered, Follows
<1>4. UNCHANGED followRows
  BY DEF Graph!InFollow, Graph!InAccept, Graph!InReject, Graph!InUndo, Graph!InAnswer,
     Graph!cacheVars, Graph!graphVars, Graph!modVars, followRows
<1>5. ASSUME Graph!InFollow(c, p, y) PROVE FollowReqs'
  <2>1. Graph!Wait(c, "inFollow", p, y, "none")
    BY <1>5 DEF Graph!InFollow
  <2> QED
    BY <1>1, <1>2, <2>1, FollowWait DEF FollowStages, PairStages, PeerStages
<1>6. ASSUME Graph!InAccept(c, p, y) PROVE FollowReqs'
  <2>1. Graph!Wait(c, "inAccept", y, p, followEdge[<<y, p>>])
    BY <1>6 DEF Graph!InAccept, Graph!InAnswer
  <2> QED
    BY <1>1, <1>2, <1>3, <2>1, FollowWait DEF FollowStages, PairStages, PeerStages
<1>7. ASSUME Graph!InReject(c, p, y) PROVE FollowReqs'
  <2>1. Graph!Wait(c, "inSever", y, p, followEdge[<<y, p>>])
    BY <1>7 DEF Graph!InReject, Graph!InAnswer
  <2> QED
    BY <1>1, <1>2, <1>3, <2>1, FollowWait DEF FollowStages, PairStages, PeerStages
<1>8. ASSUME Graph!InUndo(c, p, y) PROVE FollowReqs'
  <2>1. Graph!Wait(c, "inSever", p, y, followEdge[<<p, y>>])
    BY <1>8 DEF Graph!InUndo
  <2> QED
    BY <1>1, <1>2, <1>3, <2>1, FollowWait DEF FollowStages, PairStages, PeerStages
<1> QED
  BY <1>4, <1>5, <1>6, <1>7, <1>8, FollowRead

LEMMA BatchRead ==
  ASSUME GraphInv, NEW c \in Clients, NEW y \in Fellows, Graph!AcceptBatch(c, y)
  PROVE  GraphInv'
<1> DEFINE some == {x \in Kin \ ({y} \union opBlocked) :
                      followEdge[<<x, y>>] = "pending"}
           new == [Graph!Slot("acceptAll", "none", y, "none") EXCEPT !.todo = some]
<1>1. followReq' = [followReq EXCEPT ![c] = new] /\ UNCHANGED followRows
  BY DEF Graph!AcceptBatch, Graph!cacheVars, Graph!graphVars, Graph!modVars,
     followRows, Kin
<1>2. some \subseteq Kin /\ y \notin some
  OBVIOUS
<1>3. /\ new \in FollowSlots /\ new.pc = "acceptAll" /\ new.on = y /\ new.todo = some
  BY <1>2, GraphNames DEF Graph!Slot, FollowSlots, FollowStages
<1>4. FollowFits(new)
  BY <1>2, <1>3 DEF FollowFits, PairStages, PeerStages
<1> HIDE DEF new
<1> QED
  BY <1>1, <1>3, <1>4, FollowMoves, FollowRead DEF GraphInv

(* Fetches, tombstones and recorded failures.                              *)
CacheRows == [kind : {"none", "unavailable", "gone"}, counted : BOOLEAN,
              due : BOOLEAN, token : Clients \union {"none"}, leased : BOOLEAN]

LEMMA CacheOf ==
  CacheSound <=>
    /\ cached \subseteq Distant /\ tomb \subseteq Distant
    /\ fail \in [Distant -> CacheRows]
    /\ tomb \intersect cached = {}
    /\ \A p \in cached : ~fail[p].counted
  BY DEF CacheSound, CacheRows, Graph!CacheTypeOK, Graph!TombstonedNotCached,
     Graph!CachedNotRefused

LEMMA NoFailureRow == Graph!NoFailure \in CacheRows /\ ~Graph!NoFailure.counted
  BY DEF Graph!NoFailure, CacheRows

(* A new row is recorded for an actor that is not cached, or counts no     *)
(* failure, or leaves the count as it was.                                 *)
LEMMA RowCacheSound ==
  ASSUME CacheSound, NEW p \in Distant, NEW row \in CacheRows,
         fail' = [fail EXCEPT ![p] = row], UNCHANGED <<cached, tomb>>,
         p \notin cached \/ ~row.counted \/ row.counted = fail[p].counted
  PROVE  CacheSound'
<1>1. fail' \in [Distant -> CacheRows]
  BY CacheOf
<1>2. \A s \in cached : ~fail'[s].counted
  BY CacheOf
<1> QED
  BY <1>1, <1>2, CacheOf DEF CacheSound, CacheRows, Graph!CacheTypeOK,
     Graph!TombstonedNotCached, Graph!CachedNotRefused

graphMods == <<followEdge, followerCount, followingCount, blocks, mutes, opBlocked>>

LEMMA CacheStep ==
  ASSUME GraphInv, FollowReqs', CacheSound', UNCHANGED graphMods
  PROVE  GraphInv'
  BY EdgesStay, ModsStay DEF GraphInv, graphMods

LEMMA FetchReads ==
  ASSUME GraphInv, NEW c \in Clients, NEW p \in Distant,
         Graph!Refresh(c, p) \/ Graph!Recover(c, p), UNCHANGED graphMods
  PROVE  GraphInv'
<1>1. \E pc \in {"fetching", "claiming"} : Graph!Wait(c, pc, "none", p, "none")
  BY DEF Graph!Refresh, Graph!Recover
<1>2. FollowReqs'
  BY <1>1, FollowWait, GraphNames DEF GraphInv, FollowStages, PairStages, PeerStages
<1>3. CacheSound'
  BY CacheStays DEF GraphInv, Graph!Refresh, Graph!Recover, Graph!cacheVars
<1> QED
  BY <1>2, <1>3, CacheStep

LEMMA FetchClaimed ==
  ASSUME GraphInv, NEW c \in Clients, Graph!Claim(c), UNCHANGED graphMods
  PROVE  GraphInv'
<1> DEFINE p == followReq[c].on
<1>1. p \in Distant /\ FollowReqs /\ CacheSound
  BY DEF GraphInv, FollowReqs, FollowFits, PeerStages, Graph!Claim
<1>2. CASE Graph!Done(c) /\ UNCHANGED <<cached, tomb, fail>>
  BY <1>1, <1>2, FollowDone, CacheStays, CacheStep
<1>3. CASE /\ fail' = [fail EXCEPT ![p] =
                [fail[p] EXCEPT !.token = c, !.leased = TRUE,
                   !.kind = IF @ = "none" THEN "unavailable" ELSE @]]
           /\ Graph!Wait(c, "recovering", "none", p, "none")
           /\ UNCHANGED <<cached, tomb>>
  <2> DEFINE row == [fail[p] EXCEPT !.token = c, !.leased = TRUE,
                       !.kind = IF @ = "none" THEN "unavailable" ELSE @]
  <2>1. fail[p] \in CacheRows
    BY <1>1, CacheOf
  <2>2. row \in CacheRows /\ row.counted = fail[p].counted
    BY <2>1 DEF CacheRows
  <2>3. fail' = [fail EXCEPT ![p] = row]
    BY <1>3
  <2> HIDE DEF row, p
  <2>4. CacheSound'
    BY <1>1, <1>3, <2>2, <2>3, RowCacheSound
  <2>5. FollowReqs'
    BY <1>1, <1>3, FollowWait, GraphNames DEF FollowStages, PairStages, PeerStages
  <2> QED
    BY <2>4, <2>5, CacheStep
<1> QED
  BY <1>2, <1>3 DEF Graph!Claim

LEMMA DocumentStep ==
  ASSUME GraphInv, NEW c \in Clients, Graph!CacheDocument(c), UNCHANGED graphMods
  PROVE  GraphInv'
<1> DEFINE p == followReq[c].on
<1>1. p \in Distant /\ FollowReqs /\ CacheSound /\ followReq[c].pc \in Graph!Fetching
  BY DEF GraphInv, FollowReqs, FollowFits, PeerStages, Graph!CacheDocument, Graph!Fetching
<1>2. CacheSound'
  <2>1. CASE p \in tomb
    BY <1>1, <2>1, CacheStays DEF Graph!CacheDocument, Graph!TombstoneAbsent
  <2>2. CASE p \notin tomb
    <3>1. /\ cached' = cached \union {p} /\ tomb' = tomb
          /\ fail' = [fail EXCEPT ![p] = Graph!NoFailure]
      BY <2>2 DEF Graph!CacheDocument, Graph!TombstoneAbsent
    <3>2. /\ cached' \subseteq Distant /\ tomb' \subseteq Distant
          /\ fail' \in [Distant -> CacheRows] /\ tomb' \intersect cached' = {}
      BY <1>1, <2>2, <3>1, CacheOf, NoFailureRow
    <3>3. \A s \in cached' : ~fail'[s].counted
      BY <1>1, <3>1, CacheOf, NoFailureRow
    <3> QED
      BY <3>2, <3>3 DEF CacheSound, CacheRows, Graph!CacheTypeOK,
         Graph!TombstonedNotCached, Graph!CachedNotRefused
  <2> QED
    BY <2>1, <2>2
<1>3. FollowReqs'
  <2>1. CASE p \in tomb /\ followReq[c].pc = "recovering"
    <3>1. Graph!Wait(c, "failed", "none", p, "gone")
      BY <2>1 DEF Graph!CacheDocument
    <3> HIDE DEF p
    <3> QED
      BY <1>1, <3>1, FollowWait, GraphNames DEF FollowStages, PairStages, PeerStages
  <2>2. CASE p \notin tomb /\ followReq[c].pc = "followFetch"
    <3> DEFINE x == followReq[c].by
    <3>1. Graph!Wait(c, "follow", x, p, "none")
      BY <2>2 DEF Graph!CacheDocument
    <3>2. <<x, p>> \in Graph!Pairs /\ x \in Kin /\ p \in Kin
      BY <2>2, <1>1, PairParts DEF FollowReqs, FollowFits, PairStages
    <3> HIDE DEF p, x
    <3> QED
      BY <1>1, <3>1, <3>2, FollowWait DEF FollowStages, PairStages, PeerStages
  <2>3. CASE ~(p \in tomb /\ followReq[c].pc = "recovering")
             /\ ~(p \notin tomb /\ followReq[c].pc = "followFetch")
    <3>1. Graph!Done(c)
      BY <2>3 DEF Graph!CacheDocument
    <3> QED
      BY <1>1, <3>1, FollowDone
  <2> QED
    BY <2>1, <2>2, <2>3
<1> QED
  BY <1>2, <1>3, CacheStep

LEMMA FetchFailsStep ==
  ASSUME GraphInv, NEW c \in Clients, Graph!FetchFails(c), UNCHANGED graphMods
  PROVE  GraphInv'
<1> DEFINE p == followReq[c].on
<1>1. p \in Distant /\ FollowReqs /\ CacheSound
  BY DEF GraphInv, FollowReqs, FollowFits, PeerStages, Graph!FetchFails, Graph!Fetching
<1>2. CacheSound'
  BY <1>1, CacheStays DEF Graph!FetchFails, Graph!cacheVars
<1>3. \/ Graph!Done(c)
      \/ \E k \in {"unavailable", "gone"} : Graph!Wait(c, "failed", "none", p, k)
  BY DEF Graph!FetchFails
<1> HIDE DEF p
<1>4. ASSUME NEW k \in {"unavailable", "gone"}, Graph!Wait(c, "failed", "none", p, k)
      PROVE  FollowReqs'
  BY <1>1, <1>4, FollowWait, GraphNames DEF FollowStages, PairStages, PeerStages
<1>5. FollowReqs'
  BY <1>1, <1>3, <1>4, FollowDone
<1> QED
  BY <1>2, <1>5, CacheStep

(* A failure is recorded only where no document has been stored since.     *)
LEMMA FailureStep ==
  ASSUME GraphInv, NEW c \in Clients, Graph!RecordFailure(c), UNCHANGED graphMods
  PROVE  GraphInv'
<1> DEFINE p == followReq[c].on
<1>1. /\ p \in Distant /\ FollowReqs /\ CacheSound
      /\ followReq[c].seen \in {"unavailable", "gone"}
  BY DEF GraphInv, FollowReqs, FollowFits, PeerStages, Graph!RecordFailure
<1>2. CASE /\ p \notin cached /\ Graph!Done(c) /\ UNCHANGED <<cached, tomb>>
           /\ fail' = [fail EXCEPT ![p] =
                [kind |-> followReq[c].seen, counted |-> TRUE, token |-> "none",
                 due |-> followReq[c].seen = "gone", leased |-> FALSE]]
  <2> DEFINE row == [kind |-> followReq[c].seen, counted |-> TRUE, token |-> "none",
                     due |-> followReq[c].seen = "gone", leased |-> FALSE]
  <2>1. row \in CacheRows
    BY <1>1 DEF CacheRows
  <2> HIDE DEF row
  <2>2. CacheSound'
    BY <1>1, <1>2, <2>1, RowCacheSound DEF row
  <2> QED
    BY <1>1, <1>2, <2>2, FollowDone, CacheStep
<1>3. CASE Graph!Wait(c, "releasing", "none", p, "none") /\ UNCHANGED <<cached, tomb, fail>>
  <2> HIDE DEF p
  <2>1. FollowReqs'
    BY <1>1, <1>3, FollowWait, GraphNames DEF FollowStages, PairStages, PeerStages
  <2> QED
    BY <1>1, <1>3, <2>1, CacheStays, CacheStep
<1>4. CASE Graph!Done(c) /\ UNCHANGED <<cached, tomb, fail>>
  BY <1>1, <1>4, FollowDone, CacheStays, CacheStep
<1> QED
  BY <1>2, <1>3, <1>4 DEF Graph!RecordFailure, Graph!Recordable

LEMMA ReleaseStep ==
  ASSUME GraphInv, NEW c \in Clients, Graph!ReleaseClaim(c), UNCHANGED graphMods
  PROVE  GraphInv'
<1> DEFINE p == followReq[c].on
<1>1. p \in Distant /\ FollowReqs /\ CacheSound
  BY DEF GraphInv, FollowReqs, FollowFits, PeerStages, Graph!ReleaseClaim
<1>2. FollowReqs'
  BY <1>1, FollowDone DEF Graph!ReleaseClaim
<1>3. CASE fail' = [fail EXCEPT ![p] = Graph!NoFailure] /\ UNCHANGED <<cached, tomb>>
  <2> HIDE DEF p
  <2> QED
    BY <1>1, <1>2, <1>3, NoFailureRow, RowCacheSound, CacheStep
<1>4. CASE UNCHANGED <<cached, tomb, fail>>
  BY <1>1, <1>2, <1>4, CacheStays, CacheStep
<1> QED
  BY <1>3, <1>4 DEF Graph!ReleaseClaim

(* Time passes, and old rows are reaped.                                   *)
LEMMA RowsAge ==
  ASSUME GraphInv, NEW p \in Distant,
         Graph!LeaseExpires(p) \/ Graph!BackoffPasses(p) \/ Graph!ReapFailure(p),
         UNCHANGED graphMods
  PROVE  GraphInv'
<1>1. CacheSound /\ fail[p] \in CacheRows
  BY CacheOf DEF GraphInv
<1>2. FollowReqs' /\ UNCHANGED <<cached, tomb>>
  BY DEF GraphInv, FollowReqs, Graph!LeaseExpires, Graph!BackoffPasses, Graph!ReapFailure
<1>3. \E row \in CacheRows :
        /\ fail' = [fail EXCEPT ![p] = row]
        /\ ~row.counted \/ row.counted = fail[p].counted
  <2>1. CASE Graph!LeaseExpires(p)
    <3>1. fail' = [fail EXCEPT ![p] = [fail[p] EXCEPT !.leased = FALSE]]
      BY <2>1 DEF Graph!LeaseExpires
    <3>2. /\ [fail[p] EXCEPT !.leased = FALSE] \in CacheRows
          /\ [fail[p] EXCEPT !.leased = FALSE].counted = fail[p].counted
      BY <1>1 DEF CacheRows
    <3> QED
      BY <3>1, <3>2
  <2>2. CASE Graph!BackoffPasses(p)
    <3>1. fail' = [fail EXCEPT ![p] = [fail[p] EXCEPT !.due = TRUE]]
      BY <2>2 DEF Graph!BackoffPasses
    <3>2. /\ [fail[p] EXCEPT !.due = TRUE] \in CacheRows
          /\ [fail[p] EXCEPT !.due = TRUE].counted = fail[p].counted
      BY <1>1 DEF CacheRows
    <3> QED
      BY <3>1, <3>2
  <2>3. CASE Graph!ReapFailure(p)
    BY <2>3, NoFailureRow DEF Graph!ReapFailure
  <2> QED
    BY <2>1, <2>2, <2>3
<1>4. PICK row \in CacheRows : /\ fail' = [fail EXCEPT ![p] = row]
                               /\ ~row.counted \/ row.counted = fail[p].counted
  BY <1>3
<1>5. CacheSound'
  BY <1>1, <1>2, <1>4, RowCacheSound
<1> QED
  BY <1>2, <1>5, CacheStep

(* Moderation.                                                             *)
LEMMA Moderation ==
  ASSUME GraphInv, NEW c \in Clients, NEW x \in Fellows, NEW y \in Kin,
         \/ Graph!Block(c, x, y) \/ Graph!Unblock(c, x, y)
         \/ Graph!Mute(c, x, y) \/ Graph!Unmute(c, x, y)
  PROVE  GraphInv'
<1>1. FollowReqs'
  BY FollowDone DEF GraphInv, Graph!Block, Graph!Unblock, Graph!Mute, Graph!Unmute
<1>2. CacheSound'
  BY CacheStays DEF GraphInv, Graph!Block, Graph!Unblock, Graph!Mute, Graph!Unmute,
     Graph!cacheVars
<1>3. ModsTyped'
  BY DEF GraphInv, ModsTyped, Graph!Block, Graph!Unblock, Graph!Mute, Graph!Unmute
<1>4. EdgesCovered'
  <2>1. CASE Graph!Block(c, x, y)
    <3>1. {<<x, y>>, <<y, x>>} \in SUBSET Graph!Pairs
      BY <2>1, PairOf DEF Graph!Block
    <3> QED
      BY <2>1, <3>1, SeverCovers DEF GraphInv, Graph!Block
  <2>2. CASE UNCHANGED <<followEdge, followerCount, followingCount>>
    BY <2>2, EdgesStay DEF GraphInv
  <2> QED
    BY <2>1, <2>2 DEF Graph!Unblock, Graph!Mute, Graph!Unmute, Graph!graphVars
<1> QED
  BY <1>1, <1>2, <1>3, <1>4 DEF GraphInv

LEMMA OperatorBlocks ==
  ASSUME GraphInv, NEW c \in Clients, NEW p \in Distant,
         Graph!OpBlock(c, p) \/ Graph!OpUnblock(c, p)
  PROVE  GraphInv'
<1>1. FollowReqs'
  <2>1. CASE Graph!OpBlock(c, p)
    <3>1. Graph!Wait(c, "purge", "none", p, "none")
      BY <2>1 DEF Graph!OpBlock
    <3> QED
      BY <3>1, FollowWait, GraphNames DEF GraphInv, FollowStages, PairStages, PeerStages
  <2>2. CASE Graph!OpUnblock(c, p)
    BY <2>2, FollowDone DEF GraphInv, Graph!OpUnblock
  <2> QED
    BY <2>1, <2>2
<1>2. CacheSound'
  BY CacheStays DEF GraphInv, Graph!OpBlock, Graph!OpUnblock, Graph!cacheVars
<1>3. ModsTyped'
  BY DEF GraphInv, ModsTyped, Graph!OpBlock, Graph!OpUnblock
<1>4. EdgesCovered'
  BY EdgesStay DEF GraphInv, Graph!OpBlock, Graph!OpUnblock, Graph!graphVars
<1> QED
  BY <1>1, <1>2, <1>3, <1>4 DEF GraphInv

(* handleRemoteActorDelete: the tombstone and the loss of the document are *)
(* one batch with the edges.                                               *)
LEMMA ActorDeleted ==
  ASSUME GraphInv, NEW c \in Clients, NEW p \in Distant, Graph!DeleteActor(c, p)
  PROVE  GraphInv'
<1>1. FollowReqs'
  BY FollowDone DEF GraphInv, Graph!DeleteActor
<1>2. CacheSound'
  <2>1. /\ tomb' = tomb \union {p} /\ cached' = cached \ {p}
        /\ fail' = [fail EXCEPT ![p] = Graph!NoFailure]
    BY DEF Graph!DeleteActor, Graph!DropActor
  <2>2. CacheSound
    BY DEF GraphInv
  <2>3. /\ cached' \subseteq Distant /\ tomb' \subseteq Distant
        /\ fail' \in [Distant -> CacheRows] /\ tomb' \intersect cached' = {}
    BY <2>1, <2>2, CacheOf, NoFailureRow
  <2>4. \A s \in cached' : ~fail'[s].counted
    BY <2>1, <2>2, CacheOf, NoFailureRow
  <2> QED
    BY <2>3, <2>4 DEF CacheSound, CacheRows, Graph!CacheTypeOK,
       Graph!TombstonedNotCached, Graph!CachedNotRefused
<1>3. ModsTyped'
  BY ModsStay DEF GraphInv, Graph!DeleteActor, Graph!modVars
<1>4. EdgesCovered'
  <2> DEFINE D == {d \in Graph!Pairs : p \in {d[1], d[2]}}
  <2>1. Graph!Sever(D) /\ D \in SUBSET Graph!Pairs /\ EdgesCovered
    BY DEF GraphInv, Graph!DeleteActor
  <2> HIDE DEF D
  <2> QED
    BY <2>1, SeverCovers
<1> QED
  BY <1>1, <1>2, <1>3, <1>4 DEF GraphInv

LEMMA MoveRead ==
  ASSUME GraphInv, NEW c \in Clients, NEW p \in Distant, NEW q \in Distant,
         Graph!Move(c, p, q)
  PROVE  GraphInv'
<1>1. FollowReqs'
  <2>1. Graph!Wait(c, "move", p, q, "none") /\ p # q
    BY DEF Graph!Move
  <2> QED
    BY <2>1, FollowWait, GraphNames DEF GraphInv, FollowStages, PairStages, PeerStages
<1>2. CacheSound'
  <2>1. CacheSound /\ tomb' = tomb
    BY DEF GraphInv, Graph!Move
  <2>2. CASE /\ q \notin tomb /\ cached' = cached \union {q}
             /\ fail' = [fail EXCEPT ![q] = Graph!NoFailure]
    <3>1. /\ cached' \subseteq Distant /\ tomb' \subseteq Distant
          /\ fail' \in [Distant -> CacheRows] /\ tomb' \intersect cached' = {}
      BY <2>1, <2>2, CacheOf, NoFailureRow
    <3>2. \A s \in cached' : ~fail'[s].counted
      BY <2>1, <2>2, CacheOf, NoFailureRow
    <3> QED
      BY <3>1, <3>2 DEF CacheSound, CacheRows, Graph!CacheTypeOK,
         Graph!TombstonedNotCached, Graph!CachedNotRefused
  <2>3. CASE UNCHANGED <<cached, fail>>
    BY <2>1, <2>3, CacheStays
  <2> QED
    BY <2>2, <2>3 DEF Graph!Move, Graph!TombstoneAbsent
<1>3. ModsTyped'
  BY ModsStay DEF GraphInv, Graph!Move, Graph!modVars
<1>4. EdgesCovered'
  BY EdgesStay DEF GraphInv, Graph!Move, Graph!graphVars
<1> QED
  BY <1>1, <1>2, <1>3, <1>4 DEF GraphInv

(* The batches that follow a read.                                         *)
otherRows == <<cached, tomb, fail, blocks, mutes, opBlocked>>

LEMMA FollowWritten ==
  ASSUME GraphInv, FollowReqs', EdgesCovered', UNCHANGED otherRows
  PROVE  GraphInv'
  BY CacheStays, ModsStay DEF GraphInv, otherRows

LEMMA FollowWrites ==
  ASSUME GraphInv, NEW c \in Clients,
         \/ Graph!LocalFollowWrite(c) \/ Graph!RemoteFollowWrite(c)
         \/ Graph!UnfollowWrite(c) \/ Graph!AcceptWrite(c) \/ Graph!RejectWrite(c)
         \/ Graph!InFollowWrite(c) \/ Graph!InAcceptWrite(c) \/ Graph!InSeverWrite(c)
  PROVE  GraphInv'
<1> DEFINE e == Graph!Edge(c)
<1>1. e \in Graph!Pairs /\ EdgesCovered
  BY DEF GraphInv, FollowReqs, FollowFits, PairStages, Graph!Edge,
     Graph!LocalFollowWrite, Graph!RemoteFollowWrite, Graph!UnfollowWrite,
     Graph!AcceptWrite, Graph!RejectWrite, Graph!InFollowWrite, Graph!InAcceptWrite,
     Graph!InSeverWrite
<1>2. Graph!Done(c) /\ UNCHANGED otherRows
  BY DEF Graph!LocalFollowWrite, Graph!RemoteFollowWrite, Graph!UnfollowWrite,
     Graph!AcceptWrite, Graph!RejectWrite, Graph!InFollowWrite, Graph!InAcceptWrite,
     Graph!InSeverWrite, Graph!cacheVars, Graph!modVars, otherRows
<1>3. FollowReqs'
  BY <1>2, FollowDone DEF GraphInv
<1>4. \/ UNCHANGED <<followEdge, followerCount, followingCount>>
      \/ \E status \in {"pending", "accepted"} : Graph!Insert(e, status)
      \/ Graph!Sever({e}) \/ Graph!Raise(e) \/ Graph!Erase(e)
  BY DEF Graph!LocalFollowWrite, Graph!RemoteFollowWrite, Graph!UnfollowWrite,
     Graph!UnfollowCounts, Graph!AcceptWrite, Graph!RejectWrite, Graph!InFollowWrite,
     Graph!InAcceptWrite, Graph!InSeverWrite, Graph!graphVars, Graph!Answer
<1> HIDE DEF e
<1>5. {e} \in SUBSET Graph!Pairs
  BY <1>1
<1>6. EdgesCovered'
  BY <1>1, <1>4, <1>5, EdgesStay, InsertCovers, SeverCovers, RaiseCovers, EraseCovers
<1> QED
  BY <1>2, <1>3, <1>6, FollowWritten

LEMMA BatchStep ==
  ASSUME GraphInv, NEW c \in Clients, Graph!AcceptBatchStep(c)
  PROVE  GraphInv'
<1> DEFINE q == followReq[c]
<1>1. /\ q \in FollowSlots /\ q.pc = "acceptAll" /\ q.on \in Fellows
      /\ q.on \notin q.todo /\ q.todo \subseteq Kin /\ EdgesCovered /\ FollowReqs
  BY DEF GraphInv, FollowReqs, FollowFits, FollowSlots, Graph!AcceptBatchStep
<1>2. PICK x \in q.todo :
        /\ IF followEdge[<<x, q.on>>] = "pending" THEN Graph!Raise(<<x, q.on>>)
           ELSE UNCHANGED <<followEdge, followerCount, followingCount>>
        /\ IF q.todo = {x} THEN Graph!Done(c)
           ELSE followReq' = [followReq EXCEPT ![c].todo = @ \ {x}]
  BY DEF Graph!AcceptBatchStep, Graph!graphVars
<1>3. <<x, q.on>> \in Graph!Pairs
  BY <1>1, <1>2, PairOf
<1>4. EdgesCovered'
  BY <1>1, <1>2, <1>3, EdgesStay, RaiseCovers
<1>5. FollowReqs'
  <2>1. CASE q.todo = {x}
    BY <1>1, <1>2, <2>1, FollowDone
  <2>2. CASE q.todo # {x}
    <3> DEFINE new == [q EXCEPT !.todo = q.todo \ {x}]
    <3>1. followReq' = [followReq EXCEPT ![c] = new]
      BY <1>2, <2>2
    <3>2. /\ new \in FollowSlots /\ new.pc = "acceptAll" /\ new.on = q.on
          /\ new.todo = q.todo \ {x}
      BY <1>1 DEF FollowSlots
    <3>3. FollowFits(new)
      BY <1>1, <3>2 DEF FollowFits, PairStages, PeerStages
    <3> HIDE DEF new, q
    <3> QED
      BY <1>1, <3>1, <3>2, <3>3, FollowMoves
  <2> QED
    BY <2>1, <2>2
<1>6. UNCHANGED otherRows
  BY DEF Graph!AcceptBatchStep, Graph!cacheVars, Graph!modVars, otherRows
<1> QED
  BY <1>4, <1>5, <1>6, FollowWritten

LEMMA Moved ==
  ASSUME GraphInv, NEW c \in Clients, Graph!MoveWrite(c)
  PROVE  GraphInv'
<1> DEFINE p == followReq[c].by
           q == followReq[c].on
<1>1. p \in Distant /\ q \in Distant /\ p # q /\ EdgesCovered
  BY DEF GraphInv, FollowReqs, FollowFits, Graph!MoveWrite
<1>2. /\ followingCount' = [x \in Fellows |->
           Graph!Minus(followingCount[x],
                       IF followEdge[<<x, p>>] = "accepted" THEN 1 ELSE 0)]
      /\ followerCount' = Graph!MoveCounts(p, q)
      /\ followEdge' = Graph!MoveEdges(p, q)
  BY DEF Graph!MoveWrite
<1>3. FollowReqs'
  BY FollowDone DEF GraphInv, Graph!MoveWrite
<1>4. UNCHANGED otherRows
  BY DEF Graph!MoveWrite, Graph!cacheVars, Graph!modVars, otherRows
<1> HIDE DEF p, q
<1>5. EdgesCovered'
  BY <1>1, <1>2, MoveCovers
<1> QED
  BY <1>3, <1>4, <1>5, FollowWritten

LEMMA Purged ==
  ASSUME GraphInv, NEW c \in Clients, Graph!PurgePage(c)
  PROVE  GraphInv'
<1>1. UNCHANGED otherRows
  BY DEF Graph!PurgePage, Graph!cacheVars, Graph!modVars, otherRows
<1>2. CASE Graph!Done(c) /\ UNCHANGED <<followEdge, followerCount, followingCount>>
  BY <1>1, <1>2, FollowDone, EdgesStay, FollowWritten DEF GraphInv
<1>3. CASE \E d \in Graph!Pairs :
             /\ followEdge' = [followEdge EXCEPT ![d] = "none"]
             /\ followerCount' = [y \in Fellows |->
                  IF y = d[2] THEN Graph!Cardinality(Graph!Followers(y) \ {d})
                  ELSE followerCount[y]]
             /\ followingCount' = [x \in Fellows |->
                  IF x = d[1] THEN Graph!Cardinality(Graph!Followings(x) \ {d})
                  ELSE followingCount[x]]
             /\ UNCHANGED followReq
  <2>1. EdgesCovered'
    BY <1>3, PageCovers DEF GraphInv
  <2>2. FollowReqs'
    BY <1>3 DEF GraphInv, FollowReqs
  <2> QED
    BY <1>1, <2>1, <2>2, FollowWritten
<1> QED
  BY <1>2, <1>3 DEF Graph!PurgePage, Graph!graphVars

LEMMA GraphStays ==
  GraphInv /\ UNCHANGED <<cached, tomb, fail, followReq, followEdge, followerCount,
                          followingCount, blocks, mutes, opBlocked>> => GraphInv'
<1> SUFFICES ASSUME GraphInv, UNCHANGED followRows, UNCHANGED followReq
             PROVE  GraphInv'
  BY DEF followRows
<1>1. FollowReqs'
  BY DEF GraphInv, FollowReqs
<1> QED
  BY <1>1, FollowRead

LEMMA GraphNext == GraphInv /\ [Graph!Next]_graphVars => GraphInv'
<1> SUFFICES ASSUME GraphInv, [Graph!Next]_graphVars PROVE GraphInv'
  OBVIOUS
<1>1. CASE UNCHANGED graphVars
  BY <1>1, GraphStays DEF graphVars
<1>2. CASE Graph!CacheNext /\ UNCHANGED graphMods
  BY <1>2, FetchReads, FetchClaimed, DocumentStep, FetchFailsStep, FailureStep,
     ReleaseStep, RowsAge DEF Graph!CacheNext
<1>3. CASE \E c \in Clients, p \in Distant :
             Graph!Recover(c, p) /\ UNCHANGED graphMods
  BY <1>3, FetchReads
<1>4. CASE \E c \in Clients, x \in Fellows, y \in Kin :
             \/ Graph!Follow(c, x, y) \/ Graph!Unfollow(c, x, y)
             \/ Graph!ToolFollow(c, x, y) \/ Graph!ToolUnfollow(c, x, y)
             \/ Graph!Accept(c, x, y) \/ Graph!Reject(c, x, y)
             \/ Graph!Block(c, x, y) \/ Graph!Unblock(c, x, y)
             \/ Graph!Mute(c, x, y) \/ Graph!Unmute(c, x, y)
  BY <1>4, LocalReads, Moderation
<1>5. CASE \E c \in Clients, p \in Distant, y \in Fellows :
             \/ Graph!InFollow(c, p, y) \/ Graph!InAccept(c, p, y)
             \/ Graph!InReject(c, p, y) \/ Graph!InUndo(c, p, y)
  BY <1>5, InboxReads
<1>6. CASE \E c \in Clients, p \in Distant :
             \/ Graph!DeleteActor(c, p) \/ Graph!OpBlock(c, p) \/ Graph!OpUnblock(c, p)
             \/ \E q \in Distant : Graph!Move(c, p, q)
  BY <1>6, ActorDeleted, OperatorBlocks, MoveRead
<1>7. CASE \E c \in Clients, y \in Fellows : Graph!AcceptBatch(c, y)
  BY <1>7, BatchRead
<1>8. CASE \E c \in Clients :
             \/ Graph!LocalFollowWrite(c) \/ Graph!RemoteFollowWrite(c)
             \/ Graph!UnfollowWrite(c) \/ Graph!AcceptWrite(c)
             \/ Graph!AcceptBatchStep(c) \/ Graph!RejectWrite(c)
             \/ Graph!InFollowWrite(c) \/ Graph!InAcceptWrite(c)
             \/ Graph!InSeverWrite(c) \/ Graph!MoveWrite(c) \/ Graph!PurgePage(c)
  BY <1>8, FollowWrites, BatchStep, Moved, Purged
<1>9. Graph!Next =>
        \/ Graph!CacheNext /\ UNCHANGED graphMods
        \/ \E c \in Clients, p \in Distant : Graph!Recover(c, p) /\ UNCHANGED graphMods
        \/ \E c \in Clients, x \in Fellows, y \in Kin :
             \/ Graph!Follow(c, x, y) \/ Graph!Unfollow(c, x, y)
             \/ Graph!ToolFollow(c, x, y) \/ Graph!ToolUnfollow(c, x, y)
             \/ Graph!Accept(c, x, y) \/ Graph!Reject(c, x, y)
             \/ Graph!Block(c, x, y) \/ Graph!Unblock(c, x, y)
             \/ Graph!Mute(c, x, y) \/ Graph!Unmute(c, x, y)
        \/ \E c \in Clients, p \in Distant, y \in Fellows :
             \/ Graph!InFollow(c, p, y) \/ Graph!InAccept(c, p, y)
             \/ Graph!InReject(c, p, y) \/ Graph!InUndo(c, p, y)
        \/ \E c \in Clients, p \in Distant :
             \/ Graph!DeleteActor(c, p) \/ Graph!OpBlock(c, p) \/ Graph!OpUnblock(c, p)
             \/ \E q \in Distant : Graph!Move(c, p, q)
        \/ \E c \in Clients, y \in Fellows : Graph!AcceptBatch(c, y)
        \/ \E c \in Clients :
             \/ Graph!LocalFollowWrite(c) \/ Graph!RemoteFollowWrite(c)
             \/ Graph!UnfollowWrite(c) \/ Graph!AcceptWrite(c)
             \/ Graph!AcceptBatchStep(c) \/ Graph!RejectWrite(c)
             \/ Graph!InFollowWrite(c) \/ Graph!InAcceptWrite(c)
             \/ Graph!InSeverWrite(c) \/ Graph!MoveWrite(c) \/ Graph!PurgePage(c)
  BY DEF Graph!Next, Graph!graphVars, Graph!modVars, graphMods, Kin
<1> QED
  BY <1>1, <1>2, <1>3, <1>4, <1>5, <1>6, <1>7, <1>8, <1>9

LEMMA GraphIsSound ==
  GraphInv => /\ Graph!TypeOK /\ Graph!CountsCover
              /\ Graph!TombstonedNotCached /\ Graph!CachedNotRefused
  BY EdgesEqual, GraphCounts DEF GraphInv, EdgesCovered, Covers, Follows, CacheSound,
     ModsTyped, Kin, Graph!TypeOK, Graph!CountsCover


LEMMA RoomsOfStep == [MCNext]_allVars => [Rooms!Next]_roomVars
  BY DEF MCNext, TalkStep, RoomStep, GraphStep, BoardStep, allVars

LEMMA RoomsInvariant == MCSpec => []RoomInv
<1>1. MCInit => RoomInv
  BY RoomInit DEF MCInit
<1>2. RoomInv /\ [MCNext]_allVars => RoomInv'
  BY RoomNext, RoomsOfStep
<1> QED
  BY <1>1, <1>2, PTL DEF MCSpec, allVars

(* member_count is the number of member rows, and an invite lets one       *)
(* account in, for any number of accounts and of overlapping joins,        *)
(* removals, role changes and teardowns (membership-join.ts,               *)
(* membership-shared.ts).                                                  *)
THEOREM RoomsAreSound == MCSpec => []RoomsSound
<1>1. RoomInv => RoomsSound
  <2> SUFFICES ASSUME RoomInv PROVE RoomsSound
    OBVIOUS
  <2>1. Cardinality(entered) <= 1
    <3>1. CASE entered = {}
      BY <3>1, FS_EmptySet
    <3>2. CASE \E u \in Accounts : entered = {u}
      BY <3>2, FS_Singleton
    <3> QED
      BY <3>1, <3>2 DEF RoomInv, InviteSound
  <2> QED
    BY <2>1, RoomCounts DEF RoomInv, RoomTypes, RoomsSound, Rooms!InviteAdmitsOne
<1> QED
  BY <1>1, RoomsInvariant, PTL

(* A write that commits later than its request was admitted does what it   *)
(* may do at the moment it commits: reading and entering exact mode leave  *)
(* other scopes alone, archiving one peer and rejecting an answered one    *)
(* touch nothing else, and a message of a community is changed by somebody *)
(* who may change it now (talk-read-receipts.ts, talk-peer-archives.ts,    *)
(* guardGroupMessage).                                                     *)
THEOREM WritesStayInScope == MCSpec => WritesInScope
<1> DEFINE Reads ==
             \A r \in Requests :
               InitWrite(r) \/ AckWrite(r) \/ ReadWrite(r) =>
                 \A m \in Msgs : msg[m].peer # req[r].s => (Unread(m) <=> Unread(m)')
           Enters ==
             \A r \in Requests :
               InitWrite(r) => \A m \in Msgs : Unread(m) <=> Unread(m)'
           Archives ==
             \A r \in Requests :
               ArchiveWrite(r) =>
                 \A p \in Participants(Thread(req[r].s)) \ {req[r].s} :
                   Archived(p) <=> Archived(p)'
           Rejects ==
             \A r \in Requests : RejectWrite(r) /\ Replied(req[r].s) => msg' = msg
           Changes ==
             roomMsg # Rooms!NoMsg /\ roomMsg' # roomMsg =>
               \/ \E r \in Clients :
                    /\ roomReq[r].pc \in {"edit", "delete"}
                    /\ roomReq'[r] = Rooms!Ended
                    /\ Rooms!Owned(roomReq[r].by, roomReq[r].pc = "delete")
               \/ roomMsg.by \in deleting
<1>1. TalkInv => Reads
  BY OthersStayUnread
<1>2. TalkInv => Enters
  BY EntryKeepsUnread
<1>3. TalkInv => Archives
  BY ArchiveOfOne
<1>4. Rejects
  BY DEF RejectWrite, Unanswered
<1>5. RoomInv /\ [MCNext]_allVars => Changes
  BY MessageOfAdmitted, RoomsOfStep
<1>6. MCSpec => [][Reads]_vars
  BY <1>1, TalksInvariant, PTL
<1>7. MCSpec => [][Enters]_vars
  BY <1>2, TalksInvariant, PTL
<1>8. MCSpec => [][Archives]_vars
  BY <1>3, TalksInvariant, PTL
<1>9. MCSpec => [][Rejects]_vars
  BY <1>4, PTL
<1>10. MCSpec => Rooms!MessageWritesAdmitted
  BY <1>5, RoomsInvariant, PTL DEF MCSpec, allVars, Rooms!MessageWritesAdmitted
<1>11. MCSpec => ReadsScoped
  BY <1>6 DEF ReadsScoped
<1>12. MCSpec => InitKeepsUnread
  BY <1>7 DEF InitKeepsUnread
<1>13. MCSpec => ArchiveScoped
  BY <1>8 DEF ArchiveScoped
<1>14. MCSpec => AnsweredNotRejected
  BY <1>9 DEF AnsweredNotRejected
<1> QED
  BY <1>11, <1>12, <1>13, <1>14, <1>10 DEF WritesInScope

(* Posts have no state in the other parts.                                 *)
BoardPart == part = "board" => BoardInv /\ LogInv

LEMMA BoardInvariant == MCSpec => []BoardPart
<1>1. MCInit => BoardPart
  BY BoardInit, LogInit DEF MCInit, BoardPart
<1>2. BoardPart /\ [MCNext]_allVars => BoardPart'
  <2>1. [MCNext]_allVars /\ part' = "board" =>
          part = "board" /\ [Board!Next]_boardVars
    BY DEF MCNext, TalkStep, RoomStep, GraphStep, BoardStep, allVars
  <2> QED
    BY <2>1, BoardNext, LogNext DEF BoardPart
<1> QED
  BY <1>1, <1>2, PTL DEF MCSpec, allVars

(* An author's counter covers the author's objects, no like or repost of a *)
(* Note outlives it, the counters that are recomputed are exact, and the   *)
(* stored activities have a Delete exactly when the Note is gone, for any  *)
(* number of accounts and in every order of the batches of likes, replies, *)
(* edits, deletions and the expiry sweep (routes/posts/, routes/stories/). *)
THEOREM BoardIsRight == MCSpec => []BoardSound
<1>1. BoardPart => BoardSound
  BY BoardIsSound DEF BoardSound, BoardPart, LogInv
<1> QED
  BY <1>1, BoardInvariant, PTL

(* Follows have no state in the other parts.                               *)
GraphPart == part = "graph" => GraphInv

LEMMA GraphInvariant == MCSpec => []GraphPart
<1>1. MCInit => GraphPart
  BY GraphInit DEF MCInit, GraphPart
<1>2. GraphPart /\ [MCNext]_allVars => GraphPart'
  <2>1. [MCNext]_allVars /\ part' = "graph" =>
          part = "graph" /\ [Graph!Next]_graphVars
    BY DEF MCNext, TalkStep, RoomStep, GraphStep, BoardStep, allVars
  <2> QED
    BY <2>1, GraphNext DEF GraphPart
<1> QED
  BY <1>1, <1>2, PTL DEF MCSpec, allVars

(* No counter of a local actor falls below the accepted edges it counts,   *)
(* no actor is cached beside a tombstone, and no stored document is        *)
(* refused by a recorded failure, for any number of accounts, peers and    *)
(* requests and in every order of their reads and batches (follow.ts,      *)
(* inbox-follow-handlers.ts, account-migration.ts, blocklist-purge.ts,     *)
(* activitypub-actor-cache.ts).                                            *)
THEOREM GraphIsRight == MCSpec => []GraphSound
<1>1. GraphPart => GraphSound
  BY GraphIsSound DEF GraphSound, GraphPart
<1> QED
  BY <1>1, GraphInvariant, PTL
=============================================================================
