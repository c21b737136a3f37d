--------------------------- MODULE CallSignaling ---------------------------
(***************************************************************************)
(* Calls between two actors on two servers.  Each actor has a signalling   *)
(* hub (runtime/call-hub-core.ts inside the Durable Object of              *)
(* runtime/call-signaling-do.ts) and one browser tab                       *)
(* (packages/api/src/lib/rtc-client.ts).  The hubs exchange signed POSTs   *)
(* (lib/rtc/signal-transport.ts, routes/rtc/index.ts); a hub handler waits *)
(* for its POST while other events of the same hub go on.                  *)
(*                                                                         *)
(* SDP and ICE candidates are carried and not looked at; a frame of the    *)
(* tab reaches its hub at once, the frames of the hub are queued.          *)
(***************************************************************************)
EXTENDS Naturals, Sequences, FiniteSets

CONSTANTS
  Low, High,    \* the two actors; Low is the smaller ap_id (impolite)
  MaxCalls,     \* bound: calls an actor starts
  MaxPosts,     \* bound: POSTs and fetches of ICE servers under way
  MaxFaults     \* bound: lost POSTs, dropped sockets, evictions, calls timed out

ASSUME CallAssumption == Low # High /\ MaxCalls \in Nat

Users == {Low, High}
Peer(u) == IF u = Low THEN High ELSE Low
Ids == Users \X (1..MaxCalls)      \* call ids, with who made them
NoId == <<"none", 0>>

VARIABLES
  hub,          \* [Users -> [Ids -> call]], the calls map of each hub
  row,          \* [Users -> [Ids -> state]], the call_sessions rows
  provisions,   \* [Users -> calls whose ICE servers are awaited (provisionMedia)]
  sig,          \* POSTs between the hubs
  tab,          \* [Users -> what the browser tab is in]
  dialling,     \* [Users -> POST /api/rtc/calls is under way]
  open,         \* [Users -> the websocket is open]
  frames,       \* [Users -> frames from the hub to the tab]
  faults        \* faults so far

hubVars == <<hub, row>>
tabVars == <<tab, dialling, open>>
vars == <<hub, row, provisions, sig, tab, dialling, open, frames, faults>>

(* "over" stands for the terminal states: ended, rejected, missed, failed  *)
(* and cancelled differ only in what history shows.                        *)

NoCall == [dir |-> "none", st |-> "none"]
NewCall(d) == [dir |-> d, st |-> "ringing"]
IdleTab == [id |-> NoId, ui |-> "idle", remote |-> FALSE, said |-> FALSE]

Init ==
  /\ hub = [u \in Users |-> [c \in Ids |-> NoCall]]
  /\ row = [u \in Users |-> [c \in Ids |-> "none"]]
  /\ provisions = [u \in Users |-> {}]
  /\ sig = {}
  /\ tab = [u \in Users |-> IdleTab] /\ dialling = [u \in Users |-> FALSE]
  /\ open = [u \in Users |-> TRUE]
  /\ frames = [u \in Users |-> <<>>] /\ faults = 0

-----------------------------------------------------------------------------
(* The hub.                                                                *)

Has(u, c) == hub[u][c] # NoCall

(* broadcast, to the sockets there are.  Bound: what an event sends waits  *)
(* until the tab has taken what an earlier event sent.                     *)
Broadcast(u, fs) ==
  /\ fs # <<>> => frames[u] = <<>>
  /\ frames' = IF open[u] THEN [frames EXCEPT ![u] = @ \o fs] ELSE frames

(* transition: the map, which a call that is over leaves, the persisted    *)
(* row, and the tabs are told.  The caller may hold a call that has left   *)
(* the map in the meantime.                                                *)
Transition(u, c, st, before) ==
  /\ hub' = [hub EXCEPT ![u][c] =
       IF st = "over" THEN NoCall ELSE [hub[u][c] EXCEPT !.st = st]]
  /\ row' = [row EXCEPT ![u][c] = st]
  /\ Broadcast(u, before \o
       (IF st = "over" THEN <<[t |-> "over", id |-> c]>> ELSE <<>>))

Signal(u, c, type, cont, then) ==
  [from |-> u, id |-> c, type |-> type, cont |-> cont, then |-> then,
   stage |-> "sent"]

(* Bound: POSTs and fetches of ICE servers under way.                      *)
HasRoom ==
  Cardinality(sig) + Cardinality(provisions[Low]) + Cardinality(provisions[High]) < MaxPosts

(* relay: a POST to the other hub; what follows it happens in Settle.      *)
Relay(u, c, type, cont) ==
  /\ HasRoom
  /\ sig' = sig \union {Signal(u, c, type, cont, NoId)}

(* onClientInvite waits for the ICE servers before the call is in the map. *)
InviteReady(u, c) ==
  /\ c \in provisions[u] /\ c[1] = u
  /\ provisions' = [provisions EXCEPT ![u] = @ \ {c}]
  /\ hub' = [hub EXCEPT ![u][c] = NewCall("outgoing")]
  /\ row' = [row EXCEPT ![u][c] = "ringing"]
  /\ UNCHANGED <<sig, tabVars, frames, faults>>

(* Mutant of Connecting: the hub does not keep that the call was accepted. *)
ConnectingUntold(u, c, before) ==
  Broadcast(u, before) /\ (IF c[1] = u /\ hub[u][c].st = "ringing"
    THEN hub' = [hub EXCEPT ![u][c].st = "connecting"] /\ row' = [row EXCEPT ![u][c] = "connecting"]
    ELSE UNCHANGED hubVars)
(* onClientAccept, onClientAnswer: a ringing call starts to connect.       *)
Connecting(u, c, before) ==
  IF hub[u][c].st = "ringing" THEN Transition(u, c, "connecting", before)
  ELSE Broadcast(u, before) /\ UNCHANGED hubVars

(* Something goes wrong.                                                   *)
Fault == faults < MaxFaults /\ faults' = faults + 1

(* tick: calls that ring or connect for too long are over.  How many do is *)
(* bounded with the faults.                                                *)
Tick(u, c) ==
  /\ Has(u, c) /\ Fault
  /\ Transition(u, c, "over", <<>>)
  /\ UNCHANGED <<provisions, sig, tabVars>>

(* The Durable Object is evicted: handlers that wait for a POST or for ICE *)
(* servers are gone, the calls come back from its storage, which has what  *)
(* was in the map (a write still queued at an eviction is left out).       *)
Evict(u) ==
  /\ (\E s \in sig : s.from = u) \/ provisions[u] # {}
  /\ Fault
  /\ sig' = {s \in sig : s.from # u}
  /\ provisions' = [provisions EXCEPT ![u] = {}]
  /\ UNCHANGED <<hubVars, tabVars, frames>>

-----------------------------------------------------------------------------
(* Signals from the other hub: POST /ap/rtc/signal, handleInboundSignal.   *)

(* The tab rings and gets the offer.                                       *)
Rings(c) == <<[t |-> "ringing", id |-> c], [t |-> "offer", id |-> c]>>

(* onPeerOffer rings when there are ICE servers, if there is a tab.        *)
WillRing(u, c) ==
  provisions' = IF open[u] THEN [provisions EXCEPT ![u] = @ \union {c}] ELSE provisions

(* onPeerOffer without glare: the call is new unless it is known.          *)
Incoming(u, c) ==
  /\ hub' = IF Has(u, c) THEN hub ELSE [hub EXCEPT ![u][c] = NewCall("incoming")]
  /\ row' = IF Has(u, c) THEN row ELSE [row EXCEPT ![u][c] = "ringing"]
  /\ WillRing(u, c)

(* The rest of onPeerOffer, whatever has become of the call.               *)
RingReady(u, c) ==
  /\ c \in provisions[u] /\ c[1] # u
  /\ provisions' = [provisions EXCEPT ![u] = @ \ {c}]
  /\ Broadcast(u, Rings(c))
  /\ UNCHANGED <<hubVars, sig, tabVars, faults>>

(* Both have dialled: our own call to the peer is still ringing.           *)
Crossing(u) ==
  {c \in Ids : hub[u][c].dir = "outgoing" /\ hub[u][c].st = "ringing"}

(* The POST is answered, in time or not; if nothing follows, that is it.   *)
Answered(s, ok) ==
  /\ sig' = (sig \ {s}) \union
       (IF ok /\ s.cont = "none" THEN {}
        ELSE {[s EXCEPT !.stage = IF ok THEN "ok" ELSE "fail"]})
  /\ IF ok THEN UNCHANGED faults ELSE Fault

(* Glare: the lower ap_id keeps its own call and ignores the offer; the    *)
(* higher one cancels its call, and takes the offer when that is done.     *)
PeerOffer(s, ok) ==
  LET u == Peer(s.from) IN
  /\ s.stage = "sent" /\ s.type = "offer"
  /\ IF Has(u, s.id) \/ Crossing(u) = {}
     THEN Incoming(u, s.id) /\ Answered(s, ok)
     ELSE IF u = Low
     THEN Answered(s, ok) /\ UNCHANGED <<hubVars, provisions>>
     ELSE /\ \E o \in Crossing(u) :
               sig' = (sig \ {s}) \union
                 {[s EXCEPT !.stage = "held"], Signal(u, o, "cancel", "glare", s.id)}
          /\ UNCHANGED <<hubVars, provisions, faults>>
  /\ UNCHANGED <<tabVars, frames>>

(* onPeerAnswer, onPeerAccept, onPeerReject, onPeerHangup; a call that is  *)
(* not in the map is nothing to them.                                      *)
PeerSignal(s, ok) ==
  LET u == Peer(s.from)
      c == s.id
  IN
  /\ s.stage = "sent" /\ s.type # "offer"
  /\ Answered(s, ok)
  /\ IF ~Has(u, c) THEN UNCHANGED <<hubVars, frames>>
     ELSE CASE s.type = "answer" -> Connecting(u, c, <<[t |-> "answer", id |-> c]>>)
            [] s.type = "accept" -> Connecting(u, c, <<[t |-> "accepted", id |-> c]>>)
            [] s.type = "reject" -> Transition(u, c, "over", <<[t |-> "bye", id |-> c]>>)
            [] s.type = "cancel" -> Transition(u, c, "over", <<[t |-> "bye", id |-> c]>>)
  /\ UNCHANGED <<provisions, tabVars>>

(* The peer's hub answers without looking: the sender is blocked, or the   *)
(* envelope is past its ttl.                                               *)
Ignored(s) ==
  /\ s.stage = "sent" /\ Answered(s, TRUE)
  /\ UNCHANGED <<hubVars, provisions, tabVars, frames>>

(* The POST does not arrive, or an offer is held for longer than the time  *)
(* limit of its sender.                                                    *)
Lost(s) ==
  /\ s.stage \in {"sent", "held"} /\ Answered(s, FALSE)
  /\ UNCHANGED <<hubVars, provisions, tabVars, frames>>

(* The handler that sent the POST goes on.  A failure of any signal ends   *)
(* the call; after glare the offer is taken.                               *)
Settle(s) ==
  LET u == s.from
      rest == {x \in sig \ {s} : ~(x.stage = "held" /\ x.id = s.then)}
  IN
  /\ s.stage \in {"ok", "fail"}
  /\ sig' = rest
  /\ IF s.stage = "fail"
     THEN /\ Transition(u, s.id, "over", <<[t |-> "bye", id |-> s.id]>>)
          /\ UNCHANGED provisions
     ELSE IF s.then = NoId
     THEN Transition(u, s.id, "over", <<>>) /\ UNCHANGED provisions
     ELSE /\ hub' = [hub EXCEPT ![u][s.id] = NoCall, ![u][s.then] = NewCall("incoming")]
          /\ row' = [row EXCEPT ![u][s.id] = "over", ![u][s.then] = "ringing"]
          /\ Broadcast(u, <<[t |-> "over", id |-> s.id]>>) /\ WillRing(u, s.then)
  /\ UNCHANGED <<tabVars, faults>>

-----------------------------------------------------------------------------
(* The tab.                                                                *)

Fresh(u) == {c \in Ids : c[1] = u /\ row[u][c] = "none" /\ c \notin provisions[u]}

(* startCall: an idle tab asks for a call id ...                           *)
StartCall(u) ==
  /\ tab[u] = IdleTab /\ ~dialling[u] /\ Fresh(u) # {}
  /\ dialling' = [dialling EXCEPT ![u] = TRUE]
  /\ UNCHANGED <<hubVars, provisions, sig, tab, open, frames, faults>>

(* ... and POST /api/rtc/calls gives one, and the hub is told, or fails.   *)
(* A call that has begun to ring in the meantime is forgotten by the tab.  *)
Placed(u, ok) ==
  /\ dialling[u] /\ open[u] /\ dialling' = [dialling EXCEPT ![u] = FALSE]
  /\ IF ok
     THEN LET c == CHOOSE x \in Fresh(u) : \A y \in Fresh(u) : x[2] <= y[2] IN
          /\ Fresh(u) # {} /\ HasRoom
          /\ tab' = [tab EXCEPT ![u] = [IdleTab EXCEPT !.id = c, !.ui = "calling"]]
          /\ provisions' = [provisions EXCEPT ![u] = @ \union {c}]
     ELSE UNCHANGED <<tab, provisions>>
  /\ UNCHANGED <<hubVars, sig, open, frames, faults>>

(* makeOffer; onClientOffer knows the call, or the offer is dropped.       *)
MakeOffer(u) ==
  LET c == tab[u].id IN
  /\ tab[u].ui = "calling" /\ ~tab[u].said /\ open[u]
  /\ tab' = [tab EXCEPT ![u].said = TRUE]
  /\ IF Has(u, c) THEN Relay(u, c, "offer", "none") ELSE UNCHANGED sig
  /\ UNCHANGED <<hubVars, provisions, dialling, open, frames, faults>>

(* accept, and onClientAccept.                                             *)
Accept(u) ==
  LET c == tab[u].id IN
  /\ tab[u].ui = "incoming" /\ open[u]
  /\ tab' = [tab EXCEPT ![u].ui = "connecting"]
  /\ IF Has(u, c) THEN Relay(u, c, "accept", "none") /\ Connecting(u, c, <<>>)
     ELSE UNCHANGED <<sig, hubVars, frames>>
  /\ UNCHANGED <<provisions, dialling, open, faults>>

(* The second part of accept, with the microphone on: the answer, and      *)
(* onClientAnswer.                                                         *)
SendAnswer(u) ==
  LET c == tab[u].id IN
  /\ tab[u].ui = "connecting" /\ c[1] # u /\ tab[u].remote /\ ~tab[u].said
  /\ open[u]
  /\ tab' = [tab EXCEPT ![u].said = TRUE]
  /\ IF Has(u, c) THEN Relay(u, c, "answer", "none") /\ Connecting(u, c, <<>>)
     ELSE UNCHANGED <<sig, hubVars, frames>>
  /\ UNCHANGED <<provisions, dialling, open, faults>>

(* hangup and reject; no call is ever "connected" for the hub, so that     *)
(* onClientHangup always cancels.                                          *)
Leave(u, type) ==
  LET c == tab[u].id IN
  /\ tab[u].id # NoId /\ open[u] /\ (type = "reject" => tab[u].ui = "incoming")
  /\ tab' = [tab EXCEPT ![u] = IdleTab]
  /\ IF Has(u, c)
     THEN Relay(u, c, type, "over")
     ELSE UNCHANGED sig
  /\ UNCHANGED <<hubVars, provisions, dialling, open, frames, faults>>

(* The media flow once both descriptions are there.                        *)
MediaFlows(u) ==
  /\ tab[u].ui \in {"calling", "connecting"} /\ tab[u].remote
  /\ tab[Peer(u)].id = tab[u].id /\ tab[Peer(u)].remote
  /\ tab' = [tab EXCEPT ![u].ui = "connected"]
  /\ UNCHANGED <<hubVars, provisions, sig, dialling, open, frames, faults>>

(* The peer connection has failed or was closed by the other side.         *)
MediaFails(u) ==
  /\ tab[u].ui = "connected" /\ tab[Peer(u)].id # tab[u].id
  /\ tab' = [tab EXCEPT ![u] = IdleTab]
  /\ UNCHANGED <<hubVars, provisions, sig, dialling, open, frames, faults>>

(* onRemoteOffer: an offer for another call than the tab's is adopted.     *)
RemoteOffer(t, c) ==
  IF t.id = c THEN [t EXCEPT !.remote = TRUE]
  ELSE [IdleTab EXCEPT !.id = c, !.ui = "incoming", !.remote = TRUE]

(* onFrame.  A busy tab declines a second ring; whatever the other side    *)
(* says of its leaving ends the tab's call, without a look at the id.      *)
OnFrame(u) ==
  LET f == Head(frames[u])
      t == tab[u]
      busy == f.t = "ringing" /\ t.id # NoId
  IN
  /\ frames[u] # <<>>
  /\ frames' = [frames EXCEPT ![u] = Tail(@)]
  /\ tab' = [tab EXCEPT ![u] =
       CASE f.t = "ringing" /\ ~busy -> [IdleTab EXCEPT !.id = f.id, !.ui = "incoming"]
         [] busy -> t
         [] f.t = "offer" -> RemoteOffer(t, f.id)
         [] f.t = "answer" -> IF t.id = f.id THEN [t EXCEPT !.remote = TRUE] ELSE t
         [] f.t = "accepted" -> IF t.ui = "calling" THEN [t EXCEPT !.ui = "connecting"] ELSE t
         [] f.t = "bye" -> IdleTab
         [] f.t = "over" -> IF t.id = f.id THEN IdleTab ELSE t]
  /\ IF busy /\ Has(u, f.id) THEN Relay(u, f.id, "reject", "over") ELSE UNCHANGED sig
  /\ UNCHANGED <<hubVars, provisions, dialling, open, faults>>

(* The websocket drops with what was on it; the tab opens another with a   *)
(* new ticket, says hello and asks for its call (onClientResume).          *)
Drop(u) ==
  /\ open[u] /\ Fault /\ open' = [open EXCEPT ![u] = FALSE]
  /\ frames' = [frames EXCEPT ![u] = <<>>]
  /\ UNCHANGED <<hubVars, provisions, sig, tab, dialling>>

Reconnect(u) ==
  LET c == tab[u].id IN
  /\ ~open[u] /\ open' = [open EXCEPT ![u] = TRUE]
  /\ frames' = [frames EXCEPT ![u] =
       IF c # NoId /\ ~Has(u, c) THEN <<[t |-> "over", id |-> c]>> ELSE <<>>]
  /\ UNCHANGED <<hubVars, provisions, sig, tab, dialling, faults>>

-----------------------------------------------------------------------------
HubStep(u) ==
  \/ \E c \in Ids : InviteReady(u, c) \/ RingReady(u, c)
  \/ OnFrame(u)

Next ==
  \/ \E u \in Users :
       \/ HubStep(u) \/ Evict(u)
       \/ StartCall(u) \/ \E ok \in BOOLEAN : Placed(u, ok)
       \/ MakeOffer(u) \/ Accept(u) \/ SendAnswer(u)
       \/ \E type \in {"reject", "cancel"} : Leave(u, type)
       \/ MediaFlows(u) \/ MediaFails(u) \/ Drop(u) \/ Reconnect(u)
       \/ \E c \in Ids : Tick(u, c)
  \/ \E s \in sig :
       \/ \E ok \in BOOLEAN : PeerOffer(s, ok) \/ PeerSignal(s, ok)
       \/ Ignored(s) \/ Lost(s) \/ Settle(s)

Spec == Init /\ [][Next]_vars

TypeOK ==
  /\ \A u \in Users, c \in Ids :
       /\ hub[u][c].st \in {"none", "ringing", "connecting"}
       /\ row[u][c] \in {"none", "ringing", "connecting", "over"}
  /\ \A s \in sig : s.stage \in {"sent", "held", "ok", "fail"} /\ s.id \in Ids
  /\ \A u \in Users : tab[u].id \in Ids \union {NoId}

(* The hubs agree on how far a call is, whatever is lost or late: a hub    *)
(* rings only for a call its peer has, and takes a call for connecting     *)
(* only when the other side has accepted it, so that its alarm cannot      *)
(* record a call the caller is in as missed (onClientOffer, onClientAccept,*)
(* onPeerAccept).                                                          *)
HubsAgree ==
  \A u \in Users, c \in Ids :
    /\ hub[u][c].dir = "incoming" => row[Peer(u)][c] # "none"
    /\ hub[u][c].dir = "outgoing" /\ hub[u][c].st = "connecting" =>
         row[Peer(u)][c] \in {"connecting", "over"}

=============================================================================
