------------------------------ MODULE Realtime ------------------------------
(***************************************************************************)
(* The realtime stream of one user: the numbered events and the ring       *)
(* buffer of the user's Durable Object (runtime/realtime-stream.ts,        *)
(* runtime/realtime-stream-do.ts), its one-time tickets                    *)
(* (runtime/one-time-ticket.ts), and a browser that connects, drops and    *)
(* connects again (packages/api/src/lib/realtime-client.ts).  The object   *)
(* handles one request at a time; frames under way are lost with their     *)
(* socket.  What an event says is left out.                                *)
(***************************************************************************)
EXTENDS Naturals, Sequences, FiniteSets

CONSTANTS
  Retain,         \* EVENT_BUFFER_SIZE (200)
  MaxOutstanding, \* DEFAULT_MAX_OUTSTANDING of tickets (8)
  MaxEvents,      \* bound: events
  MaxTickets,     \* bound: tickets
  MaxDown         \* bound: frames on their way to the browser

VARIABLES
  seq, buffer,    \* head of the stream, and the events kept
  tickets, minted,\* live tickets, numbered as they were made, and how many
  socket,         \* the object has the browser's socket
  hello,          \* hellos on their way to the object
  down,           \* frames on their way to the browser
  client,         \* [st, ticket, last, greeted, early, base]
  known,          \* events the browser has been given, or has fetched
  skipped         \* events no replay will bring: see Drop

vars == <<seq, buffer, tickets, minted, socket, hello, down, client, known, skipped>>
server == <<seq, buffer, tickets, minted>>

Undefined == MaxEvents + 1      \* lastEventId before the first hello_ok
Unstarted == [st |-> "idle", ticket |-> 0, last |-> Undefined,
              greeted |-> FALSE, early |-> FALSE, base |-> FALSE]
MaxOf(a, b) == IF a >= b THEN a ELSE b

Init ==
  /\ seq = 0 /\ buffer = {} /\ tickets = {} /\ minted = 0
  /\ socket = FALSE /\ hello = <<>> /\ down = <<>>
  /\ client = Unstarted /\ known = {} /\ skipped = {}

-----------------------------------------------------------------------------
(* The object.                                                             *)

Send(frames) == down' = IF socket THEN down \o frames ELSE down
Event(i) == [t |-> "event", id |-> i]

(* handleEmit: the next number, the ring buffer, and a broadcast.          *)
Emit ==
  /\ seq < MaxEvents /\ Len(down) < MaxDown
  /\ seq' = seq + 1
  /\ buffer' = (buffer \union {seq + 1}) \ (IF seq + 1 > Retain THEN {seq + 1 - Retain} ELSE {})
  /\ Send(<<Event(seq + 1)>>)
  /\ UNCHANGED <<tickets, minted, socket, hello, client, known, skipped>>

OldestBuffered == IF seq >= Retain THEN seq - Retain + 1 ELSE 1

(* Mutant of Replayable: one event further back than the buffer goes.      *)
ReplayableOneMore(last) == last + 2 >= OldestBuffered
(* The gap of a client that has seen last is in the buffer.                *)
Replayable(last) == last + 1 >= OldestBuffered

InOrder(S) ==
  CHOOSE q \in [1..Cardinality(S) -> S] : \A i, j \in DOMAIN q : i < j => q[i] < q[j]

Replay(last) ==
  LET kept == InOrder({i \in buffer : i > last})
  IN [i \in DOMAIN kept |-> Event(kept[i])]

(* socketMessage, a hello: the gap, or a resync when it is too old.        *)
Hello ==
  LET last == Head(hello)
      gap == IF last >= seq THEN <<>>
             ELSE IF Replayable(last) THEN Replay(last) ELSE <<[t |-> "resync", id |-> 0]>>
  IN /\ hello # <<>> /\ hello' = Tail(hello)
     /\ Send(gap \o <<[t |-> "hello_ok", id |-> seq]>>)
     /\ UNCHANGED <<seq, buffer, tickets, minted, socket, client, known, skipped>>

Oldest == CHOOSE t \in tickets : \A u \in tickets : t <= u
(* mintOneTimeTicket: with all of them out, the oldest makes room.         *)
Minted ==
  (IF Cardinality(tickets) < MaxOutstanding THEN tickets ELSE tickets \ {Oldest})
    \union {minted + 1}

(* Another tab of the user has one made.                                   *)
OtherMints ==
  /\ minted < MaxTickets /\ minted' = minted + 1 /\ tickets' = Minted
  /\ UNCHANGED <<seq, buffer, socket, hello, down, client, known, skipped>>

TicketExpires ==
  /\ tickets # {} /\ tickets' = tickets \ {Oldest}
  /\ UNCHANGED <<seq, buffer, minted, socket, hello, down, client, known, skipped>>

-----------------------------------------------------------------------------
(* The browser.                                                            *)

Become(st) == client' = [client EXCEPT !.st = st]

Start ==
  /\ client.st = "idle" /\ Become("config")
  /\ UNCHANGED <<server, socket, hello, down, known, skipped>>

(* stop: what is under way is of an older generation.                      *)
Stop ==
  /\ client.st # "idle" /\ client' = Unstarted
  /\ socket' = FALSE /\ hello' = <<>> /\ down' = <<>>
  /\ known' = {} /\ skipped' = {}
  /\ UNCHANGED server

(* connect asks whether there is a stream ...                              *)
Configured(answer) ==
  /\ client.st = "config"
  /\ Become(CASE answer = "available" -> "ticket" [] answer = "failed" -> "waiting"
              [] OTHER -> "unavailable")
  /\ UNCHANGED <<server, socket, hello, down, known, skipped>>

(* ... for a ticket ...                                                    *)
Ticketed(answer) ==
  /\ client.st = "ticket"
  /\ CASE answer = "ok" ->
            /\ minted < MaxTickets /\ minted' = minted + 1 /\ tickets' = Minted
            /\ client' = [client EXCEPT !.st = "opening", !.ticket = minted + 1]
       [] answer = "unauthorized" -> Become("unavailable") /\ UNCHANGED <<tickets, minted>>
       [] OTHER -> Become("waiting") /\ UNCHANGED <<tickets, minted>>
  /\ UNCHANGED <<seq, buffer, socket, hello, down, known, skipped>>

(* ... and opens a socket with it.  consumeOneTimeTicket deletes it, and   *)
(* onopen says what the browser has.                                       *)
Opens ==
  /\ client.st = "opening"
  /\ tickets' = tickets \ {client.ticket}
  /\ IF client.ticket \in tickets
     THEN /\ socket' = TRUE /\ hello' = <<client.last>>
          /\ client' = [client EXCEPT !.st = "open", !.greeted = FALSE, !.early = FALSE]
     ELSE Become("waiting") /\ UNCHANGED <<socket, hello>>
  /\ UNCHANGED <<seq, buffer, minted, down, known, skipped>>

(* scheduleReconnect.                                                      *)
Reconnect ==
  /\ client.st = "waiting" /\ Become("config")
  /\ UNCHANGED <<server, socket, hello, down, known, skipped>>

(* onmessage.  A resync makes the product fetch everything again, as it    *)
(* did when it first connected.                                            *)
Receive ==
  LET f == Head(down)
      had == IF client.last = Undefined THEN 0 ELSE client.last
  IN
  /\ client.st = "open" /\ down # <<>> /\ down' = Tail(down)
  /\ CASE f.t = "event" ->
            /\ client' = [client EXCEPT !.last = MaxOf(had, f.id), !.early = ~client.greeted]
            /\ known' = known \union {f.id} /\ UNCHANGED skipped
       [] f.t = "resync" ->
            known' = 1..seq /\ skipped' = {} /\ UNCHANGED client
       [] OTHER ->
            /\ client' = [client EXCEPT !.last = MaxOf(had, f.id), !.greeted = TRUE,
                                        !.base = TRUE]
            /\ known' = IF client.base THEN known ELSE known \union 1..f.id
            /\ UNCHANGED skipped
  /\ UNCHANGED <<server, socket, hello>>

(* The socket goes: closed, in error, or silent for a minute.  An event    *)
(* may come before the hello is answered; the browser then names it in its *)
(* next hello, and what it missed before that event is not sent any more.  *)
Drop ==
  /\ client.st = "open" /\ Become("waiting")
  /\ socket' = FALSE /\ hello' = <<>> /\ down' = <<>>
  /\ skipped' = IF client.base /\ client.early /\ ~client.greeted
                  THEN skipped \union ((1..client.last) \ known) ELSE skipped
  /\ UNCHANGED <<server, known>>

-----------------------------------------------------------------------------
Next ==
  \/ Emit \/ Hello \/ OtherMints \/ TicketExpires
  \/ Start \/ Stop \/ Opens \/ Reconnect \/ Receive \/ Drop
  \/ \E a \in {"available", "unavailable", "failed"} : Configured(a)
  \/ \E a \in {"ok", "unauthorized", "failed"} : Ticketed(a)

Spec == Init /\ [][Next]_vars

TypeOK ==
  /\ seq \in 0..MaxEvents /\ buffer \subseteq 1..seq /\ Cardinality(buffer) <= Retain
  /\ Cardinality(tickets) <= MaxOutstanding /\ minted \in 0..MaxTickets
  /\ socket \in BOOLEAN /\ skipped \subseteq 1..seq
  /\ client.last \in 0..Undefined /\ known \subseteq 1..MaxEvents

(* A browser that is greeted has every event of the stream, by broadcast,  *)
(* by replay or by a fetch after resync, wherever its sockets dropped,     *)
(* except what came before an event that reached it on a socket which was  *)
(* gone before the hello was answered (socketMessage, onmessage).          *)
CaughtUp ==
  client.st = "open" /\ client.greeted /\ down = <<>>
    => 1..seq \subseteq known \union skipped

=============================================================================
