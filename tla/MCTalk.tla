------------------------------- MODULE MCTalk -------------------------------
(***************************************************************************)
(* Calls and the realtime stream: the two hubs that negotiate calls, the   *)
(* relay of one call, and the stream of one browser.  The parts share no   *)
(* state; a behaviour is one of the part it begins with, and the others    *)
(* stay in their initial states.                                           *)
(***************************************************************************)
EXTENDS CallSignaling

CONSTANTS
  Effects, MaxGen, MaxPending, MaxJobs,
  Retain, MaxOutstanding, MaxEvents, MaxTickets, MaxDown

(* The limits of the relay and of the stream are numbers; at least one     *)
(* ticket may be out.                                                      *)
ASSUME RelayAssumption ==
  IsFiniteSet(Effects) /\ {MaxGen, MaxPending, MaxJobs} \subseteq Nat
ASSUME StreamAssumption ==
  /\ {Retain, MaxEvents, MaxTickets, MaxDown} \subseteq Nat
  /\ MaxOutstanding \in Nat \ {0}

VARIABLES
  part,
  call, journal, used, jobs, slots, worker, taken,
  seq, buffer, tickets, minted, socket, hello, down, client, known, skipped

Relaying == INSTANCE CallRelay
Stream == INSTANCE Realtime

relayVars == <<call, journal, used, jobs, slots, worker, taken>>
streamVars == <<seq, buffer, tickets, minted, socket, hello, down, client,
                known, skipped>>

(* A part that does not run has no state.                                  *)
NoStream ==
  /\ seq = 0 /\ buffer = 0 /\ tickets = 0 /\ minted = 0 /\ socket = 0 /\ hello = 0
  /\ down = 0 /\ client = 0 /\ known = 0 /\ skipped = 0

MCInit ==
  /\ Init /\ Relaying!Init
  /\ \/ part \in {"hubs", "relay"} /\ NoStream
     \/ part = "stream" /\ Stream!Init

HubsStep == part = "hubs" /\ Next /\ UNCHANGED <<part, relayVars, streamVars>>
RelayStep ==
  part = "relay" /\ Relaying!Next /\ UNCHANGED <<part, vars, streamVars>>
StreamStep ==
  part = "stream" /\ Stream!Next /\ UNCHANGED <<part, vars, relayVars>>

MCNext == HubsStep \/ RelayStep \/ StreamStep

MCSpec == MCInit /\ [][MCNext]_<<part, vars, relayVars, streamVars>>

(* The hubs agree on how far a call is, whatever is lost or late           *)
(* (CallSignaling).                                                        *)
CallsAgree == TypeOK /\ HubsAgree

(* The dispatcher's slots are held by the jobs under way, and a result of  *)
(* an earlier call with the same id never ends the call that has it now.   *)
RelayIsOwn ==
  /\ [](part = "relay" => Relaying!TypeOK /\ Relaying!SlotsMatch)
  /\ Relaying!OwnGenerationOnly

(* A browser that was told it caught up has every event of the stream but  *)
(* those its early events made it skip (Realtime).                         *)
CaughtUp == part = "stream" => Stream!TypeOK /\ Stream!CaughtUp
=============================================================================
