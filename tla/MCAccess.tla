------------------------------ MODULE MCAccess ------------------------------
(***************************************************************************)
(* Who is let in and what is shown: the surfaces that show an object, with *)
(* the read gate for a reply to it, the sessions of a server, and the      *)
(* notification list of one account.  The parts share no state; a          *)
(* behaviour is one of the part it begins with, and the others stay in     *)
(* their initial states.                                                   *)
(***************************************************************************)
EXTENDS Visibility

CONSTANTS
  Browsers, Subjects, Tako, Base, Spare, OwnerSub, Allowed, Unpinned,
  SingleOwner, MaxFailed, MaxSubs, MaxGens, MaxRequests,
  MaxRows, MaxTime, Limit, CleanupBatch, Workers

VARIABLES
  part,
  rows, reserved, sessions, cookie, states, lock, req, gens, begun,
  inbox, sent, archived, hidden, now, clean, ran, put, walk

Login == INSTANCE Sessions
List == INSTANCE NotificationList

(* A subject is a provider and an id, so it is none of the other names a   *)
(* session may be of; and the limits the code has are positive.            *)
ASSUME AccessAssumption ==
  /\ {MaxFailed, Limit} \subseteq Nat \ {0}
  /\ {MaxGens, MaxRequests, MaxRows, MaxTime, CleanupBatch} \subseteq Nat
  /\ {Login!NoSub, Login!Password, "switch"} \cap Subjects = {}

loginVars == <<rows, reserved, sessions, cookie, states, lock, req, gens, begun>>
listVars == <<inbox, sent, archived, hidden, now, clean, ran, put, walk>>

(* A part that does not run has no state.                                  *)
NoLogin ==
  /\ rows = 0 /\ reserved = 0 /\ sessions = 0 /\ cookie = 0 /\ states = 0
  /\ lock = 0 /\ req = 0 /\ gens = 0 /\ begun = 0
NoList ==
  /\ inbox = 0 /\ sent = 0 /\ archived = 0 /\ hidden = 0 /\ now = 0 /\ clean = 0
  /\ ran = 0 /\ put = 0 /\ walk = 0

MCInit ==
  /\ Init
  /\ \/ part = "surfaces" /\ NoLogin /\ NoList
     \/ part = "login" /\ Login!Init /\ NoList
     \/ part = "list" /\ NoLogin /\ List!Init

SurfaceStep ==
  part = "surfaces" /\ Next /\ UNCHANGED <<part, loginVars, listVars>>
LoginStep == part = "login" /\ Login!Next /\ UNCHANGED <<part, vars, listVars>>
ListStep == part = "list" /\ List!Next /\ UNCHANGED <<part, vars, loginVars>>

MCNext == SurfaceStep \/ LoginStep \/ ListStep

MCSpec == MCInit /\ [][MCNext]_<<part, vars, loginVars, listVars>>

(* Every surface is as strict as the read gate (Visibility).               *)
SurfacesSound == TypeOK /\ SurfacesReadable

(* A session belongs to the identity that signed in, although handles are  *)
(* freed and taken again, and a server with a single owner has one, however*)
(* first logins race (Sessions).                                           *)
LoginIsSound ==
  part = "login" =>
    Login!TypeOK /\ Login!SessionsIdentified /\ Login!OneOwner

(* What the account archived never comes back by itself, and a walk        *)
(* through the pages misses nothing that stayed (NotificationList).        *)
ListIsSteady ==
  part = "list" =>
    List!TypeOK /\ List!ArchivedStaysAway /\ List!WalkIsComplete
=============================================================================
