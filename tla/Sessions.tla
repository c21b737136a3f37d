------------------------------ MODULE Sessions ------------------------------
(***************************************************************************)
(* Signing in: routes/auth.ts and routes/auth-helpers.ts with              *)
(* lib/auth-lockout.ts, lib/oauth-utils.ts, lib/oauth-providers.ts,        *)
(* lib/oidc-id-token.ts and lib/session-actor.ts.  A login finds or makes  *)
(* the actor and then gives it a session; between any two of its           *)
(* statements the account may be deleted and its handle taken again by     *)
(* somebody else (a tombstone is revived with new keys).                   *)
(*                                                                         *)
(* An identity is the generation of a row: what its public key and         *)
(* takosUserId say.  Password hashes, tokens and JWTs are verdicts.        *)
(***************************************************************************)
EXTENDS Naturals, FiniteSets

CONSTANTS
  Browsers,     \* clients, each with a cookie jar and one request at a time
  Subjects,     \* OAuth subjects, as providerId:id
  Tako, Base,   \* the handle of the password owner, and of the subjects
  Spare,        \* handles resolveUniqueUsername may go on to
  OwnerSub,     \* OIDC_OWNER_SUB, or NoSub
  Allowed,      \* OIDC_ALLOWED_SUBS
  Unpinned,     \* ALLOW_UNPINNED_OWNER_CLAIM
  SingleOwner,  \* env.singleOwner
  MaxFailed,    \* maxFailedAttempts (5)
  MaxSubs,      \* MAX_SUB_ACCOUNTS (20)
  MaxGens,      \* bound: identities
  MaxRequests   \* bound: requests

Handles == {Tako, Base} \union Spare
NoSub == "null"
Password == "password:owner"
Nobody == [st |-> "none", sub |-> NoSub, gen |-> 0, role |-> "member", root |-> "null"]
Idle == [at |-> "idle", kind |-> "cookie", by |-> NoSub, h |-> Tako, gen |-> 0,
         role |-> "member", root |-> "null", src |-> {}, n |-> 0, no |-> 0, own |-> FALSE]

VARIABLES
  rows,         \* [Handles -> row of actors]
  reserved,     \* account_deletion_targets
  sessions,     \* [id, of, gen, by]: by and gen are who signed in
  cookie,       \* [Browsers -> id of the session in the cookie, 0 for none]
  states,       \* browsers whose OAuth state is in the KV store
  lock,         \* the lockout record of the address: [n, locked]
  req,          \* [Browsers -> the request under way]
  gens,         \* identities made so far
  begun         \* requests so far

vars == <<rows, reserved, sessions, cookie, states, lock, req, gens, begun>>

Open == [n |-> 0, locked |-> FALSE]

Init ==
  /\ rows = [h \in Handles |-> Nobody] /\ reserved = {} /\ sessions = {}
  /\ cookie = [b \in Browsers |-> 0] /\ states = {} /\ lock = Open
  /\ req = [b \in Browsers |-> Idle] /\ gens = 0 /\ begun = 0

Live(h) == h \in Handles /\ rows[h].st = "live"
Owners == {h \in Handles : Live(h) /\ rows[h].role = "owner"}
NotReserved(h) == h \notin reserved /\ rows[h].root \notin reserved
Identity(h) == [h |-> h, gen |-> rows[h].gen]

(* actorIdentityMatches: keys and subject are the ones that were read.     *)
IdentityMatches(id) == Live(id.h) /\ rows[id.h].gen = id.gen /\ NotReserved(id.h)

(* resolveUniqueUsername.                                                  *)
UniqueUsername(base) == IF ~Live(base) THEN {base} ELSE {h \in Spare : ~Live(h)}

Go(b, r) == req' = [req EXCEPT ![b] = r]
End(b) == Go(b, Idle)

(* A request that is not answered at once.                                 *)
Begin(b, r) ==
  /\ req[b] = Idle /\ begun < MaxRequests /\ begun' = begun + 1
  /\ Go(b, [r EXCEPT !.no = begun + 1])

(* The request goes on to rotateSession for the actor read.                *)
Rotate(b, r, h) == Go(b, [r EXCEPT !.at = "delete", !.h = h, !.gen = rows[h].gen])
(* The request goes on to createActor.                                     *)
Create(b, r, h, role, root) ==
  Go(b, [r EXCEPT !.at = "create", !.h = h, !.role = role, !.root = root])

-----------------------------------------------------------------------------
(* POST /login and /mobile/login.                                          *)

(* A right password, and the address is not locked out.                    *)
Login(b, kind) ==
  /\ ~lock.locked
  /\ Begin(b, [Idle EXCEPT !.at = "owner", !.kind = kind, !.by = Password])
  /\ UNCHANGED <<rows, reserved, sessions, cookie, states, lock, gens>>

(* A wrong one: recordFailedLoginAttempt reads the record ...              *)
LoginFails(b) ==
  /\ ~lock.locked
  /\ Begin(b, [Idle EXCEPT !.at = "failed", !.n = lock.n])
  /\ UNCHANGED <<rows, reserved, sessions, cookie, states, lock, gens>>

(* ... and writes it, over what another request wrote.                     *)
RecordFailed(b) ==
  /\ req[b].at = "failed"
  /\ lock' = [n |-> req[b].n + 1, locked |-> req[b].n + 1 >= MaxFailed]
  /\ End(b)
  /\ UNCHANGED <<rows, reserved, sessions, cookie, states, gens, begun>>

LockoutExpires ==
  /\ lock # Open /\ lock' = Open
  /\ UNCHANGED <<rows, reserved, sessions, cookie, states, req, gens, begun>>

(* getPasswordOwner: the owner there is, or one to be made.                *)
PasswordOwner(b) ==
  /\ req[b].at = "owner"
  /\ IF Owners = {}
     THEN \E h \in (IF SingleOwner THEN UniqueUsername(Tako) ELSE {Tako}) :
            Create(b, req[b], h, "owner", "null")
     ELSE \E h \in Owners :
            IF NotReserved(h) /\ (SingleOwner => Owners = {h})
            THEN Rotate(b, req[b], h) ELSE End(b)
  /\ UNCHANGED <<rows, reserved, sessions, cookie, states, lock, gens, begun>>

-----------------------------------------------------------------------------
(* OAuth and OIDC.                                                         *)

(* The takosumi claim of an id token: the role in the app, and the role in *)
(* the Workspace that older issuers send instead.                          *)
Roles == {"none", "owner", "member", "malformed"}
Claims == [app : Roles, workspace : Roles]

(* parseTakosumiAppGrant: a malformed role in the app refuses the claim, a *)
(* malformed role in the Workspace only where there is none in the app.    *)
Granted(c) ==
  c.app # "malformed" /\ (c.workspace = "malformed" => c.app # "none")
(* takosumiGrantIsAppOwner.                                                *)
IsAppOwner(c) ==
  Granted(c) /\ (IF c.app # "none" THEN c.app = "owner" ELSE c.workspace = "owner")

(* GET /login/:provider: state in the KV store, nonce in the cookie.       *)
OAuthStart(b) ==
  /\ req[b] = Idle /\ begun < MaxRequests /\ begun' = begun + 1
  /\ states' = states \union {b}
  /\ UNCHANGED <<rows, reserved, sessions, cookie, lock, req, gens>>

(* GET /callback/:provider with the state of browser o: used once, by the  *)
(* browser that has its nonce; the provider then vouches for s.            *)
OAuthCallback(b, o, s, c) ==
  /\ o \in states /\ states' = states \ {o}
  /\ IF o = b THEN Begin(b, [Idle EXCEPT !.at = "find", !.by = s, !.own = IsAppOwner(c)])
     ELSE UNCHANGED <<req, begun>>
  /\ UNCHANGED <<rows, reserved, sessions, cookie, lock, gens>>

(* POST /mobile/oidc: verifyOidcIdToken vouches for s.                     *)
MobileOidc(b, s, c) ==
  /\ Begin(b, [Idle EXCEPT !.at = "find", !.by = s, !.kind = "bearer",
                             !.own = IsAppOwner(c)])
  /\ UNCHANGED <<rows, reserved, sessions, cookie, states, lock, gens>>

Of(s) == {h \in Handles : rows[h].sub = s}
First == IF SingleOwner THEN Owners = {} ELSE \A h \in Handles : rows[h].st = "none"

(* createActorFromOAuth: who may take the owner slot, who may join.        *)
Admitted(s, own) ==
  IF First THEN IF OwnerSub # NoSub THEN s = OwnerSub ELSE Unpinned \/ own
  ELSE s = OwnerSub \/ s \in Allowed

(* findOrCreateOAuthActor up to createActor.                               *)
Find(b) ==
  LET s == req[b].by IN
  /\ req[b].at = "find"
  /\ IF Of(s) # {}
     THEN \E h \in Of(s) : IF NotReserved(h) THEN Rotate(b, req[b], h) ELSE End(b)
     ELSE IF Admitted(s, req[b].own)
     THEN \E h \in UniqueUsername(Base) :
            Create(b, req[b], h, IF First THEN "owner" ELSE "member", "null")
     ELSE End(b)
  /\ UNCHANGED <<rows, reserved, sessions, cookie, states, lock, gens, begun>>

-----------------------------------------------------------------------------
(* createActor.                                                            *)

(* It reads the tombstone that may have the handle.                        *)
ReadTombstone(b) ==
  LET r == req[b] IN
  /\ r.at = "create"
  /\ IF NotReserved(r.h) /\ r.root \notin reserved
     THEN Go(b, [r EXCEPT !.at = IF rows[r.h].st = "dead" THEN "revive" ELSE "insert",
                          !.gen = rows[r.h].gen])
     ELSE End(b)
  /\ UNCHANGED <<rows, reserved, sessions, cookie, states, lock, gens, begun>>

SubOf(r) == IF r.kind = "add" THEN r.h ELSE r.by

(* Mutant of NoLiveOwner: the claim is not guarded.                        *)
NoLiveOwnerUnguarded(r) == TRUE
(* noLiveOwner: one statement checks and writes.                           *)
NoLiveOwner(r) == SingleOwner /\ r.role = "owner" => Owners = {}

(* The insert, or the revival of the tombstone read, goes through.         *)
Claimable(r) ==
  /\ NoLiveOwner(r)
  /\ Of(SubOf(r)) = {}
  /\ \A src \in r.src : IdentityMatches(src)
  /\ IF r.at = "insert" THEN rows[r.h].st = "none"
     ELSE rows[r.h].st = "dead" /\ rows[r.h].gen = r.gen /\ NotReserved(r.h)

(* What is done about a claim that was lost: the winner is read again.     *)
Lost(b, r) ==
  LET winners == CASE r.kind = "add" -> {}
                   [] r.by = Password -> IF SingleOwner THEN Owners ELSE {}
                   [] OTHER -> {h \in Of(r.by) : Live(h)}
  IN IF Cardinality(winners) = 1 THEN \E h \in winners : Rotate(b, r, h) ELSE End(b)

Claim(b) ==
  LET r == req[b] IN
  /\ r.at \in {"insert", "revive"}
  /\ IF Claimable(r)
     THEN /\ gens < MaxGens /\ gens' = gens + 1
          /\ rows' = [rows EXCEPT ![r.h] =
               [st |-> "live", sub |-> SubOf(r), gen |-> gens + 1, role |-> r.role, root |-> r.root]]
          /\ sessions' = {s \in sessions : s.of # r.h \/ r.at = "insert"}
          /\ IF r.kind = "add" THEN End(b)
             ELSE Go(b, [r EXCEPT !.at = "delete", !.gen = gens + 1])
     ELSE Lost(b, r) /\ UNCHANGED <<rows, sessions, gens>>
  /\ UNCHANGED <<reserved, cookie, states, lock, begun>>

-----------------------------------------------------------------------------
(* rotateSession: both writes check the identity the login has read.       *)

Current(r) == IdentityMatches([h |-> r.h, gen |-> r.gen])
              /\ \A src \in r.src : IdentityMatches(src)

(* The session of the cookie goes first.                                   *)
DropSession(b) ==
  /\ req[b].at = "delete"
  /\ IF Current(req[b])
     THEN /\ Go(b, [req[b] EXCEPT !.at = "session"])
          /\ sessions' = {s \in sessions : s.id # cookie[b]}
          /\ cookie' = [cookie EXCEPT ![b] = 0]
     ELSE End(b) /\ UNCHANGED <<sessions, cookie>>
  /\ UNCHANGED <<rows, reserved, states, lock, gens, begun>>

(* The new session, and for a password the lockout is forgotten.           *)
AddSession(b) ==
  LET r == req[b] IN
  /\ r.at = "session" /\ End(b)
  /\ IF Current(r)
     THEN /\ sessions' = sessions \union
               {[id |-> r.no, of |-> r.h, gen |-> r.gen, by |-> r.by]}
          /\ cookie' = IF r.kind = "bearer" THEN cookie ELSE [cookie EXCEPT ![b] = r.no]
          /\ lock' = IF r.by = Password THEN Open ELSE lock
     ELSE UNCHANGED <<sessions, cookie, lock>>
  /\ UNCHANGED <<rows, reserved, states, gens, begun>>

-----------------------------------------------------------------------------
(* Signed-in requests.                                                     *)

(* extractActorFromSession and admitSessionRequest: the session's actor.   *)
Actor(b) == {s.of : s \in {s \in sessions :
               s.id = cookie[b] /\ Live(s.of) /\ NotReserved(s.of)}}
RootOf(h) == IF rows[h].root = "null" THEN h ELSE rows[h].root

(* POST /switch, to an account of the same root.                           *)
Switch(b, to) ==
  /\ \E h \in Actor(b) :
       /\ Live(to) /\ (to = RootOf(h) \/ rows[to].root = RootOf(h))
       /\ Begin(b, [Idle EXCEPT !.at = "delete", !.by = "switch", !.src = {Identity(h)},
                               !.h = to, !.gen = rows[to].gen])
  /\ UNCHANGED <<rows, reserved, sessions, cookie, states, lock, gens>>

(* POST /accounts.                                                         *)
AddAccount(b, name) ==
  /\ \E h \in Actor(b) :
       /\ rows[RootOf(h)].role = "owner" /\ ~Live(name)
       /\ Cardinality({k \in Handles : rows[k].root = RootOf(h)}) < MaxSubs
       /\ Begin(b, [Idle EXCEPT !.at = "create", !.kind = "add", !.src = {Identity(h)},
                               !.h = name, !.root = RootOf(h)])
  /\ UNCHANGED <<rows, reserved, sessions, cookie, states, lock, gens>>

(* POST /logout, or the session has expired.                               *)
Logout(s) ==
  /\ sessions' = sessions \ {s}
  /\ UNCHANGED <<rows, reserved, cookie, states, lock, req, gens, begun>>

-----------------------------------------------------------------------------
(* Account deletion (AccountDeletion), as far as sessions see it.          *)

(* reserve: the root and its sub-accounts.                                 *)
Reserve(h) ==
  /\ Live(h) /\ rows[h].root = "null" /\ h \notin reserved
  /\ reserved' = reserved \union {h} \union {k \in Handles : Live(k) /\ rows[k].root = h}
  /\ UNCHANGED <<rows, sessions, cookie, states, lock, req, gens, begun>>

(* finalize: tombstones, and their sessions go in the same batch.          *)
Finalize(h) ==
  LET gone == {k \in reserved : k = h \/ rows[k].root = h} IN
  /\ h \in reserved /\ rows[h].root = "null"
  /\ rows' = [k \in Handles |-> IF k \in gone
       THEN [Nobody EXCEPT !.st = "dead", !.gen = rows[k].gen] ELSE rows[k]]
  /\ sessions' = {s \in sessions : s.of \notin gone}
  /\ reserved' = reserved \ gone
  /\ UNCHANGED <<cookie, states, lock, req, gens, begun>>

(* The reaper of old tombstones.                                           *)
Reap(h) ==
  /\ rows[h].st = "dead" /\ h \notin reserved
  /\ rows' = [rows EXCEPT ![h] = Nobody]
  /\ UNCHANGED <<reserved, sessions, cookie, states, lock, req, gens, begun>>

Next ==
  \/ \E b \in Browsers :
       \/ \E kind \in {"cookie", "bearer"} : Login(b, kind)
       \/ LoginFails(b) \/ RecordFailed(b) \/ PasswordOwner(b) \/ OAuthStart(b)
       \/ \E o \in Browsers, s \in Subjects, c \in Claims : OAuthCallback(b, o, s, c)
       \/ \E s \in Subjects, c \in Claims : MobileOidc(b, s, c)
       \/ Find(b) \/ ReadTombstone(b) \/ Claim(b) \/ DropSession(b) \/ AddSession(b)
       \/ \E h \in Handles : Switch(b, h) \/ AddAccount(b, h)
  \/ \E s \in sessions : Logout(s)
  \/ \E h \in Handles : Reserve(h) \/ Finalize(h) \/ Reap(h)
  \/ LockoutExpires

Spec == Init /\ [][Next]_vars

TypeOK ==
  /\ \A h \in Handles : rows[h].st \in {"none", "live", "dead"} /\ rows[h].gen \in 0..MaxGens
  /\ reserved \subseteq Handles /\ states \subseteq Browsers
  /\ \A s \in sessions : s.id \in 1..MaxRequests /\ s.of \in Handles
  /\ lock.n \in 0..MaxFailed

(* A session always belongs to who signed in: its actor is live and has    *)
(* the keys and the subject the login has read, also when the account was  *)
(* deleted and its handle taken again during the login (rotateSession's    *)
(* guard, finalize, the revival in createActor).                           *)
SessionsIdentified ==
  \A s \in sessions :
    /\ Live(s.of) /\ rows[s.of].gen = s.gen
    /\ s.by \in Subjects => rows[s.of].sub = s.by

(* With singleOwner, whatever logins run at the same time, there is never  *)
(* a second live owner (noLiveOwner).                                      *)
OneOwner == SingleOwner => Cardinality(Owners) <= 1
=============================================================================
