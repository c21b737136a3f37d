---------------------------- MODULE AccessProofs ----------------------------
(***************************************************************************)
(* Proofs about who is let in and what is shown (MCAccess): the sessions   *)
(* and the single owner of a server, the notification list of an account,  *)
(* and the read gate with the surfaces that must be as strict.  Each part  *)
(* has an invariant of its own.                                            *)
(***************************************************************************)
EXTENDS MCAccess, FiniteSetTheorems, WellFoundedInduction, TLAPS

-----------------------------------------------------------------------------
(* Sessions.  The inductive invariant.                                     *)

Names == Subjects \union {Login!Password, "switch", Login!NoSub}
Roots == Login!Handles \union {"null"}
Actors == [st : {"none", "live", "dead"}, sub : Names \union Login!Handles,
           gen : Nat, role : {"owner", "member"}, root : Roots]
Opened == [id : 1..MaxRequests, of : Login!Handles, gen : Nat, by : Names]
Calls == [at : {"idle", "owner", "failed", "find", "create", "insert", "revive",
                "delete", "session"},
          kind : {"cookie", "bearer", "add"}, by : Names, h : Login!Handles,
          gen : Nat, role : {"owner", "member"}, root : Roots,
          src : SUBSET [h : Login!Handles, gen : Nat], n : Nat, no : Nat, own : BOOLEAN]

(* An actor's keys are of an identity that was made.                       *)
RowsMade(table, made) ==
  table \in [Login!Handles -> Actors] /\ \A h \in Login!Handles : table[h].gen <= made

(* A login that is about to open a session for a subject has read an       *)
(* identity, and as long as the handle has that identity it is the         *)
(* subject's.                                                              *)
CallFits(r, table, made) ==
  /\ r.gen <= made
  /\ r.at # "idle" => r.no \in 1..MaxRequests
  /\ r.at = "failed" => r.n < MaxFailed
  /\ r.at = "find" => r.by \in Subjects
  /\ r.at = "owner" \/ r.kind = "add" => r.by \notin Subjects
  /\ r.at \in {"delete", "session"} /\ r.by \in Subjects =>
       LET row == table[r.h] IN
       row.st = "live" /\ row.gen = r.gen => row.sub = r.by

SessionFits(s, table) ==
  LET row == table[s.of] IN
  row.st = "live" /\ row.gen = s.gen /\ (s.by \in Subjects => row.sub = s.by)

LockFits(l) ==
  l \in [n : 0..MaxFailed, locked : BOOLEAN] /\ (~l.locked => l.n < MaxFailed)

OneOwnerIn(table) ==
  SingleOwner => \A g, h \in Login!Handles :
    table[g].st = "live" /\ table[g].role = "owner" /\ table[h].st = "live"
      /\ table[h].role = "owner" => g = h

LoginRows ==
  /\ RowsMade(rows, gens) /\ gens \in 0..MaxGens /\ OneOwnerIn(rows)
  /\ sessions \subseteq Opened /\ \A s \in sessions : SessionFits(s, rows)
LoginCalls ==
  req \in [Browsers -> Calls] /\ \A b \in Browsers : CallFits(req[b], rows, gens)
LoginRest ==
  /\ begun \in 0..MaxRequests /\ LockFits(lock)
  /\ reserved \subseteq Login!Handles /\ states \subseteq Browsers

LoginInv == LoginRows /\ LoginCalls /\ LoginRest

LEMMA AccessNumbers ==
  /\ MaxFailed \in Nat /\ 0 < MaxFailed /\ Limit \in Nat /\ 0 < Limit
  /\ MaxGens \in Nat /\ MaxRequests \in Nat /\ MaxRows \in Nat /\ MaxTime \in Nat
  /\ CleanupBatch \in Nat
BY AccessAssumption

LEMMA NotSubjects ==
  Login!NoSub \notin Subjects /\ Login!Password \notin Subjects /\ "switch" \notin Subjects
BY AccessAssumption

LEMMA TheHandles == Tako \in Login!Handles /\ Base \in Login!Handles
BY DEF Login!Handles

LEMMA IdleIs ==
  /\ Login!Idle \in Calls /\ Login!Idle.at = "idle" /\ Login!Idle.kind = "cookie"
  /\ Login!Idle.by = Login!NoSub /\ Login!Idle.gen = 0
  /\ \A table, made : made \in Nat => CallFits(Login!Idle, table, made)
<1>1. /\ Login!Idle.at = "idle" /\ Login!Idle.kind = "cookie"
      /\ Login!Idle.by = Login!NoSub /\ Login!Idle.gen = 0
  BY DEF Login!Idle
<1>2. Login!Idle \in Calls
  BY TheHandles DEF Login!Idle, Calls, Names, Roots
<1> QED
  BY <1>1, <1>2 DEF CallFits

LEMMA LoginInit == Login!Init => LoginInv
<1> SUFFICES ASSUME Login!Init PROVE LoginInv
  OBVIOUS
<1>1. /\ Login!Nobody \in Actors /\ Login!Nobody.gen = 0 /\ Login!Nobody.st = "none"
  BY DEF Login!Nobody, Actors, Names, Roots
<1>2. LoginRows
  <2>1. /\ rows = [h \in Login!Handles |-> Login!Nobody] /\ gens = 0 /\ sessions = {}
    BY DEF Login!Init
  <2>2. RowsMade(rows, gens)
    BY <1>1, <2>1 DEF RowsMade
  <2>3. OneOwnerIn(rows)
    <3>1. \A h \in Login!Handles : rows[h].st = "none"
      BY <1>1, <2>1
    <3> QED
      BY <3>1 DEF OneOwnerIn
  <2>4. gens \in 0..MaxGens
    BY <2>1, AccessNumbers
  <2> QED
    BY <2>1, <2>2, <2>3, <2>4 DEF LoginRows
<1>3. LoginCalls
  BY IdleIs DEF Login!Init, LoginCalls
<1>4. LoginRest
  BY AccessNumbers DEF Login!Init, LoginRest, LockFits, Login!Open
<1> QED
  BY <1>2, <1>3, <1>4 DEF LoginInv

(* The browser b goes on, the rows stay.                                   *)
LEMMA CallGoesOn ==
  ASSUME LoginInv, NEW b \in Browsers, NEW r \in Calls,
         req' = [req EXCEPT ![b] = r], UNCHANGED <<rows, gens>>,
         CallFits(r, rows, gens)
  PROVE  LoginCalls'
<1>1. req' \in [Browsers -> Calls]
  BY DEF LoginInv, LoginCalls
<1>2. \A c \in Browsers : req'[c] = IF c = b THEN r ELSE req[c]
  BY DEF LoginInv, LoginCalls
<1>3. \A c \in Browsers : CallFits(req'[c], rows, gens)
  BY <1>2 DEF LoginInv, LoginCalls
<1> QED
  BY <1>1, <1>3 DEF LoginCalls

LEMMA RowsStay ==
  ASSUME LoginInv, UNCHANGED <<rows, gens, sessions>> PROVE LoginRows'
BY DEF LoginInv, LoginRows

LEMMA RestStays ==
  ASSUME LoginInv, UNCHANGED <<begun, lock, reserved, states>> PROVE LoginRest'
BY DEF LoginInv, LoginRest

LEMMA CallsStay ==
  ASSUME LoginInv, UNCHANGED <<rows, gens, req>> PROVE LoginCalls'
BY DEF LoginInv, LoginCalls

LEMMA CallIs ==
  ASSUME LoginInv, NEW b \in Browsers
  PROVE  req[b] \in Calls /\ CallFits(req[b], rows, gens) /\ gens \in Nat
BY AccessNumbers DEF LoginInv, LoginCalls, LoginRows

LEMMA RowIs ==
  ASSUME LoginInv, NEW h \in Login!Handles
  PROVE  rows[h] \in Actors /\ rows[h].gen \in Nat /\ rows[h].gen <= gens
BY DEF LoginInv, LoginRows, RowsMade, Actors

(* What a request that begins, ends, rotates or creates has become.        *)
LEMMA EndsFit ==
  ASSUME LoginInv, NEW b \in Browsers, Login!End(b), UNCHANGED <<rows, gens>>
  PROVE  LoginCalls'
<1>1. gens \in Nat /\ Login!Idle \in Calls /\ CallFits(Login!Idle, rows, gens)
  BY CallIs, IdleIs
<1> QED
  BY <1>1, CallGoesOn DEF Login!End, Login!Go

LEMMA BeginsFit ==
  ASSUME LoginInv, NEW b \in Browsers, NEW r \in Calls, Login!Begin(b, r),
         UNCHANGED <<rows, gens, lock, reserved>>, states' \subseteq states,
         r.gen <= gens, r.at # "session", r.at # "delete" \/ r.by \notin Subjects,
         r.at = "failed" => r.n < MaxFailed, r.at = "find" => r.by \in Subjects,
         r.at = "owner" \/ r.kind = "add" => r.by \notin Subjects
  PROVE  LoginCalls' /\ LoginRest'
<1> DEFINE q == [r EXCEPT !.no = begun + 1]
<1>1. begun \in Nat /\ begun + 1 \in 1..MaxRequests
  BY AccessNumbers DEF LoginInv, LoginRest, Login!Begin
<1>2. /\ q \in Calls /\ q.no = begun + 1 /\ q.at = r.at /\ q.by = r.by /\ q.gen = r.gen
      /\ q.n = r.n /\ q.kind = r.kind
  BY <1>1 DEF Calls
<1>3. CallFits(q, rows, gens)
  BY <1>1, <1>2 DEF CallFits
<1>4. req' = [req EXCEPT ![b] = q] /\ begun' = begun + 1
  BY DEF Login!Begin, Login!Go
<1>5. LoginCalls'
  BY <1>2, <1>3, <1>4, CallGoesOn
<1>6. LoginRest'
  BY <1>1, <1>4 DEF LoginInv, LoginRest
<1> QED
  BY <1>5, <1>6

LEMMA RotatesFit ==
  ASSUME LoginInv, NEW b \in Browsers, NEW h \in Login!Handles,
         req[b].at # "idle", Login!Rotate(b, req[b], h), UNCHANGED <<rows, gens>>,
         req[b].by \in Subjects => rows[h].sub = req[b].by
  PROVE  LoginCalls'
<1> DEFINE q == [req[b] EXCEPT !.at = "delete", !.h = h, !.gen = rows[h].gen]
<1>1. req[b] \in Calls /\ CallFits(req[b], rows, gens) /\ rows[h].gen \in Nat
      /\ rows[h].gen <= gens
  BY CallIs, RowIs
<1>2. /\ q \in Calls /\ q.no = req[b].no /\ q.at = "delete" /\ q.by = req[b].by
      /\ q.h = h /\ q.gen = rows[h].gen /\ q.kind = req[b].kind
  BY <1>1 DEF Calls
<1>3. CallFits(q, rows, gens)
  BY <1>1, <1>2 DEF CallFits
<1> QED
  BY <1>2, <1>3, CallGoesOn DEF Login!Rotate, Login!Go

LEMMA CreatesFit ==
  ASSUME LoginInv, NEW b \in Browsers, NEW h \in Login!Handles,
         NEW role \in {"owner", "member"}, req[b].at # "idle",
         Login!Create(b, req[b], h, role, "null"), UNCHANGED <<rows, gens>>
  PROVE  LoginCalls'
<1> DEFINE q == [req[b] EXCEPT !.at = "create", !.h = h, !.role = role, !.root = "null"]
<1>1. req[b] \in Calls /\ CallFits(req[b], rows, gens)
  BY CallIs
<1>2. /\ q \in Calls /\ q.no = req[b].no /\ q.at = "create" /\ q.by = req[b].by
      /\ q.gen = req[b].gen /\ q.kind = req[b].kind
  BY <1>1 DEF Calls, Roots
<1>3. CallFits(q, rows, gens)
  BY <1>1, <1>2 DEF CallFits
<1> QED
  BY <1>2, <1>3, CallGoesOn DEF Login!Create, Login!Go

-----------------------------------------------------------------------------
(* One lemma for each action, or for those that change the same.           *)

LEMMA LoginSteps ==
  ASSUME LoginInv, NEW b \in Browsers, NEW kind \in {"cookie", "bearer"},
         Login!Login(b, kind)
  PROVE  LoginInv'
<1> DEFINE r == [Login!Idle EXCEPT !.at = "owner", !.kind = kind, !.by = Login!Password]
<1>1. /\ Login!Begin(b, r) /\ UNCHANGED <<rows, reserved, sessions, states, lock, gens>>
  BY DEF Login!Login
<1>2. /\ r \in Calls /\ r.at = "owner" /\ r.by = Login!Password /\ r.gen = 0 /\ r.kind = kind
  BY IdleIs DEF Calls, Names
<1>3. gens \in Nat
  BY CallIs
<1> HIDE DEF r
<1>4. LoginCalls' /\ LoginRest'
  BY <1>1, <1>2, <1>3, NotSubjects, BeginsFit
<1> QED
  BY <1>1, <1>4, RowsStay DEF LoginInv

LEMMA LoginFailsSteps ==
  ASSUME LoginInv, NEW b \in Browsers, Login!LoginFails(b)
  PROVE  LoginInv'
<1> DEFINE r == [Login!Idle EXCEPT !.at = "failed", !.n = lock.n]
<1>1. /\ Login!Begin(b, r) /\ UNCHANGED <<rows, reserved, sessions, states, lock, gens>>
      /\ ~lock.locked
  BY DEF Login!LoginFails
<1>2. lock.n \in Nat /\ lock.n < MaxFailed
  BY <1>1, AccessNumbers DEF LoginInv, LoginRest, LockFits
<1>3. /\ r \in Calls /\ r.at = "failed" /\ r.by = Login!NoSub /\ r.gen = 0 /\ r.kind = "cookie"
      /\ r.n = lock.n
  BY <1>2, IdleIs DEF Calls
<1>4. gens \in Nat
  BY CallIs
<1> HIDE DEF r
<1>5. LoginCalls' /\ LoginRest'
  BY <1>1, <1>2, <1>3, <1>4, NotSubjects, BeginsFit
<1> QED
  BY <1>1, <1>5, RowsStay DEF LoginInv

LEMMA RecordFailedSteps ==
  ASSUME LoginInv, NEW b \in Browsers, Login!RecordFailed(b)
  PROVE  LoginInv'
<1>1. /\ req[b].at = "failed" /\ Login!End(b)
      /\ UNCHANGED <<rows, reserved, sessions, states, gens, begun>>
      /\ lock' = [n |-> req[b].n + 1, locked |-> req[b].n + 1 >= MaxFailed]
  BY DEF Login!RecordFailed
<1>2. req[b].n \in Nat /\ req[b].n < MaxFailed
  BY <1>1, CallIs DEF CallFits, Calls
<1>3. lock'.n = req[b].n + 1 /\ lock'.locked = (req[b].n + 1 >= MaxFailed)
      /\ lock' \in [n : 0..MaxFailed, locked : BOOLEAN]
  BY <1>1, <1>2, AccessNumbers
<1>4. LockFits(lock')
  BY <1>2, <1>3, AccessNumbers DEF LockFits
<1>5. LoginRest'
  BY <1>1, <1>4 DEF LoginInv, LoginRest
<1> QED
  BY <1>1, <1>5, RowsStay, EndsFit DEF LoginInv

LEMMA LockoutExpiresSteps ==
  ASSUME LoginInv, Login!LockoutExpires
  PROVE  LoginInv'
<1>1. /\ lock' = [n |-> 0, locked |-> FALSE]
      /\ UNCHANGED <<rows, reserved, sessions, states, req, gens, begun>>
  BY DEF Login!LockoutExpires, Login!Open
<1>2. LockFits(lock')
  BY <1>1, AccessNumbers DEF LockFits
<1>3. LoginRest'
  BY <1>1, <1>2 DEF LoginInv, LoginRest
<1> QED
  BY <1>1, <1>3, RowsStay, CallsStay DEF LoginInv

LEMMA UniqueIsHandle ==
  ASSUME NEW base \in Login!Handles
  PROVE  Login!UniqueUsername(base) \subseteq Login!Handles
BY DEF Login!UniqueUsername, Login!Handles

LEMMA PasswordOwnerSteps ==
  ASSUME LoginInv, NEW b \in Browsers, Login!PasswordOwner(b)
  PROVE  LoginInv'
<1>1. /\ req[b].at = "owner" /\ UNCHANGED <<rows, reserved, sessions, states, lock, gens, begun>>
  BY DEF Login!PasswordOwner
<1>2. CASE \E h \in Login!Handles : Login!Create(b, req[b], h, "owner", "null")
  BY <1>1, <1>2, CreatesFit, RowsStay, RestStays DEF LoginInv
<1>3. CASE Login!End(b)
  BY <1>1, <1>3, EndsFit, RowsStay, RestStays DEF LoginInv
<1>4. CASE req[b].by \notin Subjects /\ \E h \in Login!Handles : Login!Rotate(b, req[b], h)
  BY <1>1, <1>4, RotatesFit, RowsStay, RestStays DEF LoginInv
<1>5. CASE Login!Owners = {}
  <2>1. \E h \in (IF SingleOwner THEN Login!UniqueUsername(Tako) ELSE {Tako}) :
          Login!Create(b, req[b], h, "owner", "null")
    BY <1>5 DEF Login!PasswordOwner
  <2> QED
    BY <1>2, <2>1, TheHandles, UniqueIsHandle
<1>6. CASE Login!Owners # {}
  <2>1. \E h \in Login!Owners : Login!Rotate(b, req[b], h) \/ Login!End(b)
    BY <1>6 DEF Login!PasswordOwner
  <2>2. req[b].by \notin Subjects
    BY <1>1, CallIs DEF CallFits
  <2> QED
    BY <1>3, <1>4, <2>1, <2>2 DEF Login!Owners
<1> QED
  BY <1>5, <1>6

LEMMA OAuthStartSteps ==
  ASSUME LoginInv, NEW b \in Browsers, Login!OAuthStart(b)
  PROVE  LoginInv'
<1>1. /\ UNCHANGED <<rows, reserved, sessions, lock, req, gens>>
      /\ states' = states \union {b} /\ begun < MaxRequests /\ begun' = begun + 1
  BY DEF Login!OAuthStart
<1>2. LoginRest'
  BY <1>1, AccessNumbers DEF LoginInv, LoginRest
<1> QED
  BY <1>1, <1>2, RowsStay, CallsStay DEF LoginInv

LEMMA IsAppOwnerIs == \A c : Login!IsAppOwner(c) \in BOOLEAN
BY DEF Login!IsAppOwner, Login!Granted

LEMMA FindsFit ==
  ASSUME LoginInv, NEW b \in Browsers, NEW s \in Subjects, NEW own \in BOOLEAN,
         NEW kind \in {"cookie", "bearer"},
         Login!Begin(b, [Login!Idle EXCEPT !.at = "find", !.by = s, !.kind = kind, !.own = own]),
         UNCHANGED <<rows, gens, lock, reserved>>, states' \subseteq states
  PROVE  LoginCalls' /\ LoginRest'
<1> DEFINE r == [Login!Idle EXCEPT !.at = "find", !.by = s, !.kind = kind, !.own = own]
<1>1. /\ r \in Calls /\ r.at = "find" /\ r.by = s /\ r.gen = 0 /\ r.kind = kind
  BY IdleIs DEF Calls, Names
<1>2. gens \in Nat
  BY CallIs
<1>3. Login!Begin(b, r)
  OBVIOUS
<1> HIDE DEF r
<1> QED
  BY <1>1, <1>2, <1>3, BeginsFit

LEMMA OAuthCallbackSteps ==
  ASSUME LoginInv, NEW b \in Browsers, NEW o \in Browsers, NEW s \in Subjects,
         NEW c \in Login!Claims, Login!OAuthCallback(b, o, s, c)
  PROVE  LoginInv'
<1>1. /\ UNCHANGED <<rows, reserved, sessions, lock, gens>> /\ states' = states \ {o}
  BY DEF Login!OAuthCallback
<1>2. CASE o = b
  <2>1. [Login!Idle EXCEPT !.at = "find", !.by = s, !.own = Login!IsAppOwner(c)]
        = [Login!Idle EXCEPT !.at = "find", !.by = s, !.kind = "cookie",
                             !.own = Login!IsAppOwner(c)]
    BY IdleIs DEF Calls
  <2> QED
    BY <1>1, <1>2, <2>1, IsAppOwnerIs, FindsFit, RowsStay DEF Login!OAuthCallback, LoginInv
<1>3. CASE o # b
  <2>1. UNCHANGED <<req, begun>>
    BY <1>3 DEF Login!OAuthCallback
  <2>2. LoginRest'
    BY <1>1, <2>1 DEF LoginInv, LoginRest
  <2> QED
    BY <1>1, <2>1, <2>2, RowsStay, CallsStay DEF LoginInv
<1> QED
  BY <1>2, <1>3

LEMMA MobileOidcSteps ==
  ASSUME LoginInv, NEW b \in Browsers, NEW s \in Subjects, NEW c \in Login!Claims,
         Login!MobileOidc(b, s, c)
  PROVE  LoginInv'
<1>1. /\ UNCHANGED <<rows, reserved, sessions, states, lock, gens>>
      /\ Login!Begin(b, [Login!Idle EXCEPT !.at = "find", !.by = s, !.kind = "bearer",
                                           !.own = Login!IsAppOwner(c)])
  BY DEF Login!MobileOidc
<1> QED
  BY <1>1, IsAppOwnerIs, FindsFit, RowsStay DEF LoginInv

LEMMA FindSteps ==
  ASSUME LoginInv, NEW b \in Browsers, Login!Find(b)
  PROVE  LoginInv'
<1>1. /\ req[b].at = "find" /\ UNCHANGED <<rows, reserved, sessions, states, lock, gens, begun>>
  BY DEF Login!Find
<1>2. CASE \E h \in Login!Handles, role \in {"owner", "member"} :
             Login!Create(b, req[b], h, role, "null")
  BY <1>1, <1>2, CreatesFit, RowsStay, RestStays DEF LoginInv
<1>3. CASE Login!End(b)
  BY <1>1, <1>3, EndsFit, RowsStay, RestStays DEF LoginInv
<1>4. CASE \E h \in Login!Of(req[b].by) : Login!Rotate(b, req[b], h)
  <2>1. PICK h \in Login!Handles : rows[h].sub = req[b].by /\ Login!Rotate(b, req[b], h)
    BY <1>4 DEF Login!Of
  <2> QED
    BY <1>1, <2>1, RotatesFit, RowsStay, RestStays DEF LoginInv
<1>5. \/ \E h \in Login!Of(req[b].by) : Login!Rotate(b, req[b], h) \/ Login!End(b)
      \/ \E h \in Login!UniqueUsername(Base) :
           Login!Create(b, req[b], h, IF Login!First THEN "owner" ELSE "member", "null")
      \/ Login!End(b)
  BY DEF Login!Find
<1> QED
  BY <1>2, <1>3, <1>4, <1>5, TheHandles, UniqueIsHandle

LEMMA ReadTombstoneSteps ==
  ASSUME LoginInv, NEW b \in Browsers, Login!ReadTombstone(b)
  PROVE  LoginInv'
<1>1. /\ req[b].at = "create" /\ UNCHANGED <<rows, reserved, sessions, states, lock, gens, begun>>
  BY DEF Login!ReadTombstone
<1>2. req[b] \in Calls /\ CallFits(req[b], rows, gens) /\ req[b].h \in Login!Handles
  BY CallIs DEF Calls
<1> DEFINE at == IF rows[req[b].h].st = "dead" THEN "revive" ELSE "insert"
           q == [req[b] EXCEPT !.at = at, !.gen = rows[req[b].h].gen]
<1>3. CASE Login!Go(b, q)
  <2>1. rows[req[b].h].gen \in Nat /\ rows[req[b].h].gen <= gens
    BY <1>2, RowIs
  <2>2. /\ q \in Calls /\ q.at = at /\ q.gen = rows[req[b].h].gen /\ q.no = req[b].no
        /\ q.by = req[b].by /\ q.kind = req[b].kind
    BY <1>2, <2>1 DEF Calls
  <2>3. CallFits(q, rows, gens)
    BY <1>1, <1>2, <2>1, <2>2 DEF CallFits
  <2>4. LoginCalls'
    BY <1>1, <1>3, <2>2, <2>3, CallGoesOn DEF Login!Go
  <2> QED
    BY <1>1, <2>4, RowsStay, RestStays DEF LoginInv
<1>4. CASE Login!End(b)
  BY <1>1, <1>4, EndsFit, RowsStay, RestStays DEF LoginInv
<1> QED
  BY <1>3, <1>4 DEF Login!ReadTombstone

(* A claim that goes through makes an identity that nobody has read.       *)
LEMMA ClaimWins ==
  ASSUME LoginInv, NEW b \in Browsers, Login!Claim(b), Login!Claimable(req[b])
  PROVE  LoginInv'
<1> DEFINE r == req[b]
           sub == Login!SubOf(r)
           row == [st |-> "live", sub |-> sub, gen |-> gens + 1, role |-> r.role,
                   root |-> r.root]
<1>1. /\ r.at \in {"insert", "revive"} /\ gens < MaxGens /\ gens' = gens + 1
      /\ rows' = [rows EXCEPT ![r.h] = row]
      /\ sessions' = {s \in sessions : s.of # r.h \/ r.at = "insert"}
      /\ UNCHANGED <<reserved, states, lock, begun>>
      /\ \/ r.kind = "add" /\ Login!End(b)
         \/ r.kind # "add" /\ Login!Go(b, [r EXCEPT !.at = "delete", !.gen = gens + 1])
  BY DEF Login!Claim
<1>2. r \in Calls /\ CallFits(r, rows, gens) /\ r.h \in Login!Handles /\ gens \in Nat
  BY CallIs DEF Calls
<1>3. sub \in Names \union Login!Handles /\ (r.kind # "add" => sub = r.by)
  BY <1>2 DEF Login!SubOf, Calls
<1>4. row \in Actors /\ row.st = "live" /\ row.gen = gens + 1 /\ row.sub = sub /\ row.role = r.role
  BY <1>2, <1>3 DEF Actors, Calls
<1>5. /\ rows \in [Login!Handles -> Actors] /\ \A h \in Login!Handles : rows[h].gen <= gens
      /\ sessions \subseteq Opened /\ \A s \in sessions : SessionFits(s, rows)
      /\ OneOwnerIn(rows)
  BY DEF LoginInv, LoginRows, RowsMade
<1>6. \A h \in Login!Handles : rows'[h] = IF h = r.h THEN row ELSE rows[h]
  BY <1>1, <1>5
<1>7. rows' \in [Login!Handles -> Actors]
  BY <1>1, <1>2, <1>4, <1>5
<1>8. RowsMade(rows', gens')
  <2>1. \A h \in Login!Handles : rows[h].gen \in Nat
    BY RowIs
  <2>2. \A h \in Login!Handles : rows'[h].gen <= gens + 1
    BY <1>2, <1>4, <1>5, <1>6, <2>1
  <2> QED
    BY <1>1, <1>7, <2>2 DEF RowsMade
<1>9. OneOwnerIn(rows')
  <2> SUFFICES ASSUME SingleOwner, NEW g \in Login!Handles, NEW h \in Login!Handles,
                      rows'[g].st = "live", rows'[g].role = "owner",
                      rows'[h].st = "live", rows'[h].role = "owner"
               PROVE  g = h
    BY DEF OneOwnerIn
  <2>1. r.role = "owner" => \A k \in Login!Handles : ~(rows[k].st = "live" /\ rows[k].role = "owner")
    BY DEF Login!Claimable, Login!NoLiveOwner, Login!Owners, Login!Live
  <2>2. g # r.h => rows[g].st = "live" /\ rows[g].role = "owner"
    BY <1>6
  <2>3. h # r.h => rows[h].st = "live" /\ rows[h].role = "owner"
    BY <1>6
  <2>4. g = r.h \/ h = r.h => r.role = "owner"
    BY <1>4, <1>6
  <2> QED
    BY <1>5, <2>1, <2>2, <2>3, <2>4 DEF OneOwnerIn
<1>10. sessions' \subseteq Opened /\ \A s \in sessions' : SessionFits(s, rows')
  <2>1. sessions' \subseteq Opened
    BY <1>1, <1>5
  <2>2. ASSUME NEW s \in sessions' PROVE SessionFits(s, rows')
    <3>1. s \in sessions /\ s.of \in Login!Handles /\ SessionFits(s, rows)
      BY <1>1, <1>5, <2>2 DEF Opened
    <3>2. s.of # r.h
      <4>1. CASE r.at = "insert"
        <5>1. rows[r.h].st = "none"
          BY <4>1 DEF Login!Claimable
        <5> QED
          BY <3>1, <5>1 DEF SessionFits
      <4> QED
        BY <1>1, <2>2, <4>1
    <3>3. rows'[s.of] = rows[s.of]
      BY <1>6, <3>1, <3>2
    <3> QED
      BY <3>1, <3>3 DEF SessionFits
  <2> QED
    BY <2>1, <2>2
<1>11. ASSUME NEW q \in Calls, CallFits(q, rows, gens)
       PROVE  CallFits(q, rows', gens')
  <2>1. q.gen \in Nat /\ q.h \in Login!Handles
    BY DEF Calls
  <2>2. q.gen <= gens /\ q.gen # gens + 1 /\ q.gen <= gens + 1
    BY <1>2, <1>11, <2>1 DEF CallFits
  <2>3. rows'[q.h].gen = q.gen => rows'[q.h] = rows[q.h]
    BY <1>4, <1>6, <2>1, <2>2
  <2> QED
    BY <1>1, <1>11, <2>2, <2>3 DEF CallFits
<1>12. LoginCalls'
  <2>1. PICK q \in Calls : req' = [req EXCEPT ![b] = q] /\ CallFits(q, rows', gens')
    <3>1. CASE r.kind = "add"
      <4>1. gens' \in Nat
        BY <1>1, <1>2
      <4>2. req' = [req EXCEPT ![b] = Login!Idle]
        BY <1>1, <3>1 DEF Login!End, Login!Go
      <4> QED
        BY <4>1, <4>2, IdleIs
    <3>2. CASE r.kind # "add"
      <4> DEFINE q == [r EXCEPT !.at = "delete", !.gen = gens + 1]
      <4>1. /\ q \in Calls /\ q.at = "delete" /\ q.gen = gens + 1 /\ q.h = r.h /\ q.by = r.by
            /\ q.no = r.no /\ q.kind = r.kind
        <5>1. gens + 1 \in Nat
          BY <1>2
        <5> QED
          BY <1>2, <5>1 DEF Calls
      <4>2. rows'[q.h].sub = q.by
        BY <1>2, <1>3, <1>4, <1>6, <3>2, <4>1
      <4>3. CallFits(q, rows', gens')
        BY <1>1, <1>2, <3>2, <4>1, <4>2 DEF CallFits
      <4> QED
        BY <1>1, <3>2, <4>1, <4>3 DEF Login!Go
    <3> QED
      BY <3>1, <3>2
  <2>2. req' \in [Browsers -> Calls]
    BY <2>1 DEF LoginInv, LoginCalls
  <2>3. ASSUME NEW c \in Browsers PROVE CallFits(req'[c], rows', gens')
    <3>1. req[c] \in Calls /\ CallFits(req[c], rows, gens)
      BY CallIs
    <3>2. req'[c] = IF c = b THEN q ELSE req[c]
      BY <2>1 DEF LoginInv, LoginCalls
    <3> QED
      BY <1>11, <2>1, <3>1, <3>2
  <2> QED
    BY <2>2, <2>3 DEF LoginCalls
<1>13. LoginRows'
  <2>1. gens' \in 0..MaxGens
    BY <1>1, <1>2, AccessNumbers
  <2> QED
    BY <1>8, <1>9, <1>10, <2>1 DEF LoginRows
<1> QED
  BY <1>1, <1>12, <1>13, RestStays DEF LoginInv

LEMMA ClaimSteps ==
  ASSUME LoginInv, NEW b \in Browsers, Login!Claim(b)
  PROVE  LoginInv'
<1>1. CASE Login!Claimable(req[b])
  BY <1>1, ClaimWins
<1>2. CASE ~Login!Claimable(req[b])
  <2>1. /\ Login!Lost(b, req[b]) /\ req[b].at \in {"insert", "revive"}
        /\ UNCHANGED <<rows, sessions, gens, reserved, states, lock, begun>>
    BY <1>2 DEF Login!Claim
  <2>2. CASE Login!End(b)
    BY <2>1, <2>2, EndsFit, RowsStay, RestStays DEF LoginInv
  <2>3. CASE \E h \in Login!Handles : /\ Login!Rotate(b, req[b], h)
                                      /\ req[b].by \in Subjects => rows[h].sub = req[b].by
    BY <2>1, <2>3, RotatesFit, RowsStay, RestStays DEF LoginInv
  <2>4. CallFits(req[b], rows, gens)
    BY CallIs
  <2>5. CASE req[b].kind = "add" \/ req[b].by = Login!Password
    <3>1. req[b].by \notin Subjects
      BY <2>4, <2>5, NotSubjects DEF CallFits
    <3>2. Login!Owners \subseteq Login!Handles
      BY DEF Login!Owners
    <3>3. \/ Login!End(b)
          \/ \E h \in Login!Owners : Login!Rotate(b, req[b], h)
      BY <2>1, <2>5 DEF Login!Lost
    <3> QED
      BY <2>2, <2>3, <3>1, <3>2, <3>3
  <2>6. CASE req[b].kind # "add" /\ req[b].by # Login!Password
    <3>1. \/ Login!End(b)
          \/ \E h \in Login!Of(req[b].by) : Login!Rotate(b, req[b], h)
      BY <2>1, <2>6 DEF Login!Lost
    <3> QED
      BY <2>2, <2>3, <3>1 DEF Login!Of
  <2> QED
    BY <2>5, <2>6
<1> QED
  BY <1>1, <1>2

LEMMA DropSessionSteps ==
  ASSUME LoginInv, NEW b \in Browsers, Login!DropSession(b)
  PROVE  LoginInv'
<1>1. /\ req[b].at = "delete" /\ UNCHANGED <<rows, reserved, states, lock, gens, begun>>
      /\ sessions' \subseteq sessions
  BY DEF Login!DropSession
<1>2. LoginRows'
  BY <1>1 DEF LoginInv, LoginRows
<1>3. CASE Login!End(b)
  BY <1>1, <1>2, <1>3, EndsFit, RestStays DEF LoginInv
<1>4. CASE Login!Go(b, [req[b] EXCEPT !.at = "session"])
  <2> DEFINE q == [req[b] EXCEPT !.at = "session"]
  <2>1. req[b] \in Calls /\ CallFits(req[b], rows, gens)
    BY CallIs
  <2>2. /\ q \in Calls /\ q.at = "session" /\ q.gen = req[b].gen /\ q.h = req[b].h
        /\ q.by = req[b].by /\ q.no = req[b].no /\ q.kind = req[b].kind
    BY <2>1 DEF Calls
  <2>3. CallFits(q, rows, gens)
    BY <1>1, <2>1, <2>2 DEF CallFits
  <2>4. LoginCalls'
    BY <1>1, <1>4, <2>2, <2>3, CallGoesOn DEF Login!Go
  <2> QED
    BY <1>1, <1>2, <2>4, RestStays DEF LoginInv
<1> QED
  BY <1>3, <1>4 DEF Login!DropSession

LEMMA AddSessionSteps ==
  ASSUME LoginInv, NEW b \in Browsers, Login!AddSession(b)
  PROVE  LoginInv'
<1> DEFINE r == req[b]
           s == [id |-> r.no, of |-> r.h, gen |-> r.gen, by |-> r.by]
<1>1. /\ r.at = "session" /\ Login!End(b) /\ UNCHANGED <<rows, reserved, states, gens, begun>>
      /\ lock' = lock \/ lock' = Login!Open
      /\ sessions' = sessions \/ (Login!Current(r) /\ sessions' = sessions \union {s})
  BY DEF Login!AddSession
<1>2. r \in Calls /\ CallFits(r, rows, gens)
  BY CallIs
<1>3. s \in Opened /\ s.of = r.h /\ s.gen = r.gen /\ s.by = r.by
  BY <1>1, <1>2 DEF CallFits, Calls, Opened
<1>4. Login!Current(r) => SessionFits(s, rows)
  <2> SUFFICES ASSUME Login!Current(r) PROVE SessionFits(s, rows)
    OBVIOUS
  <2>1. Login!IdentityMatches([h |-> r.h, gen |-> r.gen])
    BY DEF Login!Current
  <2>2. rows[r.h].st = "live" /\ rows[r.h].gen = r.gen
    BY <2>1 DEF Login!IdentityMatches, Login!Live
  <2> QED
    BY <1>1, <1>2, <1>3, <2>2 DEF CallFits, SessionFits
<1>5. sessions' \subseteq Opened /\ \A x \in sessions' : SessionFits(x, rows)
  BY <1>1, <1>3, <1>4 DEF LoginInv, LoginRows
<1>6. LoginRows'
  BY <1>1, <1>5 DEF LoginInv, LoginRows
<1>7. LockFits(lock')
  <2>1. LockFits(Login!Open)
    BY AccessNumbers DEF LockFits, Login!Open
  <2> QED
    BY <1>1, <2>1 DEF LoginInv, LoginRest
<1>8. LoginRest'
  BY <1>1, <1>7 DEF LoginInv, LoginRest
<1> QED
  BY <1>1, <1>6, <1>8, EndsFit DEF LoginInv

LEMMA SwitchSteps ==
  ASSUME LoginInv, NEW b \in Browsers, NEW to \in Login!Handles, Login!Switch(b, to)
  PROVE  LoginInv'
<1>1. UNCHANGED <<rows, reserved, sessions, states, lock, gens>>
  BY DEF Login!Switch
<1>2. PICK h \in Login!Actor(b) :
        Login!Begin(b, [Login!Idle EXCEPT !.at = "delete", !.by = "switch",
                          !.src = {Login!Identity(h)}, !.h = to, !.gen = rows[to].gen])
  BY DEF Login!Switch
<1> DEFINE r == [Login!Idle EXCEPT !.at = "delete", !.by = "switch",
                   !.src = {Login!Identity(h)}, !.h = to, !.gen = rows[to].gen]
<1>3. h \in Login!Handles
  BY DEF Login!Actor, Login!Live
<1>4. Login!Identity(h) \in [h : Login!Handles, gen : Nat] /\ rows[to].gen \in Nat
      /\ rows[to].gen <= gens
  BY <1>3, RowIs DEF Login!Identity
<1>5. /\ r \in Calls /\ r.at = "delete" /\ r.by = "switch" /\ r.gen = rows[to].gen
      /\ r.kind = "cookie"
  BY <1>4, IdleIs DEF Calls, Names
<1>6. Login!Begin(b, r)
  BY <1>2
<1> HIDE DEF r
<1>7. LoginCalls' /\ LoginRest'
  BY <1>1, <1>4, <1>5, <1>6, NotSubjects, BeginsFit
<1> QED
  BY <1>1, <1>7, RowsStay DEF LoginInv

LEMMA AddAccountSteps ==
  ASSUME LoginInv, NEW b \in Browsers, NEW name \in Login!Handles, Login!AddAccount(b, name)
  PROVE  LoginInv'
<1>1. UNCHANGED <<rows, reserved, sessions, states, lock, gens>>
  BY DEF Login!AddAccount
<1>2. PICK h \in Login!Actor(b) :
        Login!Begin(b, [Login!Idle EXCEPT !.at = "create", !.kind = "add",
                          !.src = {Login!Identity(h)}, !.h = name, !.root = Login!RootOf(h)])
  BY DEF Login!AddAccount
<1> DEFINE r == [Login!Idle EXCEPT !.at = "create", !.kind = "add",
                   !.src = {Login!Identity(h)}, !.h = name, !.root = Login!RootOf(h)]
<1>3. h \in Login!Handles
  BY DEF Login!Actor, Login!Live
<1>4. Login!Identity(h) \in [h : Login!Handles, gen : Nat] /\ Login!RootOf(h) \in Roots
  BY <1>3, RowIs DEF Login!Identity, Login!RootOf, Actors, Roots
<1>5. /\ r \in Calls /\ r.at = "create" /\ r.by = Login!NoSub /\ r.gen = 0
      /\ r.kind = "add"
  BY <1>4, IdleIs DEF Calls
<1>6. Login!Begin(b, r) /\ gens \in Nat
  BY <1>2, CallIs
<1> HIDE DEF r
<1>7. LoginCalls' /\ LoginRest'
  BY <1>1, <1>5, <1>6, NotSubjects, BeginsFit
<1> QED
  BY <1>1, <1>7, RowsStay DEF LoginInv

LEMMA LogoutSteps ==
  ASSUME LoginInv, NEW s \in sessions, Login!Logout(s)
  PROVE  LoginInv'
<1>1. /\ sessions' \subseteq sessions
      /\ UNCHANGED <<rows, reserved, states, lock, req, gens, begun>>
  BY DEF Login!Logout
<1>2. LoginRows'
  BY <1>1 DEF LoginInv, LoginRows
<1> QED
  BY <1>1, <1>2, CallsStay, RestStays DEF LoginInv

LEMMA ReserveSteps ==
  ASSUME LoginInv, NEW h \in Login!Handles, Login!Reserve(h)
  PROVE  LoginInv'
<1>1. /\ reserved' \subseteq Login!Handles \/ ~(reserved \subseteq Login!Handles)
      /\ UNCHANGED <<rows, sessions, states, lock, req, gens, begun>>
  BY DEF Login!Reserve
<1>2. LoginRest'
  BY <1>1 DEF LoginInv, LoginRest
<1> QED
  BY <1>1, <1>2, RowsStay, CallsStay DEF LoginInv

(* A handle that loses its actor is free, and not of an identity that is   *)
(* signed in.                                                              *)
LEMMA RowsGo ==
  ASSUME LoginInv, NEW gone \in SUBSET Login!Handles,
         rows' \in [Login!Handles -> Actors],
         \A h \in Login!Handles : IF h \in gone
           THEN rows'[h].st # "live" /\ rows'[h].gen <= rows[h].gen
           ELSE rows'[h] = rows[h],
         sessions' \subseteq sessions, \A s \in sessions' : s.of \notin gone,
         UNCHANGED <<states, lock, req, gens, begun>>, reserved' \subseteq reserved
  PROVE  LoginInv'
<1>1. RowsMade(rows', gens)
  <2>1. \A h \in Login!Handles : rows'[h].gen \in Nat /\ rows[h].gen \in Nat /\ rows[h].gen <= gens
    BY RowIs DEF Actors
  <2>2. \A h \in Login!Handles : rows'[h].gen <= rows[h].gen
    BY <2>1
  <2>3. \A h \in Login!Handles : rows'[h].gen <= gens
    BY <2>1, <2>2, CallIs DEF LoginInv, LoginRows
  <2> QED
    BY <2>3 DEF RowsMade
<1>2. OneOwnerIn(rows')
  <2>1. \A h \in Login!Handles : rows'[h].st = "live" => rows'[h] = rows[h]
    OBVIOUS
  <2>2. OneOwnerIn(rows)
    BY DEF LoginInv, LoginRows
  <2> QED
    BY <2>1, <2>2 DEF OneOwnerIn
<1>3. sessions' \subseteq Opened /\ \A s \in sessions' : SessionFits(s, rows')
  <2>1. \A s \in sessions' : s.of \in Login!Handles /\ SessionFits(s, rows) /\ rows'[s.of] = rows[s.of]
    BY DEF LoginInv, LoginRows, Opened
  <2> QED
    BY <2>1 DEF LoginInv, LoginRows, SessionFits
<1>4. LoginRows'
  BY <1>1, <1>2, <1>3 DEF LoginInv, LoginRows
<1>5. \A b \in Browsers : CallFits(req[b], rows', gens)
  <2> SUFFICES ASSUME NEW b \in Browsers PROVE CallFits(req[b], rows', gens)
    OBVIOUS
  <2>1. req[b].h \in Login!Handles /\ CallFits(req[b], rows, gens)
    BY CallIs DEF Calls
  <2>2. rows'[req[b].h].st = "live" => rows'[req[b].h] = rows[req[b].h]
    BY <2>1
  <2> QED
    BY <2>1, <2>2 DEF CallFits
<1>6. LoginCalls'
  BY <1>5 DEF LoginInv, LoginCalls
<1>7. LoginRest'
  BY DEF LoginInv, LoginRest
<1> QED
  BY <1>4, <1>6, <1>7 DEF LoginInv

LEMMA FinalizeSteps ==
  ASSUME LoginInv, NEW h \in Login!Handles, Login!Finalize(h)
  PROVE  LoginInv'
<1> DEFINE gone == {k \in reserved : k = h \/ rows[k].root = h}
           dead(k) == [Login!Nobody EXCEPT !.st = "dead", !.gen = rows[k].gen]
<1>1. /\ rows' = [k \in Login!Handles |-> IF k \in gone THEN dead(k) ELSE rows[k]]
      /\ sessions' = {s \in sessions : s.of \notin gone}
      /\ reserved' = reserved \ gone /\ UNCHANGED <<states, lock, req, gens, begun>>
  BY DEF Login!Finalize
<1>2. gone \subseteq Login!Handles
  BY DEF LoginInv, LoginRest
<1>3. \A k \in Login!Handles : /\ rows[k] \in Actors /\ rows[k].gen \in Nat
                               /\ dead(k) \in Actors /\ dead(k).st = "dead"
                               /\ dead(k).gen = rows[k].gen
  BY RowIs DEF Login!Nobody, Actors, Names, Roots
<1> HIDE DEF gone, dead
<1>4. rows' \in [Login!Handles -> Actors]
  BY <1>1, <1>3
<1>5. \A k \in Login!Handles : IF k \in gone
        THEN rows'[k].st # "live" /\ rows'[k].gen <= rows[k].gen
        ELSE rows'[k] = rows[k]
  BY <1>1, <1>3
<1>6. sessions' \subseteq sessions /\ (\A s \in sessions' : s.of \notin gone)
      /\ reserved' \subseteq reserved
  BY <1>1
<1> QED
  BY <1>1, <1>2, <1>4, <1>5, <1>6, RowsGo

LEMMA ReapSteps ==
  ASSUME LoginInv, NEW h \in Login!Handles, Login!Reap(h)
  PROVE  LoginInv'
<1>1. /\ rows' = [rows EXCEPT ![h] = Login!Nobody] /\ rows[h].st = "dead"
      /\ UNCHANGED <<reserved, sessions, states, lock, req, gens, begun>>
  BY DEF Login!Reap
<1>2. Login!Nobody \in Actors /\ Login!Nobody.st = "none" /\ Login!Nobody.gen = 0
  BY DEF Login!Nobody, Actors, Names, Roots
<1>3. rows \in [Login!Handles -> Actors] /\ rows[h].gen \in Nat
  BY RowIs DEF LoginInv, LoginRows, RowsMade
<1>4. rows' \in [Login!Handles -> Actors]
  BY <1>1, <1>2, <1>3
<1>5. \A k \in Login!Handles : IF k \in {h}
        THEN rows'[k].st # "live" /\ rows'[k].gen <= rows[k].gen
        ELSE rows'[k] = rows[k]
  BY <1>1, <1>2, <1>3
<1>6. \A s \in sessions : s.of \notin {h}
  BY <1>1 DEF LoginInv, LoginRows, SessionFits
<1> QED
  BY <1>1, <1>4, <1>5, <1>6, RowsGo

-----------------------------------------------------------------------------
(* The notification list.  The inductive invariant.                        *)

Letters == [at : Nat, read : BOOLEAN]
Cleanups == [stage : {"none", "inbox", "marker"}, ids : SUBSET List!Rows]
Walks == [on : BOOLEAN, at : Nat, id : Nat,
          seen : SUBSET List!Rows, stayed : SUBSET List!Rows]

ListTypes ==
  /\ inbox \in [List!Rows -> Letters] /\ archived \in [List!Rows -> {"no", "kept", "old"}]
  /\ now \in Nat /\ sent \in 0..MaxRows
  /\ clean \in [Workers -> Cleanups] /\ walk \in Walks
  /\ put \subseteq 1..sent
  /\ \A r \in List!Rows : /\ inbox[r].at <= now
                          /\ sent < r => inbox[r].at = 0 /\ archived[r] = "no"

(* A cleanup takes markers that were made; once it has deleted the rows    *)
(* they do not come back, also when the marker goes and is made anew.      *)
CleanSound(c) ==
  c.ids \subseteq 1..sent /\ (c.stage = "marker" => \A r \in c.ids : inbox[r].at = 0)

(* What the account archived has its marker for as long as it has a row.   *)
MarkersSound == \A r \in put : archived[r] = "no" => inbox[r].at = 0

(* What notifCursorPredicate says of a table of rows.                      *)
After(table, r, at, id) == table[r].at < at \/ (table[r].at = at /\ r < id)

(* Whoever was listed all along has been shown or comes after the cursor.  *)
WalkSound ==
  /\ walk.on =>
       /\ walk.stayed \subseteq List!Listed
       /\ \A r \in walk.stayed :
            r \in walk.seen \/ After(inbox, r, walk.at, walk.id)
  /\ ~walk.on => walk.stayed \subseteq walk.seen

ListInv ==
  /\ ListTypes /\ MarkersSound /\ WalkSound
  /\ \A w \in Workers : CleanSound(clean[w])

LEMMA ListedIs ==
  /\ List!Listed = {r \in List!Rows : inbox[r].at # 0 /\ r \notin hidden /\ archived[r] = "no"}
  /\ List!Listed' = {r \in List!Rows : inbox'[r].at # 0 /\ r \notin hidden' /\ archived'[r] = "no"}
<1>1. "default" # "archived"
  OBVIOUS
<1> QED
  BY <1>1 DEF List!Listed, List!notificationEligibilityWhere, List!Held

LEMMA ListRows == \A r : r \in List!Rows <=> r \in 1..MaxRows
BY DEF List!Rows

LEMMA ListInit == List!Init => ListInv
<1> SUFFICES ASSUME List!Init PROVE ListInv
  OBVIOUS
<1>1. List!NoRow \in Letters /\ List!NoRow.at = 0
  BY DEF List!NoRow, Letters
<1>2. List!NoCleanup \in Cleanups /\ List!NoCleanup.ids = {}
  BY DEF List!NoCleanup, Cleanups
<1>3. /\ List!NoWalk \in Walks /\ ~List!NoWalk.on /\ List!NoWalk.stayed = {}
  BY DEF List!NoWalk, Walks
<1>4. ListTypes
  BY <1>1, <1>2, <1>3, AccessNumbers DEF List!Init, ListTypes
<1>5. WalkSound
  BY <1>3 DEF List!Init, WalkSound
<1>6. MarkersSound /\ \A w \in Workers : CleanSound(clean[w])
  BY <1>2 DEF List!Init, MarkersSound, CleanSound, List!NoCleanup
<1> QED
  BY <1>4, <1>5, <1>6 DEF ListInv

(* A change of the list that keeps the time of what stays listed.          *)
LEMMA WalkFollows ==
  ASSUME ListInv, walk' = List!Staying(walk),
         \A r \in List!Rows : r \in List!Listed /\ r \in List!Listed' => inbox'[r].at = inbox[r].at
  PROVE  walk' \in Walks /\ WalkSound'
<1>1. walk \in Walks /\ WalkSound
  BY DEF ListInv, ListTypes
<1>2. /\ walk'.on = walk.on /\ walk'.at = walk.at /\ walk'.id = walk.id
      /\ walk'.seen = (IF walk.on THEN walk.seen ELSE {})
      /\ walk'.stayed = (IF walk.on THEN walk.stayed \cap List!Listed' ELSE {})
      /\ walk' \in Walks
  BY <1>1 DEF List!Staying, Walks
<1>3. walk.on => \A r \in walk'.stayed :
        r \in walk'.seen \/ After(inbox', r, walk'.at, walk'.id)
  <2> SUFFICES ASSUME walk.on, NEW r \in walk'.stayed, r \notin walk'.seen
               PROVE  After(inbox', r, walk'.at, walk'.id)
    OBVIOUS
  <2>1. r \in walk.stayed /\ r \in List!Listed' /\ r \in List!Listed /\ r \in List!Rows
    BY <1>1, <1>2 DEF WalkSound, Walks
  <2>2. After(inbox, r, walk.at, walk.id)
    BY <1>1, <1>2, <2>1 DEF WalkSound
  <2>3. inbox'[r].at = inbox[r].at
    BY <2>1
  <2> QED
    BY <1>2, <2>2, <2>3 DEF After
<1>4. walk.on => walk'.stayed \subseteq List!Listed'
  BY <1>2
<1>5. ~walk.on => walk'.stayed \subseteq walk'.seen
  BY <1>2
<1> QED
  BY <1>2, <1>3, <1>4, <1>5 DEF WalkSound

LEMMA WalkWaits ==
  ASSUME ListInv, walk' = walk, List!Listed' = List!Listed,
         \A r \in List!Rows : inbox'[r].at = inbox[r].at
  PROVE  walk' \in Walks /\ WalkSound'
<1>1. walk \in Walks /\ WalkSound
  BY DEF ListInv, ListTypes
<1>2. \A r \in List!Rows : After(inbox', r, walk.at, walk.id) <=> After(inbox, r, walk.at, walk.id)
  BY DEF After
<1>3. walk.stayed \subseteq List!Rows
  BY <1>1 DEF Walks
<1> QED
  BY <1>1, <1>2, <1>3 DEF WalkSound

LEMMA LetterIs ==
  ASSUME ListInv, NEW r \in List!Rows
  PROVE  inbox[r] \in Letters /\ inbox[r].at \in Nat /\ inbox[r].at <= now
BY DEF ListInv, ListTypes, Letters

(* The order of the list.                                                  *)
LEMMA LeastIn ==
  ASSUME NEW T \in SUBSET Nat, T # {}
  PROVE  \E x \in T : \A y \in T : x <= y
<1>1. IsWellFoundedOn(OpToRel(<, Nat), Nat)
  BY NatLessThanWellFounded
<1>2. PICK x \in T : \A y \in T : ~(<<y, x>> \in OpToRel(<, Nat))
  BY <1>1, WFMin
<1>3. \A y \in T : ~(y < x)
  BY <1>2 DEF OpToRel
<1> QED
  BY <1>3

LEMMA OrderIsTotal ==
  ASSUME ListInv, NEW r \in List!Rows, NEW s \in List!Rows
  PROVE  /\ List!Before(s, r) \/ s = r \/ List!Before(r, s)
         /\ ~(List!Before(s, r) /\ List!Before(r, s))
         /\ List!Before(s, r) <=> After(inbox, r, inbox[s].at, s)
<1>1. inbox[r].at \in Nat /\ inbox[s].at \in Nat /\ r \in Nat /\ s \in Nat
  BY LetterIs, ListRows, AccessNumbers
<1> QED
  BY <1>1 DEF List!Before, After

LEMMA OrderIsTransitive ==
  ASSUME ListInv, NEW r \in List!Rows, NEW s \in List!Rows, NEW t \in List!Rows,
         List!Before(r, s), List!Before(s, t)
  PROVE  List!Before(r, t)
<1>1. /\ inbox[r].at \in Nat /\ inbox[s].at \in Nat /\ inbox[t].at \in Nat
      /\ r \in Nat /\ s \in Nat /\ t \in Nat
  BY LetterIs, ListRows, AccessNumbers
<1> QED
  BY <1>1 DEF List!Before

LEMMA ListHasFirst ==
  ASSUME ListInv, NEW T \in SUBSET List!Rows, T # {}
  PROVE  \E f \in T : \A s \in T : ~List!Before(s, f)
<1> DEFINE ages == {now - inbox[r].at : r \in T}
<1>1. now \in Nat /\ \A r \in T : inbox[r].at \in Nat /\ inbox[r].at <= now /\ r \in 1..MaxRows
  BY LetterIs, ListRows DEF ListInv, ListTypes
<1>2. ages \in SUBSET Nat /\ ages # {}
  BY <1>1
<1>3. PICK age \in ages : \A other \in ages : age <= other
  BY <1>2, LeastIn
<1> DEFINE newest == {r \in T : now - inbox[r].at = age}
           ranks == {MaxRows - r : r \in newest}
<1>4. ranks \in SUBSET Nat /\ ranks # {}
  BY <1>1, <1>3, AccessNumbers
<1>5. PICK rank \in ranks : \A other \in ranks : rank <= other
  BY <1>4, LeastIn
<1>6. PICK f \in newest : MaxRows - f = rank
  BY <1>5
<1>7. ASSUME NEW s \in T PROVE ~List!Before(s, f)
  <2>1. now - inbox[f].at <= now - inbox[s].at
    BY <1>3, <1>6, <1>7
  <2>2. inbox[s].at = inbox[f].at => MaxRows - f <= MaxRows - s
    BY <1>5, <1>6, <1>7
  <2> QED
    BY <1>1, <1>6, <2>1, <2>2, AccessNumbers DEF List!Before
<1> QED
  BY <1>6, <1>7

LEMMA ListHasLast ==
  ASSUME ListInv, NEW T \in SUBSET List!Rows, T # {}
  PROVE  \E l \in T : \A s \in T \ {l} : List!Before(s, l)
<1> DEFINE times == {inbox[r].at : r \in T}
<1>1. \A r \in T : inbox[r].at \in Nat /\ r \in Nat
  BY LetterIs, ListRows, AccessNumbers
<1>2. times \in SUBSET Nat /\ times # {}
  BY <1>1
<1>3. PICK time \in times : \A other \in times : time <= other
  BY <1>2, LeastIn
<1> DEFINE oldest == {r \in T : inbox[r].at = time}
<1>4. oldest \in SUBSET Nat /\ oldest # {}
  BY <1>1, <1>3
<1>5. PICK l \in oldest : \A other \in oldest : l <= other
  BY <1>4, LeastIn
<1>6. ASSUME NEW s \in T \ {l} PROVE List!Before(s, l)
  <2>1. inbox[l].at <= inbox[s].at
    BY <1>3, <1>5, <1>6
  <2>2. inbox[s].at = inbox[l].at => l <= s
    BY <1>5, <1>6
  <2> QED
    BY <1>1, <1>5, <1>6, <2>1, <2>2 DEF List!Before
<1> QED
  BY <1>5, <1>6

LEMMA ListCounts == \A S : List!Cardinality(S) = Cardinality(S)
BY DEF List!Cardinality, Cardinality

(* GET /: the page shown and the cursor left behind.                       *)
LEMMA PageSteps ==
  ASSUME ListInv, List!ListPage
  PROVE  ListInv'
<1> DEFINE first == ~walk.on
           rest == {r \in List!Listed : first \/ List!notifCursorPredicate(r, walk.at, walk.id)}
           before(r) == {s \in rest : List!Before(s, r)}
           page == {r \in rest : Cardinality(before(r)) < Limit}
           last == CHOOSE r \in page : \A s \in page \ {r} : List!Before(s, r)
           stayed == IF first THEN List!Listed ELSE walk.stayed
           seen == IF first THEN page ELSE walk.seen \union page
<1>1. /\ walk' = IF page = rest
                   THEN [List!NoWalk EXCEPT !.seen = seen, !.stayed = stayed]
                   ELSE [on |-> TRUE, at |-> inbox[last].at, id |-> last,
                         seen |-> seen, stayed |-> stayed]
      /\ UNCHANGED <<inbox, sent, archived, hidden, now, clean, ran, put>>
  BY ListCounts DEF List!ListPage, List!tableVars
<1>2. /\ rest = {r \in List!Listed : ~walk.on \/ After(inbox, r, walk.at, walk.id)}
  BY DEF List!notifCursorPredicate, After
<1>3. walk \in Walks /\ WalkSound /\ List!Listed \subseteq List!Rows
  BY ListedIs DEF ListInv, ListTypes
<1>4. rest \subseteq List!Rows /\ page \subseteq rest
  BY <1>3
<1>5. IsFiniteSet(rest)
  <2>1. IsFiniteSet(1..MaxRows)
    BY FS_Interval, AccessNumbers
  <2> QED
    BY <1>4, <2>1, FS_Subset DEF List!Rows
<1>6. \A r : IsFiniteSet(before(r)) /\ Cardinality(before(r)) \in Nat
  BY <1>5, FS_Subset, FS_CardinalityType
<1>7. seen \subseteq List!Rows /\ stayed \subseteq List!Listed
  <2>1. walk.on => walk.stayed \subseteq List!Listed
    BY <1>3 DEF WalkSound
  <2>2. walk.seen \subseteq List!Rows
    BY <1>3 DEF Walks
  <2> QED
    BY <1>4, <2>1, <2>2
<1>8. \A r \in stayed : r \in seen \/ r \in rest
  <2>1. CASE first
    BY <1>2, <2>1
  <2>2. CASE ~first
    BY <1>2, <1>7, <2>2, <1>3 DEF WalkSound
  <2> QED
    BY <2>1, <2>2
<1>9. page \subseteq seen
  OBVIOUS
<1> HIDE DEF rest, stayed, seen, first, before
<1>10. CASE page = rest
  <2>1. /\ walk' \in Walks /\ ~walk'.on /\ walk'.stayed = stayed /\ walk'.seen = seen
    BY <1>1, <1>3, <1>7, <1>10 DEF List!NoWalk, Walks
  <2>2. WalkSound'
    BY <1>8, <1>9, <1>10, <2>1 DEF WalkSound
  <2> QED
    BY <1>1, <2>1, <2>2 DEF ListInv, ListTypes, MarkersSound, CleanSound
<1>11. CASE page # rest
  <2>1. rest # {}
    BY <1>4, <1>11
  <2>2. page # {}
    <3>1. PICK f \in rest : \A s \in rest : ~List!Before(s, f)
      BY <1>4, <2>1, ListHasFirst
    <3>2. before(f) = {}
      BY <3>1 DEF before
    <3> QED
      BY <3>1, <3>2, FS_EmptySet, AccessNumbers
  <2>3. last \in page /\ \A s \in page \ {last} : List!Before(s, last)
    <3>1. \E l \in page : \A s \in page \ {l} : List!Before(s, l)
      BY <1>4, <2>2, ListHasLast
    <3> QED
      BY <3>1
  <2>4. ASSUME NEW r \in rest, r \notin page
        PROVE  After(inbox, r, inbox[last].at, last)
    <3>1. r \in List!Rows /\ last \in List!Rows /\ last \in rest /\ r # last
      BY <1>4, <2>3, <2>4
    <3>2. ~List!Before(r, last)
      <4> SUFFICES ASSUME List!Before(r, last) PROVE FALSE
        OBVIOUS
      <4>1. before(r) \subseteq before(last)
        BY <1>4, <3>1, OrderIsTransitive DEF before
      <4>2. Cardinality(before(r)) <= Cardinality(before(last))
        BY <1>6, <4>1, FS_Subset
      <4>3. Cardinality(before(last)) < Limit /\ ~(Cardinality(before(r)) < Limit)
        BY <2>3, <2>4
      <4> QED
        BY <1>6, <4>2, <4>3, AccessNumbers
    <3>3. List!Before(last, r)
      BY <3>1, <3>2, OrderIsTotal
    <3> QED
      BY <3>1, <3>3, OrderIsTotal
  <2>5. last \in List!Rows /\ inbox[last].at \in Nat /\ last \in Nat
    BY <1>4, <2>3, LetterIs, ListRows, AccessNumbers
  <2> HIDE DEF page, last
  <2>6. /\ walk' \in Walks /\ walk'.on /\ walk'.at = inbox[last].at /\ walk'.id = last
        /\ walk'.seen = seen /\ walk'.stayed = stayed
    BY <1>1, <1>3, <1>7, <1>11, <2>5 DEF Walks
  <2>7. \A r \in stayed : r \in seen \/ After(inbox, r, inbox[last].at, last)
    BY <1>8, <1>9, <2>4
  <2>8. List!Listed' = List!Listed
    BY <1>1, ListedIs
  <2>9. WalkSound'
    BY <1>1, <1>7, <2>6, <2>7, <2>8 DEF WalkSound
  <2> QED
    BY <1>1, <2>6, <2>9 DEF ListInv, ListTypes, MarkersSound, CleanSound
<1> QED
  BY <1>10, <1>11

(* A step of a cleanup, of the table or of the markers: what it must keep. *)
LEMMA CleanupIs ==
  ASSUME ListInv, NEW w \in Workers
  PROVE  /\ clean[w] \in Cleanups /\ clean[w].ids \subseteq 1..sent
         /\ clean[w].ids \subseteq List!Rows
         /\ clean[w].stage = "marker" => \A r \in clean[w].ids : inbox[r].at = 0
         /\ List!NoCleanup \in Cleanups /\ List!NoCleanup.ids = {}
         /\ List!NoRow \in Letters /\ List!NoRow.at = 0
BY DEF ListInv, ListTypes, CleanSound, Cleanups, List!NoCleanup, List!NoRow, Letters

LEMMA CleanupStarts ==
  ASSUME ListInv, NEW w \in Workers, List!maybeCleanupArchivedNotifications(w)
  PROVE  ListInv'
<1>1. PICK ids \in SUBSET {r \in List!Rows : archived[r] = "old"} :
        clean' = [clean EXCEPT ![w] =
          IF ids = {} THEN List!NoCleanup ELSE [stage |-> "inbox", ids |-> ids]]
  BY DEF List!maybeCleanupArchivedNotifications
<1>2. UNCHANGED <<inbox, sent, archived, hidden, now, put, walk>>
  BY DEF List!maybeCleanupArchivedNotifications, List!tableVars
<1> DEFINE c == IF ids = {} THEN List!NoCleanup ELSE [stage |-> "inbox", ids |-> ids]
<1>3. ids \subseteq 1..sent
  <2>1. \A r \in List!Rows : ~(sent < r /\ archived[r] = "old")
    BY DEF ListInv, ListTypes
  <2> QED
    BY <2>1, ListRows, AccessNumbers DEF ListInv, ListTypes
<1>4. c \in Cleanups /\ c.ids \subseteq 1..sent /\ c.stage # "marker"
  BY <1>3, CleanupIs DEF Cleanups, List!NoCleanup
<1> HIDE DEF c
<1>5. clean' = [clean EXCEPT ![w] = c] /\ clean \in [Workers -> Cleanups]
  BY <1>1 DEF c, ListInv, ListTypes
<1>6. \A v \in Workers : clean'[v] = IF v = w THEN c ELSE clean[v]
  BY <1>5
<1>7. clean' \in [Workers -> Cleanups] /\ \A v \in Workers : CleanSound(clean[v])'
  BY <1>2, <1>4, <1>5, <1>6 DEF CleanSound, ListInv
<1>8. List!Listed' = List!Listed
  BY <1>2, ListedIs
<1>9. WalkSound' /\ walk' \in Walks
  BY <1>2, <1>8, WalkWaits
<1> QED
  BY <1>2, <1>7, <1>9 DEF ListInv, ListTypes, MarkersSound

LEMMA InboxRowsGo ==
  ASSUME ListInv, NEW w \in Workers, List!DeleteInbox(w)
  PROVE  ListInv'
<1> DEFINE ids == clean[w].ids
           c == [clean[w] EXCEPT !.stage = "marker"]
<1>1. /\ inbox' = [r \in List!Rows |-> IF r \in ids THEN List!NoRow ELSE inbox[r]]
      /\ clean' = [clean EXCEPT ![w] = c]
      /\ UNCHANGED <<sent, archived, hidden, now, put>> /\ walk' = List!Staying(walk)
  BY DEF List!DeleteInbox
<1>2. ids \subseteq 1..sent /\ c \in Cleanups /\ c.ids = ids /\ clean \in [Workers -> Cleanups]
  BY CleanupIs DEF Cleanups, ListInv, ListTypes
<1>3. \A r \in List!Rows : inbox'[r] = IF r \in ids THEN List!NoRow ELSE inbox[r]
  BY <1>1
<1>4. \A r \in List!Rows : inbox'[r].at = IF r \in ids THEN 0 ELSE inbox[r].at
  BY <1>3, CleanupIs
<1>5. inbox' \in [List!Rows -> Letters]
  BY <1>1, CleanupIs DEF ListInv, ListTypes
<1> HIDE DEF ids, c
<1>6. \A v \in Workers : clean'[v] = IF v = w THEN c ELSE clean[v]
  BY <1>1, <1>2
<1>7. ids \subseteq List!Rows
  BY CleanupIs DEF ids
<1>8. clean' \in [Workers -> Cleanups] /\ \A v \in Workers : CleanSound(clean[v])'
  <2>1. clean' \in [Workers -> Cleanups]
    BY <1>1, <1>2
  <2>2. ASSUME NEW v \in Workers PROVE CleanSound(clean[v])'
    <3>1. CASE v = w
      BY <1>1, <1>2, <1>4, <1>6, <1>7, <3>1 DEF CleanSound
    <3>2. CASE v # w
      <4>1. clean'[v] = clean[v]
        BY <1>6, <3>2
      <4> QED
        BY <1>1, <1>4, <4>1, CleanupIs DEF CleanSound
    <3> QED
      BY <3>1, <3>2
  <2> QED
    BY <2>1, <2>2
<1>9. WalkSound' /\ walk' \in Walks
  <2>1. \A r \in List!Rows : r \in List!Listed' => inbox'[r].at = inbox[r].at
    BY <1>4, ListedIs
  <2> QED
    BY <1>1, <2>1, WalkFollows
<1>10. \A r \in List!Rows : /\ inbox'[r].at <= now
                            /\ sent < r => inbox'[r].at = 0 /\ archived[r] = "no"
  BY <1>4, AccessNumbers DEF ListInv, ListTypes
<1>11. MarkersSound'
  BY <1>1, <1>4, ListRows, AccessNumbers DEF ListInv, ListTypes, MarkersSound
<1> QED
  BY <1>1, <1>5, <1>8, <1>9, <1>10, <1>11 DEF ListInv, ListTypes

LEMMA MarkersGo ==
  ASSUME ListInv, NEW w \in Workers, List!DeleteMarkers(w)
  PROVE  ListInv'
<1> DEFINE ids == clean[w].ids
<1>1. /\ archived' = [r \in List!Rows |-> IF r \in ids THEN "no" ELSE archived[r]]
      /\ clean' = [clean EXCEPT ![w] = List!NoCleanup] /\ clean[w].stage = "marker"
      /\ UNCHANGED <<inbox, sent, hidden, now, put>> /\ walk' = List!Staying(walk)
  BY DEF List!DeleteMarkers
<1>2. \A r \in ids : inbox[r].at = 0
  BY <1>1, CleanupIs
<1>3. archived' \in [List!Rows -> {"no", "kept", "old"}]
      /\ \A r \in List!Rows : archived'[r] = IF r \in ids THEN "no" ELSE archived[r]
  BY <1>1 DEF ListInv, ListTypes
<1> HIDE DEF ids
<1>4. clean \in [Workers -> Cleanups]
  BY DEF ListInv, ListTypes
<1>5. \A v \in Workers : clean'[v] = IF v = w THEN List!NoCleanup ELSE clean[v]
  BY <1>1, <1>4
<1>6. clean' \in [Workers -> Cleanups] /\ \A v \in Workers : CleanSound(clean[v])'
  BY <1>1, <1>4, <1>5, CleanupIs DEF CleanSound
<1>7. WalkSound' /\ walk' \in Walks
  BY <1>1, WalkFollows
<1>8. MarkersSound'
  BY <1>1, <1>2, <1>3, ListRows, AccessNumbers DEF ListInv, ListTypes, MarkersSound
<1>9. \A r \in List!Rows : /\ inbox[r].at <= now
                           /\ sent < r => inbox[r].at = 0 /\ archived'[r] = "no"
  BY <1>3 DEF ListInv, ListTypes
<1> QED
  BY <1>1, <1>3, <1>6, <1>7, <1>8, <1>9 DEF ListInv, ListTypes

(* A worker that goes away forgets its cleanup.                            *)
LEMMA WorkersSteps ==
  ASSUME ListInv, NEW w \in Workers,
         List!WorkerGone(w) \/ List!pruneArchivedCleanupTimestamps(w)
  PROVE  ListInv'
<1>1. /\ clean' = clean \/ clean' = [clean EXCEPT ![w] = List!NoCleanup]
      /\ UNCHANGED <<inbox, sent, archived, hidden, now, put, walk>>
  BY DEF List!WorkerGone, List!pruneArchivedCleanupTimestamps, List!tableVars
<1>2. clean \in [Workers -> Cleanups]
  BY DEF ListInv, ListTypes
<1>3. \A v \in Workers : clean'[v] = clean[v] \/ clean'[v] = List!NoCleanup
  BY <1>1, <1>2
<1>4. clean' \in [Workers -> Cleanups] /\ \A v \in Workers : CleanSound(clean[v])'
  BY <1>1, <1>2, <1>3, CleanupIs DEF CleanSound, List!NoCleanup
<1>5. List!Listed' = List!Listed
  BY <1>1, ListedIs
<1>6. WalkSound' /\ walk' \in Walks
  BY <1>1, <1>5, WalkWaits
<1> QED
  BY <1>1, <1>4, <1>6 DEF ListInv, ListTypes, MarkersSound

LEMMA NotifySteps ==
  ASSUME ListInv, List!Notify
  PROVE  ListInv'
<1> DEFINE row == [at |-> now, read |-> FALSE]
<1>1. /\ sent < MaxRows /\ sent' = sent + 1 /\ inbox' = [inbox EXCEPT ![sent + 1] = row]
      /\ UNCHANGED <<archived, hidden, now, clean, put>> /\ walk' = List!Staying(walk)
  BY DEF List!Notify
<1>2. /\ sent \in Nat /\ sent + 1 \in List!Rows /\ sent' \in 0..MaxRows /\ now \in Nat
      /\ inbox \in [List!Rows -> Letters]
  BY <1>1, ListRows, AccessNumbers DEF ListInv, ListTypes
<1>3. row \in Letters /\ row.at = now
  BY <1>2 DEF Letters
<1> HIDE DEF row
<1>4. \A r \in List!Rows : inbox'[r] = IF r = sent + 1 THEN row ELSE inbox[r]
  BY <1>1, <1>2
<1>5. inbox' \in [List!Rows -> Letters]
  BY <1>1, <1>2, <1>3
<1>6. inbox[sent + 1].at = 0 /\ archived[sent + 1] = "no"
  BY <1>2 DEF ListInv, ListTypes
<1>7. WalkSound' /\ walk' \in Walks
  <2>1. sent + 1 \notin List!Listed
    BY <1>6, ListedIs
  <2>2. \A r \in List!Rows : r \in List!Listed => inbox'[r].at = inbox[r].at
    BY <1>4, <2>1
  <2> QED
    BY <1>1, <2>2, WalkFollows
<1>8. \A r \in List!Rows : /\ inbox'[r].at <= now
                           /\ sent + 1 < r => inbox'[r].at = 0 /\ archived[r] = "no"
  <2> SUFFICES ASSUME NEW r \in List!Rows
               PROVE  /\ inbox'[r].at <= now
                      /\ sent + 1 < r => inbox'[r].at = 0 /\ archived[r] = "no"
    OBVIOUS
  <2>1. r \in Nat
    BY ListRows, AccessNumbers
  <2>2. inbox[r].at <= now /\ (sent < r => inbox[r].at = 0 /\ archived[r] = "no")
    BY DEF ListInv, ListTypes
  <2> QED
    BY <1>2, <1>3, <1>4, <2>1, <2>2
<1>9. \A r \in 1..sent : r \in List!Rows /\ r # sent + 1 /\ inbox'[r] = inbox[r] /\ r \in 1..(sent + 1)
  BY <1>1, <1>2, <1>4, ListRows, AccessNumbers
<1>10. put \subseteq 1..sent /\ MarkersSound' /\ put \subseteq 1..(sent + 1)
  BY <1>1, <1>9 DEF ListInv, ListTypes, MarkersSound
<1>11. \A w \in Workers : CleanSound(clean[w])'
  BY <1>1, <1>9, CleanupIs DEF CleanSound
<1> QED
  BY <1>1, <1>2, <1>5, <1>7, <1>8, <1>10, <1>11 DEF ListInv, ListTypes

LEMMA TickSteps ==
  ASSUME ListInv, List!Tick
  PROVE  ListInv'
<1>1. now' = now + 1 /\ UNCHANGED <<inbox, sent, archived, hidden, clean, put, walk>>
  BY DEF List!Tick
<1>2. List!Listed' = List!Listed
  BY <1>1, ListedIs
<1>3. WalkSound' /\ walk' \in Walks
  BY <1>1, <1>2, WalkWaits
<1>4. now' \in Nat /\ \A r \in List!Rows : inbox[r].at <= now'
  <2>1. now \in Nat /\ \A r \in List!Rows : inbox[r].at \in Nat /\ inbox[r].at <= now
    BY LetterIs DEF ListInv, ListTypes
  <2> QED
    BY <1>1, <2>1
<1> QED
  BY <1>1, <1>3, <1>4 DEF ListInv, ListTypes, MarkersSound, CleanSound

(* The markers change, the rows do not.                                    *)
LEMMA MarkersChange ==
  ASSUME ListInv, archived' \in [List!Rows -> {"no", "kept", "old"}],
         \A r \in List!Rows : sent < r => archived'[r] = "no",
         put' \subseteq 1..sent, \A r \in put' : archived'[r] = "no" => inbox[r].at = 0,
         UNCHANGED <<inbox, sent, hidden, now, clean>>,
         walk' = List!Staying(walk) \/ (walk' = walk /\ List!Listed' = List!Listed)
  PROVE  ListInv'
<1>1. WalkSound' /\ walk' \in Walks
  BY WalkFollows, WalkWaits
<1> QED
  BY <1>1 DEF ListInv, ListTypes, MarkersSound, CleanSound

LEMMA MarkedIs ==
  ASSUME ListInv, NEW ids \in SUBSET List!Held,
         archived' = List!Marked(ids), put' = put \union ids,
         UNCHANGED <<inbox, sent, hidden, now, clean>>, walk' = List!Staying(walk)
  PROVE  ListInv'
<1>1. \A r \in List!Rows : archived'[r] = IF r \in ids /\ archived[r] = "no" THEN "kept" ELSE archived[r]
  BY DEF List!Marked
<1>2. archived' \in [List!Rows -> {"no", "kept", "old"}]
  BY DEF List!Marked, ListInv, ListTypes
<1>3. \A r \in ids : r \in List!Rows /\ inbox[r].at # 0
  BY DEF List!Held
<1>4. ids \subseteq 1..sent
  <2>1. \A r \in ids : ~(sent < r)
    BY <1>3 DEF ListInv, ListTypes
  <2> QED
    BY <1>3, <2>1, ListRows, AccessNumbers DEF ListInv, ListTypes
<1>5. \A r \in List!Rows : sent < r => archived'[r] = "no"
  BY <1>1, <1>3 DEF ListInv, ListTypes
<1>6. \A r \in put' : archived'[r] = "no" => inbox[r].at = 0
  <2>1. put \subseteq List!Rows
    BY ListRows, AccessNumbers DEF ListInv, ListTypes
  <2> QED
    BY <1>1, <1>3, <2>1 DEF ListInv, MarkersSound
<1> QED
  BY <1>2, <1>4, <1>5, <1>6, MarkersChange DEF ListInv, ListTypes

LEMMA ArchiveSteps ==
  ASSUME ListInv, List!archiveAllInboxRows \/ \E r \in List!Rows : List!batchArchiveInsert(r)
  PROVE  ListInv'
<1>1. CASE List!archiveAllInboxRows
  BY <1>1, MarkedIs DEF List!archiveAllInboxRows
<1>2. ASSUME NEW r \in List!Rows, List!batchArchiveInsert(r) PROVE ListInv'
  <2>1. {r} \in SUBSET List!Held
    BY <1>2 DEF List!batchArchiveInsert
  <2> QED
    BY <1>2, <2>1, MarkedIs DEF List!batchArchiveInsert
<1> QED
  BY <1>1, <1>2

LEMMA UnarchiveSteps ==
  ASSUME ListInv, NEW r \in List!Rows, List!Unarchive(r)
  PROVE  ListInv'
<1>1. /\ archived' = [archived EXCEPT ![r] = "no"] /\ put' = put \ {r}
      /\ UNCHANGED <<inbox, sent, hidden, now, clean>> /\ walk' = List!Staying(walk)
  BY DEF List!Unarchive
<1>2. /\ archived' \in [List!Rows -> {"no", "kept", "old"}]
      /\ \A s \in List!Rows : archived'[s] = IF s = r THEN "no" ELSE archived[s]
  BY <1>1 DEF ListInv, ListTypes
<1>3. put \subseteq List!Rows
  BY ListRows, AccessNumbers DEF ListInv, ListTypes
<1>4. /\ \A s \in List!Rows : sent < s => archived'[s] = "no"
      /\ \A s \in put' : archived'[s] = "no" => inbox[s].at = 0
      /\ put' \subseteq 1..sent
  BY <1>1, <1>2, <1>3 DEF ListInv, ListTypes, MarkersSound
<1> QED
  BY <1>1, <1>2, <1>4, MarkersChange

LEMMA ExpireSteps ==
  ASSUME ListInv, NEW r \in List!Rows, List!Expire(r)
  PROVE  ListInv'
<1>1. /\ archived[r] = "kept" /\ archived' = [archived EXCEPT ![r] = "old"]
      /\ UNCHANGED <<inbox, sent, hidden, now, clean, put, walk>>
  BY DEF List!Expire
<1>2. /\ archived' \in [List!Rows -> {"no", "kept", "old"}]
      /\ \A s \in List!Rows : archived'[s] = IF s = r THEN "old" ELSE archived[s]
  BY <1>1 DEF ListInv, ListTypes
<1>3. \A s \in List!Rows : archived'[s] = "no" <=> archived[s] = "no"
  BY <1>1, <1>2
<1>4. put \subseteq List!Rows
  BY ListRows, AccessNumbers DEF ListInv, ListTypes
<1>5. /\ \A s \in List!Rows : sent < s => archived'[s] = "no"
      /\ \A s \in put : archived'[s] = "no" => inbox[s].at = 0
      /\ put \subseteq 1..sent
  BY <1>3, <1>4 DEF ListInv, ListTypes, MarkersSound
<1>6. List!Listed' = List!Listed
  BY <1>1, <1>3, ListedIs
<1> QED
  BY <1>1, <1>2, <1>5, <1>6, MarkersChange

LEMMA ReadSteps ==
  ASSUME ListInv, NEW ids \in SUBSET List!Held, List!ReadRows(ids)
  PROVE  ListInv'
<1>1. /\ inbox' = [r \in List!Rows |-> IF r \in ids THEN [inbox[r] EXCEPT !.read = TRUE]
                                                  ELSE inbox[r]]
      /\ UNCHANGED <<sent, archived, hidden, now, clean, put, walk>>
  BY DEF List!ReadRows
<1>2. \A r \in List!Rows : inbox'[r] \in Letters /\ inbox'[r].at = inbox[r].at
  <2> SUFFICES ASSUME NEW r \in List!Rows PROVE inbox'[r] \in Letters /\ inbox'[r].at = inbox[r].at
    OBVIOUS
  <2>1. inbox[r] \in Letters
    BY LetterIs
  <2>2. inbox'[r] = inbox[r] \/ inbox'[r] = [inbox[r] EXCEPT !.read = TRUE]
    BY <1>1
  <2> QED
    BY <2>1, <2>2 DEF Letters
<1>3. inbox' \in [List!Rows -> Letters]
  <2>1. inbox' = [r \in List!Rows |-> inbox'[r]]
    BY <1>1
  <2> QED
    BY <1>2, <2>1
<1>4. List!Listed' = List!Listed
  BY <1>1, <1>2, ListedIs
<1>5. WalkSound' /\ walk' \in Walks
  BY <1>1, <1>2, <1>4, WalkWaits
<1>6. MarkersSound' /\ \A w \in Workers : CleanSound(clean[w])'
  <2>1. \A r \in 1..sent : r \in List!Rows
    BY ListRows, AccessNumbers DEF ListInv, ListTypes
  <2>2. put \subseteq List!Rows
    BY <2>1 DEF ListInv, ListTypes
  <2>3. MarkersSound'
    BY <1>1, <1>2, <2>2 DEF ListInv, MarkersSound
  <2> QED
    BY <1>1, <1>2, <2>3, CleanupIs DEF CleanSound
<1> QED
  BY <1>1, <1>2, <1>3, <1>5, <1>6 DEF ListInv, ListTypes

LEMMA HideSteps ==
  ASSUME ListInv, NEW r \in List!Rows, List!Hide(r)
  PROVE  ListInv'
<1>1. UNCHANGED <<inbox, sent, archived, now, clean, put>> /\ walk' = List!Staying(walk)
  BY DEF List!Hide
<1>2. WalkSound' /\ walk' \in Walks
  BY <1>1, WalkFollows
<1> QED
  BY <1>1, <1>2 DEF ListInv, ListTypes, MarkersSound, CleanSound

LEMMA ListNext ==
  ASSUME ListInv, List!Next
  PROVE  ListInv'
<1>1. ASSUME NEW w \in Workers,
             \/ List!maybeCleanupArchivedNotifications(w) \/ List!DeleteInbox(w)
             \/ List!DeleteMarkers(w) \/ List!WorkerGone(w)
             \/ List!pruneArchivedCleanupTimestamps(w)
      PROVE  ListInv'
  BY <1>1, CleanupStarts, InboxRowsGo, MarkersGo, WorkersSteps
<1>2. CASE List!markAllEligibleNotificationsRead
  <2>1. List!Listed \subseteq List!Held
    BY ListedIs DEF List!Held
  <2> QED
    BY <1>2, <2>1, ReadSteps DEF List!markAllEligibleNotificationsRead
<1>3. ASSUME NEW r \in List!Rows,
             \/ List!batchArchiveInsert(r) \/ List!Unarchive(r) \/ List!Expire(r) \/ List!Hide(r)
             \/ r \in List!Held /\ List!ReadRows({r})
      PROVE  ListInv'
  BY <1>3, ArchiveSteps, UnarchiveSteps, ExpireSteps, HideSteps, ReadSteps
<1>4. CASE List!ListPage \/ List!Notify \/ List!Tick \/ List!archiveAllInboxRows
  BY <1>4, PageSteps, NotifySteps, TickSteps, ArchiveSteps
<1> QED
  BY <1>1, <1>2, <1>3, <1>4 DEF List!Next

LEMMA LoginNext ==
  ASSUME LoginInv, Login!Next
  PROVE  LoginInv'
<1>1. ASSUME NEW b \in Browsers,
             \/ \E kind \in {"cookie", "bearer"} : Login!Login(b, kind)
             \/ Login!LoginFails(b) \/ Login!RecordFailed(b) \/ Login!PasswordOwner(b)
             \/ Login!OAuthStart(b)
             \/ \E o \in Browsers, s \in Subjects, c \in Login!Claims : Login!OAuthCallback(b, o, s, c)
             \/ \E s \in Subjects, c \in Login!Claims : Login!MobileOidc(b, s, c)
      PROVE  LoginInv'
  BY <1>1, LoginSteps, LoginFailsSteps, RecordFailedSteps, PasswordOwnerSteps,
     OAuthStartSteps, OAuthCallbackSteps, MobileOidcSteps
<1>2. ASSUME NEW b \in Browsers,
             \/ Login!Find(b) \/ Login!ReadTombstone(b) \/ Login!Claim(b)
             \/ Login!DropSession(b) \/ Login!AddSession(b)
             \/ \E h \in Login!Handles : Login!Switch(b, h) \/ Login!AddAccount(b, h)
      PROVE  LoginInv'
  BY <1>2, FindSteps, ReadTombstoneSteps, ClaimSteps, DropSessionSteps, AddSessionSteps,
     SwitchSteps, AddAccountSteps
<1>3. CASE \/ \E s \in sessions : Login!Logout(s)
           \/ \E h \in Login!Handles : Login!Reserve(h) \/ Login!Finalize(h) \/ Login!Reap(h)
           \/ Login!LockoutExpires
  BY <1>3, LogoutSteps, ReserveSteps, FinalizeSteps, ReapSteps, LockoutExpiresSteps
<1> QED
  BY <1>1, <1>2, <1>3 DEF Login!Next

-----------------------------------------------------------------------------
(* The read gate and the surfaces.  The inductive invariant.               *)

Objects == Notes \cup Stories
Kinds == [type : {"Note", "Story"}, by : {Me, Them},
          vis : {"public", "unlisted", "followers", "direct"}, place : {Room, "none"},
          audience : {{}, {Room}, {Elsewhere}}, to : BOOLEAN, projected : BOOLEAN,
          reply : BOOLEAN]
Asks == [pc : {"operator", "room", "member", "recipient", "follow", "owner", "receipt"},
         seen : Objects \cup {Absent}, past : BOOLEAN,
         rows : {"none", "public", "private"}, member : BOOLEAN, projected : BOOLEAN,
         follows : BOOLEAN, expires : BOOLEAN]

OwnStory(o) == o.type = "Story" /\ Own(Them, o)

(* What a gate that has come so far has found.                             *)
FoundRoom(r) == Scoped(r.seen) => r.rows # "none" /\ (r.rows = "private" => r.member)
FoundTime(r) == r.seen.type = "Story" => r.expires /\ ~r.past
FoundReader(r) ==
  passesPostVisibilitySync(Them, r.seen, r.follows, r.projected, r.past)

AskSound(r) ==
  /\ r.seen = Absent => r.pc = "receipt"
  /\ r.seen # Absent /\ ~OwnStory(r.seen) =>
       /\ r.pc # "operator" => FoundTime(r)
       /\ r.pc = "member" => r.rows = "private"
       /\ r.pc \in {"recipient", "follow", "owner", "receipt"} => FoundRoom(r)
       /\ r.pc \in {"owner", "receipt"} => FoundReader(r)

(* A room is retired when nobody is left in it, and nobody joins it then.  *)
RoomEmpty == room = "deleted" => members = {}

SurfaceInv == /\ TypeOK /\ RoomEmpty
              /\ ask = Idle \/ (ask \in Asks /\ AskSound(ask))

LEMMA TheNames ==
  /\ Me # Them /\ Anyone # Me /\ Anyone # Them
  /\ Room # Elsewhere /\ Room # "none"
BY VisibilityAssumption

ObjectFits(o) ==
  /\ o \in Kinds /\ o # Absent
  /\ o.type = "Story" => o.vis = "public" /\ o.audience = {} /\ ~o.to /\ ~o.reply
  /\ o.type = "Note" => (o.audience = {} => o.place = "none")
  /\ o.type = "Note" => (o.place = Room => o.audience = {Room})

LEMMA ObjectIs ==
  ASSUME NEW o \in Objects
  PROVE  ObjectFits(o)
<1>1. Room # "none" /\ {Room} # {}
  BY TheNames
<1>2. o \in Kinds
  BY DEF Objects, Notes, NotesOf, Stories, Kinds
<1>3. o.type = "Story" => o.vis = "public" /\ o.audience = {} /\ ~o.to /\ ~o.reply
  BY DEF Objects, Notes, NotesOf, Stories
<1>4. o.type = "Note" => (o.audience = {} => o.place = "none")
  BY <1>1 DEF Objects, Notes, NotesOf, Stories
<1>5. o.type = "Note" => (o.place = Room => o.audience = {Room})
  BY <1>1 DEF Objects, Notes, NotesOf, Stories
<1>6. o # Absent
  BY <1>2 DEF Kinds, Absent
<1> QED
  BY <1>2, <1>3, <1>4, <1>5, <1>6 DEF ObjectFits

LEMMA SurfaceInit == Init => SurfaceInv
<1> SUFFICES ASSUME Init PROVE SurfaceInv
  OBVIOUS
<1>1. TypeOK
  BY DEF Init, TypeOK, Idle
<1> QED
  BY <1>1 DEF Init, SurfaceInv, RoomEmpty

(* The gate goes on or gives up, nothing else changes.                     *)
LEMMA GateGoesOn ==
  ASSUME SurfaceInv, UNCHANGED <<obj, expired, relVars, roomVars, replied>>,
         ask' = Idle \/ (ask' \in Asks /\ AskSound(ask'))
  PROVE  SurfaceInv'
<1>1. ask'.pc \in {"idle", "operator", "room", "member", "recipient",
                   "follow", "owner", "receipt"}
  BY DEF Idle, Asks
<1>2. /\ obj' = obj /\ expired' = expired /\ follow' = follow /\ blocked' = blocked
      /\ muted' = muted /\ operator' = operator /\ room' = room /\ members' = members
      /\ replied' = replied
  BY DEF relVars, roomVars
<1>3. TypeOK'
  BY <1>1, <1>2 DEF SurfaceInv, TypeOK
<1> QED
  BY <1>2, <1>3 DEF SurfaceInv, RoomEmpty

LEMMA AskIs ==
  ASSUME SurfaceInv, ask.pc # "idle"
  PROVE  ask \in Asks /\ AskSound(ask)
BY DEF SurfaceInv, Idle

LEMMA ScopedIs == \A o : Scoped(o) \in BOOLEAN
BY DEF Scoped

LEMMA AskBegins ==
  ASSUME SurfaceInv, readInboundNoteParent
  PROVE  SurfaceInv'
<1>1. /\ UNCHANGED <<obj, expired, relVars, roomVars, replied>>
      /\ ask' = [pc |-> IF obj = Absent THEN "receipt" ELSE "operator",
                 seen |-> obj, past |-> expired,
                 rows |-> "none", member |-> FALSE, projected |-> FALSE,
                 follows |-> FALSE, expires |-> FALSE]
  BY DEF readInboundNoteParent
<1>2. obj \in Objects \cup {Absent} /\ expired \in BOOLEAN
  BY DEF SurfaceInv, TypeOK, Objects
<1>3. /\ ask' \in Asks /\ ask'.seen = obj
      /\ ask'.pc = IF obj = Absent THEN "receipt" ELSE "operator"
  BY <1>1, <1>2 DEF Asks
<1>4. AskSound(ask')
  BY <1>3 DEF AskSound
<1> QED
  BY <1>1, <1>3, <1>4, GateGoesOn

LEMMA OperatorSteps ==
  ASSUME SurfaceInv, ReadOperator
  PROVE  SurfaceInv'
<1> DEFINE o == ask.seen
           story == o.type = "Story"
           next == [[ask EXCEPT !.expires = story /\ ~Own(Them, o)] EXCEPT
                      !.pc = IF story /\ Own(Them, o) THEN "owner" ELSE "room"]
<1>1. /\ ask.pc = "operator" /\ UNCHANGED <<obj, expired, relVars, roomVars, replied>>
      /\ ask' = Idle \/ (~(story /\ ~Own(Them, o) /\ ask.past) /\ ask' = next)
  BY DEF ReadOperator, Deny, Pass
<1>2. ask \in Asks /\ AskSound(ask) /\ o # Absent
  BY <1>1, AskIs DEF AskSound
<1>3. (story /\ ~Own(Them, o)) \in BOOLEAN
  OBVIOUS
<1>4. /\ next \in Asks /\ next.seen = o /\ next.past = ask.past
      /\ next.expires = (story /\ ~Own(Them, o))
      /\ next.pc = IF story /\ Own(Them, o) THEN "owner" ELSE "room"
  BY <1>2, <1>3 DEF Asks
<1> HIDE DEF next
<1>5. ~(story /\ ~Own(Them, o) /\ ask.past) => AskSound(next)
  BY <1>2, <1>4 DEF AskSound, OwnStory, FoundTime
<1> QED
  BY <1>1, <1>4, <1>5, GateGoesOn

LEMMA RoomSteps ==
  ASSUME SurfaceInv, ReadRoom
  PROVE  SurfaceInv'
<1> DEFINE o == ask.seen
           free == [ask EXCEPT !.pc = "recipient"]
           open == [[ask EXCEPT !.rows = room] EXCEPT !.pc = "recipient"]
           closed == [[ask EXCEPT !.rows = room] EXCEPT !.pc = "member"]
<1>1. /\ ask.pc = "room" /\ UNCHANGED <<obj, expired, relVars, roomVars, replied>>
      /\ room \in {"public", "private", "deleted"}
  BY DEF ReadRoom, SurfaceInv, TypeOK
<1>2. \/ ask' = Idle
      \/ ~Scoped(o) /\ ask' = free
      \/ room = "public" /\ ask' = open
      \/ room = "private" /\ ask' = closed
  BY <1>1, ScopedIs DEF ReadRoom, Deny, Pass
<1>3. ask \in Asks /\ AskSound(ask) /\ o # Absent
  BY <1>1, AskIs DEF AskSound
<1>4. CASE ~Scoped(o) /\ ask' = free
  <2>1. /\ ask' \in Asks /\ ask'.seen = o /\ ask'.pc = "recipient" /\ ask'.past = ask.past
        /\ ask'.expires = ask.expires
    BY <1>3, <1>4 DEF Asks
  <2>2. AskSound(ask')
    BY <1>1, <1>3, <1>4, <2>1 DEF AskSound, FoundTime, FoundRoom
  <2> QED
    BY <1>1, <2>1, <2>2, GateGoesOn
<1>5. CASE room = "public" /\ ask' = open
  <2>1. /\ ask' \in Asks /\ ask'.seen = o /\ ask'.pc = "recipient" /\ ask'.past = ask.past
        /\ ask'.expires = ask.expires /\ ask'.rows = "public"
    BY <1>3, <1>5 DEF Asks
  <2>2. AskSound(ask')
    BY <1>1, <1>3, <1>5, <2>1 DEF AskSound, FoundTime, FoundRoom
  <2> QED
    BY <1>1, <2>1, <2>2, GateGoesOn
<1>6. CASE room = "private" /\ ask' = closed
  <2>1. /\ ask' \in Asks /\ ask'.seen = o /\ ask'.pc = "member" /\ ask'.past = ask.past
        /\ ask'.expires = ask.expires /\ ask'.rows = "private"
    BY <1>3, <1>6 DEF Asks
  <2>2. AskSound(ask')
    BY <1>1, <1>3, <1>6, <2>1 DEF AskSound, FoundTime
  <2> QED
    BY <1>1, <2>1, <2>2, GateGoesOn
<1> QED
  BY <1>1, <1>2, <1>4, <1>5, <1>6, GateGoesOn

LEMMA MemberSteps ==
  ASSUME SurfaceInv, ReadMember
  PROVE  SurfaceInv'
<1> DEFINE next == [[ask EXCEPT !.member = TRUE] EXCEPT !.pc = "recipient"]
<1>1. /\ ask.pc = "member" /\ UNCHANGED <<obj, expired, relVars, roomVars, replied>>
      /\ ask' = Idle \/ ask' = next
  BY DEF ReadMember, Deny, Pass
<1>2. ask \in Asks /\ AskSound(ask)
  BY <1>1, AskIs
<1>3. /\ next \in Asks /\ next.seen = ask.seen /\ next.pc = "recipient" /\ next.member
      /\ next.past = ask.past /\ next.expires = ask.expires /\ next.rows = ask.rows
  BY <1>2 DEF Asks
<1> HIDE DEF next
<1>4. AskSound(next)
  BY <1>1, <1>2, <1>3 DEF AskSound, FoundTime, FoundRoom
<1> QED
  BY <1>1, <1>3, <1>4, GateGoesOn

LEMMA RecipientSteps ==
  ASSUME SurfaceInv, ReadRecipient
  PROVE  SurfaceInv'
<1> DEFINE finds == NeedsProjection(ask.seen) /\ obj # Absent /\ obj.projected
           next == [[ask EXCEPT !.projected = finds] EXCEPT !.pc = "follow"]
<1>1. /\ ask.pc = "recipient" /\ UNCHANGED <<obj, expired, relVars, roomVars, replied>>
      /\ ask' = next
  BY DEF ReadRecipient, Pass
<1>2. ask \in Asks /\ AskSound(ask) /\ finds \in BOOLEAN
  BY <1>1, AskIs
<1> HIDE DEF finds
<1>3. /\ next \in Asks /\ next.seen = ask.seen /\ next.pc = "follow" /\ next.member = ask.member
      /\ next.past = ask.past /\ next.expires = ask.expires /\ next.rows = ask.rows
  BY <1>2 DEF Asks
<1> HIDE DEF next
<1>4. AskSound(next)
  BY <1>1, <1>2, <1>3 DEF AskSound, FoundTime, FoundRoom
<1> QED
  BY <1>1, <1>3, <1>4, GateGoesOn

LEMMA FollowSteps ==
  ASSUME SurfaceInv, ReadFollow
  PROVE  SurfaceInv'
<1> DEFINE following == NeedsFollow(ask.seen, ask.projected) /\ hasAcceptedFollow(Them, ask.seen)
           next == [[ask EXCEPT !.follows = following] EXCEPT !.pc = "owner"]
<1>1. /\ ask.pc = "follow" /\ UNCHANGED <<obj, expired, relVars, roomVars, replied>>
      /\ \/ ask' = Idle
         \/ /\ passesPostVisibilitySync(Them, ask.seen, following, ask.projected, ask.past)
            /\ ask' = next
  BY DEF ReadFollow, Deny, Pass
<1>2. ask \in Asks /\ AskSound(ask) /\ following \in BOOLEAN
  BY <1>1, AskIs
<1> HIDE DEF following
<1>3. /\ next \in Asks /\ next.seen = ask.seen /\ next.pc = "owner" /\ next.member = ask.member
      /\ next.past = ask.past /\ next.expires = ask.expires /\ next.rows = ask.rows
      /\ next.follows = following /\ next.projected = ask.projected
  BY <1>2 DEF Asks
<1> HIDE DEF next
<1>4. CASE passesPostVisibilitySync(Them, ask.seen, following, ask.projected, ask.past) /\ ask' = next
  <2>1. AskSound(next)
    BY <1>1, <1>2, <1>3, <1>4 DEF AskSound, FoundTime, FoundRoom, FoundReader
  <2> QED
    BY <1>1, <1>3, <1>4, <2>1, GateGoesOn
<1> QED
  BY <1>1, <1>4, GateGoesOn

LEMMA OwnerSteps ==
  ASSUME SurfaceInv, ReadOwner
  PROVE  SurfaceInv'
<1> DEFINE next == [ask EXCEPT !.pc = "receipt"]
<1>1. /\ ask.pc = "owner" /\ UNCHANGED <<obj, expired, relVars, roomVars, replied>>
      /\ ask' = Idle \/ ask' = next
  BY DEF ReadOwner, Deny, Pass
<1>2. ask \in Asks /\ AskSound(ask)
  BY <1>1, AskIs
<1>3. /\ next \in Asks /\ next.seen = ask.seen /\ next.pc = "receipt" /\ next.member = ask.member
      /\ next.past = ask.past /\ next.expires = ask.expires /\ next.rows = ask.rows
      /\ next.follows = ask.follows /\ next.projected = ask.projected
  BY <1>2 DEF Asks
<1> HIDE DEF next
<1>4. AskSound(next)
  BY <1>1, <1>2, <1>3 DEF AskSound, FoundTime, FoundRoom, FoundReader
<1> QED
  BY <1>1, <1>3, <1>4, GateGoesOn

-----------------------------------------------------------------------------
(* The batch: the receipt repeats what the gate found.                     *)

(* What the batch that stores a reply may rely on.                         *)
ReplyFits ==
  obj = Absent \/ /\ MayRead(Them, obj)
                  /\ ~actorSuppressesInteractionFrom(Them, obj)

LEMMA ReceiptHolds ==
  ASSUME SurfaceInv, ask.pc = "receipt", inboundNoteParentAdmissionSql(ask)
  PROVE  ReplyFits
<1> DEFINE s == ask.seen
<1>1. ask \in Asks /\ AskSound(ask)
  BY AskIs
<1>2. CASE s = Absent
  BY <1>2 DEF inboundNoteParentAdmissionSql, ReplyFits
<1>3. CASE s # Absent
  <2>1. /\ obj # Absent /\ postReadAdmissionSql(ask)
        /\ ~actorSuppressesInteractionFrom(Them, obj)
    BY <1>3 DEF inboundNoteParentAdmissionSql
  <2>2. /\ obj \in Kinds /\ s \in Kinds
    BY <1>1, <1>3, <2>1, ObjectIs DEF SurfaceInv, TypeOK, Objects, Asks, ObjectFits
  <2>3. /\ obj.type = s.type /\ obj.by = s.by /\ obj.vis = s.vis
        /\ obj.place = s.place /\ obj.audience = s.audience /\ obj.to = s.to
    BY <2>1 DEF postReadAdmissionSql, Snapshot
  <2>4. Scoped(obj) <=> Scoped(s)
    BY <2>3 DEF Scoped, communityApIdsFor
  <2>5. ~isActorBlockedStrict(obj)
    BY <2>1 DEF postReadAdmissionSql, operatorActorNotBlockedSql, isActorBlockedStrict
  <2>6. CASE OwnStory(s)
    BY <2>1, <2>3, <2>5, <2>6 DEF ReplyFits, MayRead, OwnStory, Own
  <2>7. CASE ~OwnStory(s)
    <3>1. FoundTime(ask) /\ FoundRoom(ask) /\ FoundReader(ask)
      BY <1>1, <1>3, <2>7 DEF AskSound
    <3>2. canViewerReadObject(Them, obj)
      <4>1. SUFFICES ASSUME Scoped(obj)
                     PROVE  room # "deleted" /\ (room = "private" => Them \in members)
        BY DEF canViewerReadObject
      <4>2. /\ ask.rows \in {"public", "private"}
            /\ ask.rows = "private" => ask.member
        BY <1>1, <2>4, <3>1, <4>1 DEF FoundRoom, Asks
      <4>3. room = ask.rows /\ (ask.member => Them \in members)
        BY <2>1, <4>2 DEF postReadAdmissionSql, communityReadAdmissionSql
      <4> QED
        BY <4>2, <4>3
    <3>3. /\ ask.follows => hasAcceptedFollow(Them, obj)
          /\ ask.projected => obj.projected
          /\ ask.expires => ~expired
      BY <2>1 DEF postReadAdmissionSql
    <3>4. passesPostVisibilitySync(Them, obj, hasAcceptedFollow(Them, obj),
                                   hasProjectedRecipient(Them, obj), expired)
      <4>1. CASE s.type = "Story"
        <5>1. ~Own(Them, s) /\ ask.expires /\ ~expired
          BY <2>7, <3>1, <3>3, <4>1 DEF OwnStory, FoundTime
        <5>2. s.place # "none" \/ ask.follows
          BY <3>1, <4>1, <5>1 DEF FoundReader, passesPostVisibilitySync
        <5> QED
          BY <2>3, <3>3, <4>1, <5>1, <5>2 DEF passesPostVisibilitySync
      <4>2. CASE s.type # "Story"
        <5>1. \/ Open(s) \/ Own(Them, s) \/ isExplicitRecipient(Them, s)
              \/ ask.projected \/ (s.vis = "followers" /\ ask.follows)
          BY <3>1, <4>2 DEF FoundReader, passesPostVisibilitySync
        <5>2. /\ Open(s) => Open(obj) /\ (Own(Them, s) => Own(Them, obj))
              /\ isExplicitRecipient(Them, s) => isExplicitRecipient(Them, obj)
          BY <2>3 DEF Open, Own, isExplicitRecipient, Other
        <5>3. ask.projected => Own(Them, obj) \/ hasProjectedRecipient(Them, obj)
          BY <3>3, TheNames DEF Own, hasProjectedRecipient, Other
        <5>4. Own(Them, s) => Own(Them, obj)
          BY <2>3 DEF Own
        <5> QED
          BY <2>3, <3>3, <4>2, <5>1, <5>2, <5>3, <5>4 DEF passesPostVisibilitySync
      <4> QED
        BY <4>1, <4>2
    <3> QED
      BY <2>1, <2>5, <3>2, <3>4 DEF ReplyFits, MayRead
  <2> QED
    BY <2>6, <2>7
<1> QED
  BY <1>2, <1>3

LEMMA CommitStores ==
  ASSUME SurfaceInv, Commit
  PROVE  SurfaceInv' /\ (replied' /\ ~replied => ReplyFits)
<1>1. /\ ask.pc = "receipt" /\ replied' = inboundNoteParentAdmissionSql(ask)
      /\ ask' = Idle /\ UNCHANGED <<obj, expired, relVars, roomVars>>
  BY DEF Commit, Deny
<1>2. inboundNoteParentAdmissionSql(ask) \in BOOLEAN
  BY DEF inboundNoteParentAdmissionSql
<1>3. /\ obj' = obj /\ expired' = expired /\ follow' = follow /\ blocked' = blocked
      /\ muted' = muted /\ operator' = operator /\ room' = room /\ members' = members
  BY <1>1 DEF relVars, roomVars
<1>4. TypeOK'
  BY <1>1, <1>2, <1>3 DEF SurfaceInv, TypeOK, Idle
<1>5. SurfaceInv'
  BY <1>1, <1>3, <1>4 DEF SurfaceInv, RoomEmpty
<1> QED
  BY <1>1, <1>5, ReceiptHolds

-----------------------------------------------------------------------------
(* What changes meanwhile leaves the gate where it is.                     *)

LEMMA GateWaits ==
  ASSUME SurfaceInv, TypeOK', RoomEmpty', ask' = ask \/ ask' = Idle
  PROVE  SurfaceInv'
BY DEF SurfaceInv

LEMMA ObjectSteps ==
  ASSUME SurfaceInv, Publish \/ Revise \/ Expire \/ Delete
  PROVE  SurfaceInv' /\ ~(replied' /\ ~replied)
<1>1. /\ expired' \in BOOLEAN /\ replied' \in BOOLEAN /\ ~(replied' /\ ~replied)
      /\ ask' = ask \/ ask' = Idle
      /\ UNCHANGED <<follow, blocked, muted, operator, room, members>>
  <2>1. CASE Publish
    BY <2>1 DEF SurfaceInv, TypeOK, Publish, relVars, roomVars
  <2>2. CASE Revise
    BY <2>2 DEF SurfaceInv, TypeOK, Revise, relVars, roomVars
  <2>3. CASE Expire
    BY <2>3 DEF SurfaceInv, TypeOK, Expire, relVars, roomVars
  <2>4. CASE Delete
    BY <2>4 DEF SurfaceInv, TypeOK, Delete, relVars, roomVars
  <2> QED
    BY <2>1, <2>2, <2>3, <2>4
<1>2. obj' \in Notes \cup Stories \cup {Absent}
  <2>1. Publish \/ Revise => obj' \in Notes \cup Stories
    BY DEF Publish, Revise
  <2>2. Expire \/ Delete => obj' = obj \/ obj' = Absent
    BY DEF Expire, Delete
  <2> QED
    BY <2>1, <2>2 DEF SurfaceInv, TypeOK
<1>3. TypeOK'
  BY <1>1, <1>2 DEF SurfaceInv, TypeOK, Idle
<1>4. RoomEmpty'
  BY <1>1 DEF SurfaceInv, RoomEmpty
<1> QED
  BY <1>1, <1>3, <1>4, GateWaits

LEMMA RelationSteps ==
  ASSUME SurfaceInv, Block \/ Mute \/ OperatorBlock \/ (\E a \in {Me, Them} : Follow(a))
  PROVE  SurfaceInv' /\ ~(replied' /\ ~replied)
<1>1. follow \in [{Me, Them} -> {"none", "pending", "accepted"}]
  BY DEF SurfaceInv, TypeOK
<1>2. follow' \in [{Me, Them} -> {"none", "pending", "accepted"}]
  BY <1>1 DEF Block, Mute, OperatorBlock, Follow
<1>3. /\ blocked' \in BOOLEAN /\ muted' \in BOOLEAN
      /\ operator' \in {"none", "blocked", "tld"}
      /\ UNCHANGED <<obj, expired, room, members, ask, replied>>
  BY DEF SurfaceInv, TypeOK, Block, Mute, OperatorBlock, Follow, roomVars
<1>4. TypeOK'
  BY <1>2, <1>3 DEF SurfaceInv, TypeOK
<1>5. RoomEmpty'
  BY <1>3 DEF SurfaceInv, RoomEmpty
<1> QED
  BY <1>3, <1>4, <1>5, GateWaits

LEMMA RoomChanges ==
  ASSUME SurfaceInv, RoomSettings \/ Retire \/ (\E a \in {Me, Them} : Membership(a))
  PROVE  SurfaceInv' /\ ~(replied' /\ ~replied)
<1>1. /\ room' \in {"public", "private", "deleted"} /\ members' \subseteq {Me, Them}
      /\ UNCHANGED <<obj, expired, follow, blocked, muted, operator, ask, replied>>
      /\ room' = "deleted" => members' = {}
  BY DEF SurfaceInv, TypeOK, RoomEmpty, RoomSettings, Retire, Membership, relVars
<1>2. TypeOK'
  BY <1>1 DEF SurfaceInv, TypeOK
<1>3. RoomEmpty'
  BY <1>1 DEF RoomEmpty
<1> QED
  BY <1>1, <1>2, <1>3, GateWaits

LEMMA SurfaceNext ==
  ASSUME SurfaceInv, [Next]_vars
  PROVE  SurfaceInv' /\ (replied' /\ ~replied => ReplyFits)
<1>1. CASE UNCHANGED vars
  BY <1>1 DEF vars, relVars, roomVars, SurfaceInv, TypeOK, RoomEmpty, AskSound,
              FoundTime, FoundRoom, FoundReader
<1>2. CASE readInboundNoteParent \/ ReadOperator \/ ReadRoom \/ ReadMember
           \/ ReadRecipient \/ ReadFollow \/ ReadOwner
  <2>1. replied' = replied
    BY <1>2 DEF readInboundNoteParent, ReadOperator, ReadRoom, ReadMember,
                ReadRecipient, ReadFollow, ReadOwner
  <2> QED
    BY <1>2, <2>1, AskBegins, OperatorSteps, RoomSteps, MemberSteps,
       RecipientSteps, FollowSteps, OwnerSteps
<1>3. CASE Commit
  BY <1>3, CommitStores
<1>4. CASE Publish \/ Revise \/ Expire \/ Delete
  BY <1>4, ObjectSteps
<1>5. CASE Block \/ Mute \/ OperatorBlock \/ (\E a \in {Me, Them} : Follow(a))
  BY <1>5, RelationSteps
<1>6. CASE RoomSettings \/ Retire \/ (\E a \in {Me, Them} : Membership(a))
  BY <1>6, RoomChanges
<1> QED
  BY <1>1, <1>2, <1>3, <1>4, <1>5, <1>6 DEF Next

-----------------------------------------------------------------------------
(* Each surface, against the gate.                                         *)

(* What a surface may show: the viewer's own, or what the gate lets him    *)
(* read; and nothing the viewer hides.                                     *)
ShownSoundly(w, o) ==
  /\ MayRead(w, o) \/ Own(w, o)
  /\ w = Me => excludeModeratedActors(w, o)

LEMMA ModeratedIsStrict ==
  \A w, o : /\ excludeModeratedActors(w, o) => ~isActorBlockedStrict(o)
            /\ operatorActorNotBlockedSql(o) => ~isActorBlockedStrict(o)
BY DEF excludeModeratedActors, operatorActorNotBlockedSql, isActorBlockedStrict

(* An object outside the room: no membership is asked for.                 *)
LEMMA UnscopedIsReadable ==
  ASSUME NEW o \in Objects, NEW w, o.audience = {}, o.place = "none"
  PROVE  ~Scoped(o) /\ canViewerReadObject(w, o)
BY DEF Scoped, communityApIdsFor, canViewerReadObject

LEMMA MemberIsReadable ==
  ASSUME NEW o, NEW w \in members, SurfaceInv
  PROVE  canViewerReadObject(w, o)
BY DEF canViewerReadObject, SurfaceInv, RoomEmpty

(* The batched form of the room's gate is the single one.                  *)
LEMMA RoomGatesAgree ==
  ASSUME NEW o, NEW w, SurfaceInv
  PROVE  communityReadableApIds(w, o) <=> canViewerReadObject(w, o)
BY DEF communityReadableApIds, canViewerReadObject, SurfaceInv, TypeOK

(* A Note that is open, one's own or of someone followed passes.           *)
LEMMA NoteIsReadable ==
  ASSUME NEW o \in Objects, NEW w, o.type = "Note", ~isActorBlockedStrict(o),
         canViewerReadObject(w, o),
         Open(o) \/ (o.vis = "followers" /\ hasAcceptedFollow(w, o))
  PROVE  MayRead(w, o)
BY DEF MayRead, passesPostVisibilitySync

LEMMA FeedShows ==
  ASSUME SurfaceInv, NEW o \in Objects, NEW w \in Viewers,
         handleCommunityTimeline(w, o) \/ HomeTimeline(w, o) \/ FollowingTimeline(w, o)
  PROVE  ShownSoundly(w, o)
<1>1. /\ FeedNote(o) /\ excludeModeratedActors(w, o) /\ ~isActorBlockedStrict(o)
      /\ o.type = "Note" /\ o.vis # "direct"
      /\ o.vis \in {"public", "unlisted", "followers", "direct"}
  BY ModeratedIsStrict, ObjectIs
     DEF handleCommunityTimeline, HomeTimeline, FollowingTimeline, FeedNote, ObjectFits, Kinds
<1>2. o.audience = {} => o.place = "none" /\ canViewerReadObject(w, o)
  BY <1>1, ObjectIs, UnscopedIsReadable DEF ObjectFits
<1>3. o.vis = "followers" \/ Open(o)
  BY <1>1 DEF Open
<1>4. ASSUME o.audience = {}, hasAcceptedFollow(w, o) \/ Open(o)
      PROVE  MayRead(w, o)
  BY <1>1, <1>2, <1>3, <1>4, NoteIsReadable
<1>5. ASSUME canViewerReadObject(w, o), communityPostVisibilityGate(w, o)
      PROVE  MayRead(w, o) \/ Own(w, o)
  BY <1>1, <1>5, NoteIsReadable DEF communityPostVisibilityGate
<1>6. CASE handleCommunityTimeline(w, o)
  <2>1. canViewerReadObject(w, o)
    BY <1>6 DEF handleCommunityTimeline, resolveCommunityRead, canViewerReadObject
  <2> QED
    BY <1>1, <1>4, <1>5, <1>6, <2>1 DEF handleCommunityTimeline, MemberPost, ShownSoundly
<1>7. CASE HomeTimeline(w, o)
  <2>1. CASE w = Anyone
    BY <1>1, <1>4, <1>7, <2>1, TheNames DEF HomeTimeline, Open, ShownSoundly
  <2>2. CASE w # Anyone
    BY <1>1, <1>4, <1>5, <1>7, <2>2, MemberIsReadable DEF HomeTimeline, MemberPost, ShownSoundly
  <2> QED
    BY <2>1, <2>2
<1>8. CASE FollowingTimeline(w, o)
  BY <1>1, <1>4, <1>8 DEF FollowingTimeline, ShownSoundly
<1> QED
  BY <1>6, <1>7, <1>8

LEMMA SearchShows ==
  ASSUME SurfaceInv, NEW o \in Objects, NEW w \in Viewers,
         SearchPosts(w, o) \/ SearchHashtag(w, o) \/ ProfilePosts(w, o)
  PROVE  ShownSoundly(w, o)
<1>1. /\ o.type = "Note" /\ excludeModeratedActors(w, o) /\ ~isActorBlockedStrict(o)
      /\ Own(w, o) \/ (o.vis = "public" /\ o.audience = {})
  BY ModeratedIsStrict DEF SearchPosts, SearchHashtag, ProfilePosts, publicSearchableWhere
<1>2. o.audience = {} => canViewerReadObject(w, o)
  BY <1>1, ObjectIs, UnscopedIsReadable DEF ObjectFits
<1> QED
  BY <1>1, <1>2, NoteIsReadable DEF Open, ShownSoundly

LEMMA StoriesShow ==
  ASSUME SurfaceInv, NEW o \in Objects, NEW w \in Viewers,
         StoryFeed(w, o) \/ ActorStories(w, o)
  PROVE  ShownSoundly(w, o)
<1>1. /\ o.type = "Story" /\ ~expired /\ excludeModeratedActors(w, o)
      /\ ~isActorBlockedStrict(o)
      /\ resolveStoryScope(w, o.place)
      /\ o.place = "none" => Own(w, o) \/ hasAcceptedFollow(w, o)
  BY ModeratedIsStrict DEF StoryFeed, ActorStories
<1>2. canViewerReadObject(w, o)
  BY <1>1, ObjectIs, UnscopedIsReadable, MemberIsReadable
     DEF ObjectFits, resolveStoryScope
<1>3. CASE Own(w, o)
  BY <1>1, <1>3 DEF ShownSoundly
<1>4. CASE ~Own(w, o)
  <2>1. o.place # "none" \/ hasAcceptedFollow(w, o)
    BY <1>1, <1>4
  <2>2. MayRead(w, o)
    BY <1>1, <1>2, <2>1 DEF MayRead, passesPostVisibilitySync
  <2> QED
    BY <1>1, <2>2 DEF ShownSoundly
<1> QED
  BY <1>3, <1>4

LEMMA PagesShow ==
  ASSUME SurfaceInv, NEW o \in Objects, NEW w \in Viewers,
         PostPage(w, o) \/ filterVisibleReplies(w, o) \/ Bookmarks(w, o)
           \/ NotificationText(w, o)
  PROVE  ShownSoundly(w, o)
<1>1. w = Me => excludeModeratedActors(w, o)
  BY DEF PostPage, filterVisibleReplies, Bookmarks, NotificationText
<1>2. CASE PostPage(w, o)
  BY <1>1, <1>2 DEF PostPage, ShownSoundly
<1>3. CASE ~PostPage(w, o)
  <2>1. /\ ~isActorBlockedStrict(o) /\ communityReadableApIds(w, o)
        /\ passesPostVisibilitySync(w, o, hasAcceptedFollow(w, o),
                                    hasProjectedRecipient(w, o), expired)
    BY <1>3, ModeratedIsStrict DEF filterVisibleReplies, Bookmarks, NotificationText
  <2> QED
    BY <1>1, <2>1, RoomGatesAgree DEF MayRead, ShownSoundly
<1> QED
  BY <1>2, <1>3

(* What is attached to an open Note outside the room, anyone may read.     *)
LEMMA MediaShows ==
  ASSUME SurfaceInv, NEW o \in Objects, NEW w \in Viewers, MediaPublic(w, o)
  PROVE  MayRead(Anyone, o)
<1>1. /\ o.by = Me /\ MayRead(w, o) /\ ~Own(w, o)
      /\ o.place = "none" /\ o.type = "Note" /\ Open(o)
  BY ObjectIs DEF MediaPublic, checkMediaAuthorization, ObjectFits, Kinds
<1>2. w = Anyone
  BY <1>1 DEF Viewers, Own
<1> QED
  BY <1>1, <1>2

LEMMA OutboxShows ==
  ASSUME SurfaceInv, NEW o \in Objects, Published(o)
  PROVE  MayRead(Anyone, o)
<1>1. /\ o.type = "Note" /\ Open(o) /\ ~isActorBlockedStrict(o)
      /\ o.audience = {} \/ room = "public"
  BY ModeratedIsStrict
     DEF Published, publicOutboxGate, communityOutboxGate, loadFederatedCommunity
<1>2. canViewerReadObject(Anyone, o)
  <2>1. CASE o.audience = {}
    BY <1>1, <2>1, ObjectIs, UnscopedIsReadable DEF ObjectFits
  <2>2. CASE room = "public"
    BY <2>2 DEF canViewerReadObject
  <2> QED
    BY <1>1, <2>1, <2>2
<1> QED
  BY <1>1, <1>2, NoteIsReadable

LEMMA SurfacesAgree ==
  ASSUME SurfaceInv
  PROVE  TypeOK /\ SurfacesReadable
<1> SUFFICES ASSUME obj # Absent
             PROVE  /\ \A w \in Viewers :
                         /\ Listed(w, obj) => ShownSoundly(w, obj)
                         /\ MediaPublic(w, obj) => MayRead(Anyone, obj)
                    /\ Published(obj) => MayRead(Anyone, obj)
  BY DEF SurfacesReadable, ShownSoundly, SurfaceInv
<1>1. obj \in Objects
  BY DEF SurfaceInv, TypeOK, Objects
<1>2. ASSUME NEW w \in Viewers, Listed(w, obj) PROVE ShownSoundly(w, obj)
  BY <1>1, <1>2, FeedShows, SearchShows, StoriesShow, PagesShow DEF Listed
<1> QED
  BY <1>1, <1>2, MediaShows, OutboxShows

-----------------------------------------------------------------------------
(* What the invariants say of the properties.                              *)

LEMMA LoginCounts == \A S : Login!Cardinality(S) = Cardinality(S)
BY DEF Login!Cardinality, Cardinality

LEMMA OwnerIsOne ==
  ASSUME LoginInv
  PROVE  Login!OneOwner
<1> SUFFICES ASSUME SingleOwner PROVE Cardinality(Login!Owners) <= 1
  BY LoginCounts DEF Login!OneOwner
<1>1. CASE Login!Owners = {}
  BY <1>1, FS_EmptySet
<1>2. ASSUME NEW h \in Login!Owners PROVE Login!Owners = {h}
  BY <1>2 DEF LoginInv, LoginRows, OneOwnerIn, Login!Owners, Login!Live
<1>3. ASSUME NEW h \in Login!Owners PROVE Cardinality(Login!Owners) <= 1
  <2>1. Cardinality({h}) = 1
    BY FS_Singleton
  <2> QED
    BY <1>2, <2>1
<1> QED
  BY <1>1, <1>3

LEMMA LoginFollows ==
  ASSUME LoginInv
  PROVE  Login!TypeOK /\ Login!SessionsIdentified /\ Login!OneOwner
<1>1. Login!TypeOK
  <2>1. \A h \in Login!Handles : /\ rows[h].st \in {"none", "live", "dead"}
                                 /\ rows[h].gen \in 0..MaxGens
    <3> TAKE h \in Login!Handles
    <3>1. rows[h] \in Actors /\ rows[h].gen <= gens /\ gens \in 0..MaxGens
      BY DEF LoginInv, LoginRows, RowsMade
    <3> QED
      BY <3>1, AccessNumbers DEF Actors
  <2>2. \A s \in sessions : s.id \in 1..MaxRequests /\ s.of \in Login!Handles
    BY DEF LoginInv, LoginRows, Opened
  <2> QED
    BY <2>1, <2>2 DEF LoginInv, LoginRest, LockFits, Login!TypeOK
<1>2. Login!SessionsIdentified
  <2> SUFFICES ASSUME NEW s \in sessions
               PROVE  /\ Login!Live(s.of) /\ rows[s.of].gen = s.gen
                      /\ s.by \in Subjects => rows[s.of].sub = s.by
    BY DEF Login!SessionsIdentified
  <2>1. SessionFits(s, rows) /\ s.of \in Login!Handles
    BY DEF LoginInv, LoginRows, Opened
  <2>2. /\ rows[s.of].st = "live" /\ rows[s.of].gen = s.gen
        /\ s.by \in Subjects => rows[s.of].sub = s.by
    BY <2>1 DEF SessionFits
  <2> QED
    BY <2>1, <2>2 DEF Login!Live
<1> QED
  BY <1>1, <1>2, OwnerIsOne

LEMMA ListFollows ==
  ASSUME ListInv
  PROVE  List!TypeOK /\ List!ArchivedStaysAway /\ List!WalkIsComplete
<1>1. List!TypeOK
  BY AccessNumbers DEF ListInv, ListTypes, CleanSound, Letters, Cleanups, Walks, List!TypeOK, List!Rows
<1>2. List!ArchivedStaysAway
  BY ListedIs DEF ListInv, MarkersSound, List!ArchivedStaysAway
<1>3. List!WalkIsComplete
  BY DEF ListInv, WalkSound, List!WalkIsComplete
<1> QED
  BY <1>1, <1>2, <1>3

-----------------------------------------------------------------------------
(* The three parts together.                                               *)

AccessInv ==
  /\ SurfaceInv
  /\ part = "login" => LoginInv
  /\ part = "list" => ListInv

accessVars == <<part, vars, loginVars, listVars>>

LEMMA AccessInit == MCInit => AccessInv
BY SurfaceInit, LoginInit, ListInit DEF MCInit, AccessInv

LEMMA LoginStays ==
  ASSUME LoginInv, UNCHANGED loginVars
  PROVE  LoginInv'
<1>1. /\ rows' = rows /\ reserved' = reserved /\ sessions' = sessions /\ states' = states
      /\ lock' = lock /\ req' = req /\ gens' = gens /\ begun' = begun
  BY DEF loginVars
<1> QED
  BY <1>1 DEF LoginInv, LoginRows, LoginCalls, LoginRest

LEMMA ListStays ==
  ASSUME ListInv, UNCHANGED listVars
  PROVE  ListInv'
<1>1. /\ inbox' = inbox /\ sent' = sent /\ archived' = archived /\ hidden' = hidden
      /\ now' = now /\ clean' = clean /\ put' = put /\ walk' = walk
  BY DEF listVars
<1>2. (\A w \in Workers : CleanSound(clean[w]))'
  BY <1>1 DEF ListInv, CleanSound
<1>3. WalkSound'
  BY <1>1, ListedIs DEF ListInv, WalkSound
<1> QED
  BY <1>1, <1>2, <1>3 DEF ListInv, ListTypes, MarkersSound

LEMMA AccessNext ==
  ASSUME AccessInv, [MCNext]_accessVars
  PROVE  AccessInv' /\ (replied' /\ ~replied => ReplyFits)
<1>1. /\ [Next]_vars /\ part' = part
  BY DEF MCNext, SurfaceStep, LoginStep, ListStep, accessVars
<1>2. part = "login" => Login!Next \/ UNCHANGED loginVars
  BY DEF MCNext, SurfaceStep, LoginStep, ListStep, accessVars
<1>3. part = "list" => List!Next \/ UNCHANGED listVars
  BY DEF MCNext, SurfaceStep, LoginStep, ListStep, accessVars
<1>4. SurfaceInv' /\ (replied' /\ ~replied => ReplyFits)
  BY <1>1, SurfaceNext DEF AccessInv
<1>5. part' = "login" => LoginInv'
  BY <1>1, <1>2, LoginNext, LoginStays DEF AccessInv
<1>6. part' = "list" => ListInv'
  BY <1>1, <1>3, ListNext, ListStays DEF AccessInv
<1> QED
  BY <1>4, <1>5, <1>6 DEF AccessInv

LEMMA AccessAlways == MCSpec => []AccessInv
<1>1. AccessInv /\ [MCNext]_accessVars => AccessInv'
  BY AccessNext
<1> QED
  BY <1>1, AccessInit, PTL DEF MCSpec, accessVars

(* No feed, search, profile, story ring, page, notification, outbox or     *)
(* media answer shows a viewer what canViewerReadObjectFull would refuse,  *)
(* or what the viewer hides, in any state the relations, the room and the  *)
(* object can reach (post-visibility.ts and the queries of the routes).    *)
THEOREM SurfacesAreSound == MCSpec => []SurfacesSound
<1>1. AccessInv => SurfacesSound
  BY SurfacesAgree DEF AccessInv, SurfacesSound
<1> QED
  BY <1>1, AccessAlways, PTL

(* A reply is stored only when its author may read the parent in that very *)
(* state, whatever changed since the gate read its tables: the receipt of  *)
(* inboundNoteParentAdmissionSql repeats every fact.                       *)
THEOREM RepliesAreReadable == MCSpec => RepliesReadable
<1>1. AccessInv /\ [MCNext]_accessVars =>
        [replied' /\ ~replied =>
           obj = Absent \/ /\ MayRead(Them, obj)
                           /\ ~actorSuppressesInteractionFrom(Them, obj)]_vars
  BY AccessNext DEF ReplyFits
<1> QED
  BY <1>1, AccessAlways, PTL DEF MCSpec, accessVars, RepliesReadable

(* For any number of browsers, subjects and requests a session is of the   *)
(* identity that signed in and a server with a single owner has one        *)
(* (rotateSession, createActor, noLiveOwner).                              *)
THEOREM LoginSound == MCSpec => []LoginIsSound
<1>1. AccessInv => LoginIsSound
  BY LoginFollows DEF AccessInv, LoginIsSound
<1> QED
  BY <1>1, AccessAlways, PTL

(* For any number of rows and workers an archived notification stays away  *)
(* and a walk through the pages misses no row that stayed, whatever the    *)
(* cleanup deletes meanwhile (notifCursorPredicate, archived markers).     *)
THEOREM ListSteady == MCSpec => []ListIsSteady
<1>1. AccessInv => ListIsSteady
  BY ListFollows DEF AccessInv, ListIsSteady
<1> QED
  BY <1>1, AccessAlways, PTL

=============================================================================
