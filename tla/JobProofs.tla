------------------------------ MODULE JobProofs ------------------------------
(***************************************************************************)
(* What holds of the jobs that outlive their messages.                     *)
(*                                                                         *)
(* The fanout, for every audience, page size, number of runners and bound: *)
(* a fanout that is completed has served everybody who stayed in its       *)
(* audience, and no position beyond its last stage is queued.              *)
(*                                                                         *)
(* The push job of a notification, for every number of workers, pushkeys,  *)
(* attempts and registrations: a worker that was overtaken does no harm.   *)
(***************************************************************************)
EXTENDS MCJobs, FiniteSetTheorems, TLAPS

-----------------------------------------------------------------------------
(* The inductive invariant.                                                *)

\* Stage i of the fanout owes nothing to a.
Handled(i, a) ==
  IF Stages[i] = "local_members" THEN a \in Local => a \in served
  ELSE a \in Local \cup served \cup blocked

\* Everybody before the position of a wakeup has been handled.
Covered(i, cursor) ==
  \A j \in 1..Len(Stages) : \A a \in Audience(Stages[j]) :
    j < i \/ (j = i /\ a <= cursor) => Handled(j, a)

\* A page holds everybody after the cursor, or it is full and the others come
\* later; whoever is in it and not left to serve is handled.
PageOf(r) ==
  LET i == r.msg.stage IN
  /\ \A a \in Audience(Stages[i]) : a > r.msg.cursor =>
       \/ a \in r.page
       \/ Cardinality(r.page) = PageSize /\ \A b \in r.page : b < a
  /\ \A a \in r.page \ r.left : Handled(i, a)

RunOK(r) ==
  /\ r.pc \in {"idle", "publish", "serve", "next", "ack"}
  /\ r.msg \in Wakeups /\ r.left \subseteq r.page /\ r.page \subseteq Actors
  /\ Cardinality(r.page) <= PageSize
  /\ r.pc = "next" => r.left = {}
  /\ activity /\ r.pc \in {"serve", "next"} =>
       Covered(r.msg.stage, r.msg.cursor) /\ PageOf(r)

FanoutInv ==
  /\ fanout \in Active \cup Terminal \cup {"none"}
  /\ msgs \subseteq Wakeups
  /\ served \subseteq Actors /\ members \subseteq Members /\ followers \subseteq Followers
  /\ blocked \cap Local = {}
  /\ DOMAIN run = Runners
  /\ \A w \in Runners : RunOK(run[w])
  /\ activity => \A m \in msgs : Covered(m.stage, m.cursor)
  /\ ~activity => fanout = "none"
  /\ fanout = "completed" => Covered(Len(Stages) + 1, 0)

-----------------------------------------------------------------------------
(* Lemmas about a page.                                                    *)

LEMMA LeastOf ==
  ASSUME NEW T \in SUBSET Nat, T # {}
  PROVE  \E x \in T : \A y \in T : x <= y
<1>1. IsWellFoundedOn(OpToRel(<, Nat), Nat)
  BY NatLessThanWellFounded
<1>2. PICK x \in T : \A y \in T : ~(<<y, x>> \in OpToRel(<, Nat))
  BY <1>1, WFMin
<1>3. \A y \in T : ~(y < x)
  BY <1>2 DEF OpToRel
<1>4. \A y \in T : x <= y
  BY <1>3
<1> QED
  BY <1>4

LEMMA MaxOf ==
  ASSUME NEW n \in Nat, NEW S \in SUBSET (1..n), S # {}
  PROVE  Max(S) \in S /\ \A y \in S : y <= Max(S)
<1> DEFINE Bounds == {b \in Nat : \A y \in S : y <= b}
<1>1. n \in Bounds
  OBVIOUS
<1>2. PICK b \in Bounds : \A c \in Bounds : b <= c
  BY <1>1, LeastOf
<1>3. b \in S
  <2>1. SUFFICES ASSUME b \notin S PROVE FALSE
    OBVIOUS
  <2>2. PICK y \in S : TRUE
    OBVIOUS
  <2>3. b # 0
    BY <1>2, <2>2
  <2>4. \A z \in S : z <= b - 1
    BY <1>2, <2>1
  <2>5. b - 1 \in Bounds
    BY <2>3, <2>4
  <2> QED
    BY <1>2, <2>5
<1>4. \E x \in S : \A y \in S : x >= y
  BY <1>2, <1>3
<1> QED
  BY <1>4 DEF Max

\* The first members of a set, at most as many as a page holds.
FirstOf(rest) == {a \in rest : Cardinality({b \in rest : b <= a}) <= PageSize}

LEMMA FirstPage ==
  ASSUME NEW rest \in SUBSET Actors
  PROVE  LET page == FirstOf(rest) IN
         /\ page \subseteq rest /\ Cardinality(page) \in 0..PageSize
         /\ \A a \in rest \ page : Cardinality(page) = PageSize /\ \A b \in page : b < a
<1> DEFINE upto(a) == {b \in rest : b <= a}
           page == FirstOf(rest)
<1>0. rest \subseteq 1..N /\ rest \subseteq Nat /\ N \in Nat /\ PageSize \in Nat \ {0}
      /\ \A x \in rest : x \in Nat
  BY FanoutAssumption DEF Actors
<1>1. IsFiniteSet(rest)
  <2>1. IsFiniteSet(1..N)
    <3>1. 1 \in Int /\ N \in Int
      BY <1>0
    <3> QED
      BY <3>1, FS_Interval
  <2> QED
    BY <1>0, <2>1, FS_Subset
<1>2. page \subseteq rest /\ IsFiniteSet(page) /\ Cardinality(page) \in Nat
  <2>1. page \subseteq rest
    BY DEF FirstOf
  <2>2. IsFiniteSet(page)
    BY <1>1, <2>1, FS_Subset
  <2> QED
    BY <2>1, <2>2, FS_CardinalityType
<1>3. \A a \in rest : IsFiniteSet(upto(a)) /\ Cardinality(upto(a)) \in Nat
  <2> TAKE a \in rest
  <2>1. upto(a) \in SUBSET rest
    OBVIOUS
  <2>2. IsFiniteSet(upto(a))
    BY <1>1, <2>1, FS_Subset
  <2> QED
    BY <2>2, FS_CardinalityType
<1>4. \A a \in page : \A b \in rest : b <= a => b \in page
  <2> TAKE a \in page
  <2> TAKE b \in rest
  <2> HAVE b <= a
  <2>1. a \in rest /\ Cardinality(upto(a)) <= PageSize
    BY DEF FirstOf
  <2>2. upto(b) \in SUBSET upto(a)
    <3>1. \A c \in rest : c <= b => c <= a
      BY <1>0, <2>1
    <3> QED
      BY <3>1
  <2>3. Cardinality(upto(b)) <= Cardinality(upto(a))
    BY <1>3, <2>1, <2>2, FS_Subset
  <2>4. Cardinality(upto(b)) <= PageSize
    BY <1>0, <1>3, <2>1, <2>3
  <2> QED
    BY <2>4 DEF FirstOf
<1>5. Cardinality(page) <= PageSize
  <2>1. CASE page = {}
    BY <1>0, <2>1, FS_EmptySet
  <2>2. CASE page # {}
    <3> DEFINE top == Max(page)
    <3>1. page \in SUBSET (1..N)
      BY <1>0, <1>2
    <3>2. top \in page /\ \A y \in page : y <= top
      BY <1>0, <2>2, <3>1, MaxOf
    <3>3. page \in SUBSET upto(top) /\ top \in rest
      BY <1>2, <3>2
    <3>4. Cardinality(page) <= Cardinality(upto(top))
      BY <1>3, <3>3, FS_Subset
    <3>5. Cardinality(upto(top)) <= PageSize
      BY <3>2 DEF FirstOf
    <3>6. Cardinality(page) \in Nat /\ Cardinality(upto(top)) \in Nat /\ PageSize \in Nat
      BY <1>0, <1>2, <1>3, <3>3
    <3> HIDE DEF page, top, upto
    <3> QED
      BY <3>4, <3>5, <3>6
  <2> QED
    BY <2>1, <2>2
<1>6. \A a \in rest \ page : \A b \in page : b < a /\ b <= a
  <2> TAKE a \in rest \ page
  <2> TAKE b \in page
  <2>1. a \in Nat /\ b \in Nat
    BY <1>0, <1>2
  <2>2. ~(a <= b)
    BY <1>4
  <2> QED
    BY <2>1, <2>2
<1>7. rest # page => Cardinality(page) >= PageSize
  <2>1. SUFFICES ASSUME rest # page, Cardinality(page) < PageSize PROVE FALSE
    BY <1>0, <1>2
  <2>2. rest \ page # {} /\ rest \ page \in SUBSET Nat
    BY <1>0, <1>2, <2>1
  <2>3. PICK a \in rest \ page : \A b \in rest \ page : a <= b
    BY <2>2, LeastOf
  <2>4. upto(a) = page \cup {a}
    <3>1. \A b \in page : b <= a
      BY <1>6, <2>3
    <3>2. \A b \in rest : b <= a => b \in page \/ b = a
      BY <1>0, <2>3
    <3> QED
      BY <1>2, <2>3, <3>1, <3>2
  <2>5. Cardinality(upto(a)) = Cardinality(page) + 1
    <3>1. a \notin page
      BY <2>3
    <3> HIDE DEF page, upto
    <3> QED
      BY <1>2, <2>4, <3>1, FS_AddElement
  <2>6. Cardinality(upto(a)) <= PageSize
    BY <1>0, <1>2, <2>1, <2>5
  <2> QED
    BY <2>3, <2>6 DEF FirstOf
<1> QED
  BY <1>0, <1>2, <1>5, <1>6, <1>7

LEMMA StageCount == Len(Stages) \in {1, 3}
<1>1. Len(<<"remote_followers">>) = 1
  OBVIOUS
<1>2. Len(<<"local_members", "remote_members", "remote_followers">>) = 3
  OBVIOUS
<1> QED
  BY <1>1, <1>2, FanoutAssumption

-----------------------------------------------------------------------------
(* What is covered stays covered.                                          *)

\* Audiences shrink, and nothing that was served or blocked is undone.
Narrowing ==
  /\ members' \subseteq members /\ followers' \subseteq followers
  /\ served \subseteq served' /\ blocked \subseteq blocked'

LEMMA CoveredStays ==
  ASSUME Narrowing, NEW i, NEW cursor, Covered(i, cursor)
  PROVE  Covered(i, cursor)'
<1>1. \A j : Audience(Stages[j])' \subseteq Audience(Stages[j])
  BY DEF Narrowing, Audience
<1>2. \A j, a : Handled(j, a) => Handled(j, a)'
  BY DEF Narrowing, Handled
<1> QED
  BY <1>1, <1>2 DEF Covered

LEMMA RunStays ==
  ASSUME Narrowing, activity' => activity, NEW r, RunOK(r)
  PROVE  RunOK(r)'
<1>1. Audience(Stages[r.msg.stage])' \subseteq Audience(Stages[r.msg.stage])
  BY DEF Narrowing, Audience
<1>2. \A j, a : Handled(j, a) => Handled(j, a)'
  BY DEF Narrowing, Handled
<1>3. PageOf(r) => PageOf(r)'
  BY <1>1, <1>2 DEF PageOf
<1>4. Covered(r.msg.stage, r.msg.cursor) => Covered(r.msg.stage, r.msg.cursor)'
  BY CoveredStays
<1> QED
  BY <1>3, <1>4 DEF RunOK

\* A runner moves on, the others do what they did.
LEMMA RunsStay ==
  ASSUME FanoutInv, Narrowing, activity' => activity
  PROVE  /\ run' = run => DOMAIN run' = Runners /\ \A v \in Runners : RunOK(run[v])'
         /\ \A w \in Runners : \A r : Set(w, r) /\ RunOK(r)' =>
              DOMAIN run' = Runners /\ \A v \in Runners : RunOK(run[v])'
<1>1. ASSUME NEW v \in Runners, run'[v] = run[v] PROVE RunOK(run[v])'
  BY <1>1, RunStays DEF FanoutInv
<1>2. CASE run' = run
  BY <1>1, <1>2 DEF FanoutInv
<1>3. ASSUME NEW w \in Runners, NEW r, Set(w, r), RunOK(r)'
      PROVE  DOMAIN run' = Runners /\ \A v \in Runners : RunOK(run[v])'
  <2>1. /\ DOMAIN run' = Runners /\ run'[w] = r
        /\ \A v \in Runners : v # w => run'[v] = run[v]
    BY <1>3 DEF Set, FanoutInv
  <2> QED
    BY <1>1, <1>3, <2>1
<1> QED
  BY <1>2, <1>3

\* What every step but the deletion of the Activity has to show.
LEMMA FanoutFrame ==
  ASSUME FanoutInv, Narrowing, activity' = activity, served' \subseteq Actors,
         blocked' \cap Local = {},
         \/ fanout' = fanout
         \/ fanout' \in {"published", "failed", "discarded", "none"} /\ fanout # "none"
         \/ fanout' = "completed" /\ fanout # "none" /\ Covered(Len(Stages) + 1, 0),
         msgs' \subseteq Wakeups,
         activity => \A m \in msgs' : Covered(m.stage, m.cursor),
         DOMAIN run' = Runners,
         \A w \in Runners : RunOK(run[w])'
  PROVE  FanoutInv'
<1>1. activity' => \A m \in msgs' : Covered(m.stage, m.cursor)'
  BY CoveredStays
<1>2. fanout' = "completed" => Covered(Len(Stages) + 1, 0)'
  BY CoveredStays DEF FanoutInv
<1>3. /\ fanout' \in Active \cup Terminal \cup {"none"}
      /\ ~activity' => fanout' = "none"
  BY DEF FanoutInv, Active, Terminal
<1>4. members' \subseteq Members /\ followers' \subseteq Followers
  BY DEF FanoutInv, Narrowing
<1> QED
  BY <1>1, <1>2, <1>3, <1>4 DEF FanoutInv

LEMMA RestingOK ==
  ASSUME NEW r, r.pc \in {"idle", "publish", "ack"}, r.msg \in Wakeups,
         r.left = {}, r.page = {}
  PROVE  RunOK(r)'
<1>1. Cardinality({}) <= PageSize
  BY FS_EmptySet, FanoutAssumption
<1> QED
  BY <1>1 DEF RunOK

LEMMA FirstWakeup ==
  ASSUME FanoutInv
  PROVE  Wakeup(1, 0) \in Wakeups /\ Covered(1, 0)
<1>1. \A j : Audience(Stages[j]) \subseteq Actors
  BY FanoutAssumption DEF FanoutInv, Audience
<1>2. Covered(1, 0)
  <2> SUFFICES ASSUME NEW j \in 1..Len(Stages), NEW a \in Audience(Stages[j]),
                      j < 1 \/ (j = 1 /\ a <= 0)
               PROVE  Handled(j, a)
    BY DEF Covered
  <2>1. a \in 1..N /\ N \in Nat
    BY <1>1, FanoutAssumption DEF Actors
  <2>2. j \in Nat /\ ~(j < 1) /\ a > 0
    BY <2>1, StageCount
  <2> QED
    BY <2>1, <2>2
<1>3. Wakeup(1, 0) \in Wakeups
  BY FanoutAssumption, StageCount DEF Wakeup, Wakeups
<1> QED
  BY <1>2, <1>3

LEMMA IdleIs ==
  /\ \A pc : LET r == [Idle EXCEPT !.pc = pc] IN
       r.pc = pc /\ r.msg = Wakeup(1, 0) /\ r.left = {} /\ r.page = {}
  /\ \A m : LET r == [Idle EXCEPT !.pc = "ack", !.msg = m] IN
       r.pc = "ack" /\ r.msg = m /\ r.left = {} /\ r.page = {}
  /\ Idle.pc = "idle" /\ Idle.msg = Wakeup(1, 0) /\ Idle.left = {} /\ Idle.page = {}
BY DEF Idle

-----------------------------------------------------------------------------
(* The steps.                                                              *)

\* A step that neither serves nor plans: the runner rests, or nobody moves.
LEMMA RestingStep ==
  ASSUME FanoutInv,
         \/ \E w \in Runners : Publish(w) \/ MarkPublished(w) \/ Ack(w) \/ Crash(w)
         \/ \E w \in Runners, m \in msgs : DropSettled(w, m) \/ DiscardDeleted(w, m)
         \/ \E m \in msgs : Redrive(m) \/ GiveUp(m)
         \/ Restart \/ PurgeTerminal
         \/ \E a \in Actors : Leave(a) \/ Unfollow(a) \/ Block(a)
  PROVE  FanoutInv'
<1> USE DEF Event
<1>0. /\ FanoutInv /\ served \subseteq Actors /\ blocked \cap Local = {}
      /\ msgs \subseteq Wakeups /\ DOMAIN run = Runners
      /\ activity => \A m \in msgs : Covered(m.stage, m.cursor)
  BY DEF FanoutInv
<1>1. UNCHANGED <<activity, served>> /\ Narrowing
  BY DEF Publish, MarkPublished, Ack, Crash, DropSettled, DiscardDeleted, Redrive, GiveUp,
     Restart, PurgeTerminal, Leave, Unfollow, Block, Narrowing, outside
<1>2. blocked' \cap Local = {}
  BY <1>0 DEF Publish, MarkPublished, Ack, Crash, DropSettled, DiscardDeleted, Redrive, GiveUp,
     Restart, PurgeTerminal, Leave, Unfollow, Block, outside
<1>3. \/ fanout' = fanout
      \/ fanout' \in {"published", "failed", "discarded", "none"} /\ fanout # "none"
  BY DEF Publish, MarkPublished, Ack, Crash, DropSettled, DiscardDeleted, Redrive, GiveUp,
     Restart, PurgeTerminal, Leave, Unfollow, Block, FanoutBecomes, Abandoned, Active, Terminal
<1>4. \/ msgs' \subseteq msgs
      \/ msgs' = msgs \cup {Wakeup(1, 0)}
      \/ \E m \in msgs : m.redrive < MaxRedrives
                         /\ msgs' = (msgs \ {m}) \cup {[m EXCEPT !.redrive = @ + 1]}
  BY DEF Publish, MarkPublished, Ack, Crash, DropSettled, DiscardDeleted, Redrive, GiveUp,
     Restart, PurgeTerminal, Leave, Unfollow, Block
<1>5. msgs' \subseteq Wakeups /\ (activity => \A m \in msgs' : Covered(m.stage, m.cursor))
  <2>1. CASE msgs' \subseteq msgs
    BY <1>0, <2>1
  <2>2. CASE msgs' = msgs \cup {Wakeup(1, 0)}
    <3>1. Wakeup(1, 0).stage = 1 /\ Wakeup(1, 0).cursor = 0
      BY DEF Wakeup
    <3> QED
      BY <1>0, <2>2, <3>1, FirstWakeup
  <2>3. ASSUME NEW m \in msgs, m.redrive < MaxRedrives,
               msgs' = (msgs \ {m}) \cup {[m EXCEPT !.redrive = @ + 1]}
        PROVE  msgs' \subseteq Wakeups /\ (activity => \A x \in msgs' : Covered(x.stage, x.cursor))
    <3> DEFINE n == [m EXCEPT !.redrive = @ + 1]
    <3>1. m \in Wakeups
      BY <1>0
    <3>2. n \in Wakeups /\ n.stage = m.stage /\ n.cursor = m.cursor
      BY <2>3, <3>1, FanoutAssumption DEF Wakeups
    <3>3. msgs' = (msgs \ {m}) \cup {n}
      BY <2>3
    <3> HIDE DEF n
    <3> QED
      BY <1>0, <3>2, <3>3
  <2> QED
    BY <1>4, <2>1, <2>2, <2>3
<1>6. \/ run' = run \/ run' = [w \in Runners |-> Idle]
      \/ \E w \in Runners : Set(w, Idle) \/ Set(w, [Idle EXCEPT !.pc = "publish"])
  BY DEF Publish, MarkPublished, Ack, Crash, DropSettled, DiscardDeleted, Redrive, GiveUp,
     Restart, PurgeTerminal, Leave, Unfollow, Block
<1>7. RunOK(Idle)' /\ RunOK([Idle EXCEPT !.pc = "publish"])'
  <2>1. Wakeup(1, 0) \in Wakeups
    BY FirstWakeup
  <2>2. RunOK(Idle)'
    BY <2>1, IdleIs, RestingOK
  <2>3. PICK q : q = [Idle EXCEPT !.pc = "publish"]
    OBVIOUS
  <2>4. q.pc = "publish" /\ q.msg = Wakeup(1, 0) /\ q.left = {} /\ q.page = {}
    BY <2>3, IdleIs
  <2>5. RunOK(q)'
    BY <2>1, <2>4, RestingOK
  <2> QED
    BY <2>2, <2>3, <2>5
<1>8. DOMAIN run' = Runners /\ \A v \in Runners : RunOK(run[v])'
  <2>1. CASE run' = [w \in Runners |-> Idle]
    BY <1>7, <2>1
  <2> QED
    BY <1>1, <1>6, <1>7, <2>1, RunsStay
<1> QED
  BY <1>0, <1>1, <1>2, <1>3, <1>5, <1>8, FanoutFrame

LEMMA PlanStep ==
  ASSUME FanoutInv, NEW w \in Runners, NEW m \in msgs, PlanPage(w, m)
  PROVE  FanoutInv'
<1> DEFINE page == PageAt(m)
           left == Recipients(m, page)
           rest == {a \in Audience(Stages[m.stage]) : a > m.cursor}
           r == [pc |-> IF left = {} THEN "next" ELSE "serve",
                 msg |-> m, page |-> page, left |-> left]
<1>1. /\ UNCHANGED <<outside, fanout, served, msgs>> /\ activity /\ Set(w, r)
      /\ m \in Wakeups /\ Covered(m.stage, m.cursor)
  BY DEF PlanPage, FanoutInv
<1>2. Narrowing
  BY <1>1 DEF Narrowing, outside
<1>3. rest \subseteq Actors
  BY FanoutAssumption DEF FanoutInv, Audience
<1>4. page = FirstOf(rest)
  BY DEF PageAt, FirstOf
<1>5. /\ page \subseteq rest /\ Cardinality(page) \in 0..PageSize
      /\ \A a \in rest \ page : Cardinality(page) = PageSize /\ \A b \in page : b < a
  BY <1>3, <1>4, FirstPage
<1>6. left \subseteq page /\ \A a \in page \ left : Handled(m.stage, a)
  BY DEF Recipients, Handled
<1>7. PageOf(r)
  <2>1. r.msg = m /\ r.page = page /\ r.left = left
    OBVIOUS
  <2>2. \A a \in Audience(Stages[m.stage]) : a > m.cursor => a \in rest
    OBVIOUS
  <2> HIDE DEF page, left, rest, r
  <2> QED
    BY <1>5, <1>6, <2>1, <2>2 DEF PageOf
<1>8. RunOK(r)
  <2>1. r.msg = m /\ r.page = page /\ r.left = left /\ r.pc \in {"serve", "next"}
        /\ (r.pc = "next" => left = {})
    OBVIOUS
  <2>2. Cardinality(page) <= PageSize
    BY <1>5, FanoutAssumption
  <2> HIDE DEF page, left, rest, r
  <2> QED
    BY <1>1, <1>3, <1>5, <1>6, <1>7, <2>1, <2>2 DEF RunOK
<1>9. PICK q : q = r
  OBVIOUS
<1> HIDE DEF r
<1>10. DOMAIN run' = Runners /\ \A v \in Runners : RunOK(run[v])'
  <2>1. RunOK(q)'
    BY <1>1, <1>2, <1>8, <1>9, RunStays DEF outside
  <2> QED
    BY <1>1, <1>2, <1>9, <2>1, RunsStay DEF outside
<1> QED
  BY <1>1, <1>2, <1>10, FanoutFrame DEF FanoutInv, outside

LEMMA ServeStep ==
  ASSUME FanoutInv, NEW w \in Runners, Serve(w)
  PROVE  FanoutInv'
<1>1. PICK group \in SUBSET run[w].left \ {{}} :
        /\ served' = served \cup group
        /\ Set(w, [run[w] EXCEPT !.pc = IF group = run[w].left THEN "next" ELSE "serve",
                                 !.left = @ \ group])
  BY DEF Serve
<1> DEFINE r == [run[w] EXCEPT !.pc = IF group = run[w].left THEN "next" ELSE "serve",
                               !.left = @ \ group]
<1>2. UNCHANGED <<outside, fanout, msgs>> /\ run[w].pc = "serve" /\ RunOK(run[w])
  BY DEF Serve, At, FanoutInv
<1>3. Narrowing
  BY <1>1, <1>2 DEF Narrowing, outside
<1>4. served' \subseteq Actors
  BY <1>1, <1>2 DEF RunOK, FanoutInv
<1>5. PICK o : o = run[w]
  OBVIOUS
<1>6. PICK n : n = r
  OBVIOUS
<1>7. /\ n.pc = IF group = o.left THEN "next" ELSE "serve"
      /\ n.msg = o.msg /\ n.page = o.page /\ n.left = o.left \ group
  BY <1>5, <1>6
<1>8. RunOK(n)'
  <2>1. RunOK(o)' /\ o.pc = "serve" /\ activity' = activity
    BY <1>2, <1>3, <1>5, RunStays DEF outside
  <2>2. PageOf(o)' => PageOf(n)'
    <3>1. \A a \in group : Handled(o.msg.stage, a)'
      BY <1>1, <1>5, <2>1 DEF Handled
    <3> QED
      BY <1>7, <3>1 DEF PageOf
  <2> QED
    BY <1>7, <2>1, <2>2 DEF RunOK
<1>9. DOMAIN run' = Runners /\ \A v \in Runners : RunOK(run[v])'
  <2> HIDE DEF r
  <2> QED
    BY <1>1, <1>2, <1>3, <1>6, <1>8, RunsStay DEF outside, r
<1> QED
  BY <1>2, <1>3, <1>4, <1>9, FanoutFrame DEF FanoutInv, outside

\* What follows a page that has been handled.
LEMMA AfterPage ==
  ASSUME FanoutInv, NEW m \in Wakeups, NEW page \in SUBSET Actors,
         Covered(m.stage, m.cursor), Cardinality(page) <= PageSize,
         \A a \in page : Handled(m.stage, a),
         \A a \in Audience(Stages[m.stage]) : a > m.cursor =>
           \/ a \in page
           \/ Cardinality(page) = PageSize /\ \A b \in page : b < a
  PROVE  /\ Last(m, page) => Covered(Len(Stages) + 1, 0)
         /\ ~Last(m, page) => LET n == Continuation(m, page) IN Covered(n.stage, n.cursor)
<1>0. /\ \A j : \A a \in Audience(Stages[j]) : a \in Nat
      /\ m.stage \in 1..Len(Stages) /\ m.cursor \in Nat /\ Len(Stages) \in Nat
      /\ N \in Nat /\ PageSize \in Nat \ {0} /\ page \in SUBSET (1..N) /\ page \subseteq Nat
  <2>1. \A j : Audience(Stages[j]) \subseteq Actors
    BY FanoutAssumption DEF FanoutInv, Audience
  <2>2. Len(Stages) \in Nat
    BY StageCount
  <2>3. N \in Nat /\ PageSize \in Nat \ {0}
    BY FanoutAssumption
  <2>4. \A a \in Actors : a \in Nat
    BY <2>3 DEF Actors
  <2>5. m.stage \in 1..Len(Stages) /\ m.cursor \in Nat
    BY <2>3 DEF Wakeups
  <2> QED
    BY <2>1, <2>2, <2>3, <2>4, <2>5 DEF Actors
<1>c. IsFiniteSet(page) /\ Cardinality(page) \in Nat
  <2>1. 1 \in Int /\ N \in Int
    BY <1>0
  <2>2. IsFiniteSet(1..N)
    BY <2>1, FS_Interval
  <2>3. IsFiniteSet(page)
    BY <1>0, <2>2, FS_Subset
  <2> QED
    BY <2>3, FS_CardinalityType
<1>1. ASSUME Cardinality(page) < PageSize
      PROVE  \A a \in Audience(Stages[m.stage]) : Handled(m.stage, a)
  <2> TAKE a \in Audience(Stages[m.stage])
  <2>0. a \in Nat /\ m.cursor \in Nat /\ m.stage \in 1..Len(Stages)
    BY <1>0, Zenon
  <2>1. a <= m.cursor \/ a > m.cursor
    BY <2>0
  <2>2. CASE a <= m.cursor
    BY <1>0, <2>2 DEF Covered
  <2>3. CASE a > m.cursor
    <3>1. Cardinality(page) # PageSize
      BY <1>0, <1>1, <1>c
    <3> QED
      BY <1>1, <2>3, <3>1
  <2> QED
    BY <2>1, <2>2, <2>3
<1>2. ASSUME Cardinality(page) < PageSize, NEW k \in Nat, k = m.stage + 1
      PROVE  Covered(k, 0)
  <2> SUFFICES ASSUME NEW j \in 1..Len(Stages), NEW a \in Audience(Stages[j]),
                      j < k \/ (j = k /\ a <= 0)
               PROVE  Handled(j, a)
    BY DEF Covered
  <2>1. CASE j < m.stage
    BY <1>0, <2>1 DEF Covered
  <2>2. CASE j = m.stage
    BY <1>1, <1>2, <2>2
  <2>3. CASE j > m.stage
    <3>1. j = k /\ a <= 0
      BY <1>0, <1>2, <2>3
    <3>2. a \in Actors
      BY FanoutAssumption DEF FanoutInv, Audience
    <3> QED
      BY <3>1, <3>2, <1>0 DEF Actors
  <2> QED
    BY <1>0, <2>1, <2>2, <2>3
<1>3. CASE Last(m, page)
  BY <1>0, <1>2, <1>3 DEF Last
<1>4. CASE ~Last(m, page) /\ Cardinality(page) = PageSize
  <2>1. page # {}
    BY <1>0, <1>4, FS_EmptySet
  <2>2. Max(page) \in page /\ \A y \in page : y <= Max(page)
    BY <1>0, <2>1, MaxOf
  <2>3. Continuation(m, page) = Wakeup(m.stage, Max(page))
    BY <1>4 DEF Continuation
  <2>4. Continuation(m, page).stage = m.stage /\ Continuation(m, page).cursor = Max(page)
    BY <2>3 DEF Wakeup
  <2>5. ASSUME NEW j \in 1..Len(Stages), NEW a \in Audience(Stages[j]),
               j < m.stage \/ (j = m.stage /\ a <= Max(page))
        PROVE  Handled(j, a)
    <3>0. a \in Nat /\ m.cursor \in Nat
      BY <1>0, Zenon
    <3>1. CASE j < m.stage
      BY <3>1 DEF Covered
    <3>2. CASE j = m.stage /\ a <= m.cursor
      BY <3>2 DEF Covered
    <3>3. CASE j = m.stage /\ a > m.cursor
      <4>0. m.stage \in Nat /\ Max(page) \in Nat
        <5>1. Max(page) \in Nat
          BY <1>0, <2>2, Zenon
        <5>2. Len(Stages) \in Nat /\ m.stage \in 1..Len(Stages)
          BY <1>0, Zenon
        <5> QED
          BY <5>1, <5>2
      <4>1. a <= Max(page) /\ a \in Nat /\ Max(page) \in Nat
        BY <2>5, <3>0, <3>3, <4>0
      <4>2. a \in page
        BY <2>2, <3>3, <4>1
      <4> QED
        BY <3>3, <4>2
    <3> QED
      BY <2>5, <3>0, <3>1, <3>2, <3>3
  <2>6. Covered(m.stage, Max(page))
    BY <2>5 DEF Covered
  <2> QED
    BY <1>4, <2>4, <2>6
<1>5. CASE ~Last(m, page) /\ Cardinality(page) # PageSize
  <2>1. Cardinality(page) < PageSize /\ m.stage + 1 \in Nat
    BY <1>0, <1>5, <1>c
  <2>2. Covered(m.stage + 1, 0)
    BY <1>2, <2>1
  <2>3. Continuation(m, page) = Wakeup(m.stage + 1, 0)
    BY <1>5 DEF Continuation
  <2>4. Continuation(m, page).stage = m.stage + 1 /\ Continuation(m, page).cursor = 0
    BY <2>3 DEF Wakeup
  <2> QED
    BY <1>5, <2>2, <2>4
<1> QED
  BY <1>3, <1>4, <1>5

LEMMA ContinuationType ==
  ASSUME NEW m \in Wakeups, NEW page \in SUBSET Actors, Cardinality(page) <= PageSize,
         ~Last(m, page)
  PROVE  Continuation(m, page) \in Wakeups
<1>0. /\ m.stage \in 1..Len(Stages) /\ Len(Stages) \in Nat /\ N \in Nat /\ MaxRedrives \in Nat
      /\ PageSize \in Nat \ {0} /\ page \in SUBSET (1..N)
  BY FanoutAssumption, StageCount DEF Wakeups, Actors
<1>1. CASE Cardinality(page) = PageSize
  <2>1. page # {}
    BY <1>0, <1>1, FS_EmptySet
  <2>2. Max(page) \in 1..N
    BY <1>0, <2>1, MaxOf
  <2>3. Max(page) \in 0..N
    BY <1>0, <2>2
  <2> QED
    BY <1>0, <1>1, <2>3 DEF Continuation, Wakeup, Wakeups
<1>2. CASE Cardinality(page) # PageSize
  <2>1. IsFiniteSet(page) /\ Cardinality(page) \in Nat
    <3>1. 1 \in Int /\ N \in Int
      BY <1>0
    <3>2. IsFiniteSet(1..N)
      BY <3>1, FS_Interval
    <3>3. IsFiniteSet(page)
      BY <1>0, <3>2, FS_Subset
    <3> QED
      BY <3>3, FS_CardinalityType
  <2>2. m.stage # Len(Stages)
    BY <1>0, <1>2, <2>1 DEF Last
  <2>3. m.stage + 1 \in 1..Len(Stages)
    BY <1>0, <2>2
  <2> QED
    BY <1>0, <1>2, <2>3 DEF Continuation, Wakeup, Wakeups
<1> QED
  BY <1>1, <1>2

LEMMA NextPageStep ==
  ASSUME FanoutInv, NEW w \in Runners, NextPage(w)
  PROVE  FanoutInv'
<1> DEFINE m == run[w].msg
           page == run[w].page
           r == [Idle EXCEPT !.pc = "ack", !.msg = m]
<1>1. /\ UNCHANGED <<outside, served>> /\ run[w].pc = "next" /\ RunOK(run[w]) /\ Set(w, r)
      /\ \/ Last(m, page) /\ FanoutBecomes("completed") /\ msgs' = msgs
         \/ ~Last(m, page) /\ msgs' = msgs \cup {Continuation(m, page)} /\ fanout' = fanout
  BY DEF NextPage, At, FanoutInv
<1>2. Narrowing
  BY <1>1 DEF Narrowing, outside
<1>3. /\ m \in Wakeups /\ page \in SUBSET Actors /\ Cardinality(page) <= PageSize
      /\ activity => Covered(m.stage, m.cursor) /\ PageOf(run[w])
      /\ run[w].left = {}
  BY <1>1 DEF RunOK
<1>4. activity =>
        /\ \A a \in page : Handled(m.stage, a)
        /\ \A a \in Audience(Stages[m.stage]) : a > m.cursor =>
             \/ a \in page
             \/ Cardinality(page) = PageSize /\ \A b \in page : b < a
  BY <1>3 DEF PageOf
<1>5. r.pc = "ack" /\ r.msg = m /\ r.left = {} /\ r.page = {}
  BY IdleIs
<1>6. PICK q : q = r
  OBVIOUS
<1> HIDE DEF m, page, r
<1>7. DOMAIN run' = Runners /\ \A v \in Runners : RunOK(run[v])'
  <2>1. RunOK(q)'
    BY <1>3, <1>5, <1>6, RestingOK
  <2> QED
    BY <1>1, <1>2, <1>6, <2>1, RunsStay DEF outside
<1>8. activity =>
        /\ Last(m, page) => Covered(Len(Stages) + 1, 0)
        /\ ~Last(m, page) => LET n == Continuation(m, page) IN Covered(n.stage, n.cursor)
  BY <1>3, <1>4, AfterPage
<1>9. msgs' \subseteq Wakeups /\ (activity => \A x \in msgs' : Covered(x.stage, x.cursor))
  BY <1>1, <1>3, <1>8, ContinuationType DEF FanoutInv
<1>10. \/ fanout' = fanout
       \/ fanout' = "completed" /\ fanout # "none" /\ Covered(Len(Stages) + 1, 0)
  BY <1>1, <1>8 DEF FanoutBecomes, Active, FanoutInv
<1> QED
  BY <1>1, <1>2, <1>7, <1>9, <1>10, FanoutFrame DEF FanoutInv, outside

LEMMA DeleteStep ==
  ASSUME FanoutInv, DeleteActivity
  PROVE  FanoutInv'
<1>1. /\ activity' = FALSE /\ fanout' = "none" /\ served' = {}
      /\ UNCHANGED <<members, followers, blocked, msgs, run>>
  BY DEF DeleteActivity
<1>2. ASSUME NEW w \in Runners PROVE RunOK(run[w])'
  BY <1>1, <1>2 DEF RunOK, FanoutInv
<1> QED
  BY <1>1, <1>2 DEF FanoutInv

LEMMA FanoutInvStep ==
  ASSUME FanoutInv, Next
  PROVE  FanoutInv'
<1>1. CASE DeleteActivity
  BY <1>1, DeleteStep
<1>2. CASE \E w \in Runners : Serve(w)
  BY <1>2, ServeStep
<1>3. CASE \E w \in Runners : NextPage(w)
  BY <1>3, NextPageStep
<1>4. CASE \E w \in Runners, m \in msgs : PlanPage(w, m)
  BY <1>4, PlanStep
<1> QED
  BY <1>1, <1>2, <1>3, <1>4, RestingStep DEF Next, Proceed, Receive

(* A fanout is completed only when everybody who stayed in its audience was  *)
(* served, whatever its audience and page size, however its pages were       *)
(* replayed, redriven, cut off by a crash or ended exactly at a boundary,    *)
(* and no wakeup of a position beyond its last stage is ever queued.         *)
THEOREM FanoutIsComplete == Spec => []FanoutComplete
<1>1. Init => FanoutInv
  <2> SUFFICES ASSUME Init PROVE FanoutInv
    OBVIOUS
  <2>1. Wakeup(1, 0) \in Wakeups
    BY FanoutAssumption, StageCount DEF Wakeup, Wakeups
  <2>2. Cardinality({}) <= PageSize
    BY FS_EmptySet, FanoutAssumption
  <2>3. RunOK(Idle)
    BY <2>1, <2>2, IdleIs DEF RunOK
  <2> QED
    BY <2>3, FanoutAssumption DEF Init, FanoutInv, Active
<1>2. FanoutInv => FanoutComplete
  <2> SUFFICES ASSUME FanoutInv PROVE TypeOK /\ CompletedServedAll
    BY DEF FanoutComplete
  <2>1. TypeOK
    BY DEF TypeOK, FanoutInv, RunOK
  <2>2. CompletedServedAll
    <3> SUFFICES ASSUME fanout = "completed", NEW a \in members \cup followers
                 PROVE  a \in served \cup blocked \cup (Local \ members)
      BY DEF CompletedServedAll
    <3>1. \A j \in 1..Len(Stages) : \A x \in Audience(Stages[j]) : Handled(j, x)
      BY StageCount DEF FanoutInv, Covered
    <3>2. CASE Stages = <<"remote_followers">>
      <4>1. Stages[1] = "remote_followers" /\ Len(Stages) = 1
        BY <3>2
      <4>2. members = {}
        BY <4>1, FanoutAssumption DEF FanoutInv
      <4>3. Handled(1, a)
        BY <3>1, <4>1, <4>2 DEF Audience
      <4> QED
        BY <4>1, <4>2, <4>3 DEF Handled
    <3>3. CASE Stages = <<"local_members", "remote_members", "remote_followers">>
      <4>1. /\ Stages[1] = "local_members" /\ Stages[2] = "remote_members"
            /\ Stages[3] = "remote_followers" /\ Len(Stages) = 3
        BY <3>3
      <4>2. a \in members => Handled(1, a) /\ Handled(2, a)
        BY <3>1, <4>1 DEF Audience
      <4>3. a \in followers => Handled(3, a)
        BY <3>1, <4>1 DEF Audience
      <4> QED
        BY <4>1, <4>2, <4>3 DEF Handled
    <3> QED
      BY <3>2, <3>3, FanoutAssumption
  <2> QED
    BY <2>1, <2>2
<1>3. FanoutInv /\ UNCHANGED vars => FanoutInv'
  <2> SUFFICES ASSUME FanoutInv, UNCHANGED vars PROVE FanoutInv'
    OBVIOUS
  <2>1. Narrowing
    BY DEF vars, outside, Narrowing
  <2>2. DOMAIN run' = Runners /\ \A v \in Runners : RunOK(run[v])'
    BY <2>1, RunsStay DEF vars, outside
  <2> QED
    BY <2>1, <2>2, FanoutFrame DEF vars, outside, FanoutInv
<1> QED
  BY <1>1, <1>2, <1>3, FanoutInvStep, PTL DEF Spec

-----------------------------------------------------------------------------
(* The push job: what is true of every row, and of every worker.           *)

Registrations ==
  [by : Push!Accounts \cup {"none"}, id : Nat, session : Nat, early : BOOLEAN]
Ids == SUBSET Nat
ActiveJob == {"pending", "queued", "processing", "retry_wait"}
JobStatus == ActiveJob \cup {"new", "none", "delivered", "failed"}
PushStages == {"idle", "claim", "fix", "load", "send", "sending"}
PushWorkers ==
  [pc : PushStages, fresh : BOOLEAN, rows : SUBSET (Keys \X Registrations),
   at : Keys \cup {"none"}, settled : Ids, retry : Ids]

PushTypes ==
  /\ job \in [status : JobStatus, attempts : Nat, pending : Ids, token : Workers \cup {"none"}]
  /\ row \in [Keys -> Registrations] /\ login \in [Push!Accounts -> Nat]
  /\ work \in [Workers -> PushWorkers]

\* A row that a worker read is still active while its stamp holds; what a worker
\* with the lease still has to send, or to try again, is on the list of the job.
PushWorkerSound(w) ==
  /\ work[w].pc = "claim" /\ work[w].fresh => job.status \in Push!Active
  /\ work[w].pc = "sending" => \E x \in work[w].rows : x[1] = work[w].at
  /\ work[w].pc \in {"send", "sending"} /\ Push!Leased(w) =>
       work[w].retry \cup {x[2].id : x \in work[w].rows} \subseteq job.pending
  /\ work[w].pc \notin {"send", "sending"} => work[w].retry = {}

PushInv ==
  /\ PushTypes /\ Push!TypeOK
  /\ job.status \in Push!Active \cup {"new"} => job.attempts < MaxAttempts
  /\ \A w \in Workers : PushWorkerSound(w)

\* What a step may do to the job, and to the rows under a worker.
JobKept ==
  /\ job.pending # Push!NotFixed => job'.pending \subseteq job.pending
  /\ job.status \in {"delivered", "failed"} => job'.status \in {job.status, "none"}

RowsKept ==
  \A w \in Workers, k \in Keys :
    work[w].pc = "sending" /\ work'[w].pc = "send" /\ row'[k] # row[k] =>
      <<k, row[k]>> \in work[w].rows

PushKept == PushInv' /\ JobKept /\ RowsKept

LEMMA PushBounds ==
  /\ "none" \notin Workers /\ MaxAttempts \in Nat /\ MaxAttempts > 0
         /\ MaxRegs \in Nat /\ MaxTries \in Nat /\ Push!Active = ActiveJob
         /\ Push!Nothing \in Nat /\ 0 \in 0..Push!Nothing /\ Push!Nothing \in 0..Push!Nothing
BY PushAssumption DEF Push!Nothing, Push!Active, ActiveJob

-----------------------------------------------------------------------------
(* The steps of the job, of the subscriptions and of the queue.            *)

\* Steps that leave the workers where they are and touch no list that is fixed.
LEMMA PushQuietStep ==
  ASSUME PushInv,
         \/ Push!Notify \/ Push!Ages \/ Push!Due \/ Push!SweepSend \/ Push!MessageLost
  PROVE  PushKept
<1> USE DEF PushInv, Push!TypeOK, PushTypes, Push!Notify, Push!Ages, Push!Due,
            Push!SweepSend, Push!MessageLost, Push!OnQueue, Push!pusherVars
<1>1. PushTypes' /\ Push!TypeOK'
  <2>1. PushTypes'
    BY DEF Push!Accounts, Registrations, JobStatus, ActiveJob
  <2>2. job'.status \in Push!Active \cup {"new", "none", "delivered", "failed"}
    BY DEF Push!Active
  <2>3. job'.attempts = job.attempts /\ regs' = regs /\ work' = work
    OBVIOUS
  <2>4. age' \in 0..2 /\ tries' \in 0..Push!Nothing
    BY PushBounds
  <2> QED
    BY <2>1, <2>2, <2>3, <2>4
<1>2. job'.status \in Push!Active \cup {"new"} => job'.attempts < MaxAttempts
  BY DEF Push!Active
<1>3. ASSUME NEW w \in Workers
      PROVE  PushWorkerSound(w)'
  <2>1. UNCHANGED work /\ PushWorkerSound(w)
    OBVIOUS
  <2>2. /\ job'.pending = job.pending /\ job'.token = job.token
        /\ job'.status = job.status \/ (job.status = "new" /\ job'.status = "pending")
    OBVIOUS
  <2> QED
    BY <2>1, <2>2 DEF PushWorkerSound, Push!Leased, Push!Active
<1>4. JobKept /\ RowsKept
  BY DEF JobKept, RowsKept
<1> QED
  BY <1>1, <1>2, <1>3, <1>4 DEF PushKept

\* A write of the row renews its stamp and leaves the workers where they are.
LEMMA TouchedIs ==
  ASSUME PushTypes, NEW e
  PROVE  /\ Push!Touched(e) \in [Workers -> PushWorkers]
         /\ \A w \in Workers :
              /\ Push!Touched(e)[w].pc = work[w].pc
              /\ Push!Touched(e)[w].rows = work[w].rows
              /\ Push!Touched(e)[w].at = work[w].at
              /\ Push!Touched(e)[w].retry = work[w].retry
              /\ w # e => Push!Touched(e)[w].fresh = FALSE
              /\ w = e => Push!Touched(e)[w] = work[w]
BY DEF PushTypes, PushWorkers, Push!Touched

LEMMA PushJobStep ==
  ASSUME PushInv,
         Push!Cleanup \/ Push!Reclaim \/ Push!SweepMark \/ Push!DeadLetter \/ Push!Purge
  PROVE  PushKept
<1>1. CASE UNCHANGED <<job, age, due, work, row, login, regs>> /\ tries' = Push!Nothing
  BY <1>1 DEF PushKept, PushInv, PushTypes, PushWorkerSound, JobKept, RowsKept, Push!TypeOK,
       Push!Leased, Push!Nothing
<1>2. CASE UNCHANGED <<job, age, tries, due, work, row, login, regs>>
  BY <1>2 DEF PushKept, PushInv, PushTypes, PushWorkerSound, JobKept, RowsKept, Push!TypeOK,
       Push!Leased
<1>3. CASE /\ work' = Push!Touched("none") /\ UNCHANGED <<row, login, regs>>
           /\ tries' \in {tries, Push!Nothing} /\ age' \in {age, 0}
           /\ \/ job' = Push!NoJob
              \/ job.status \in Push!Active /\ job' = Push!Reclaimed(job)
              \/ /\ job.status \in Push!Active
                 /\ job' = [job EXCEPT !.status = "queued", !.token = "none"]
  <2>0. /\ work' \in [Workers -> PushWorkers]
        /\ \A w \in Workers :
             /\ work'[w].pc = work[w].pc /\ work'[w].rows = work[w].rows
             /\ work'[w].at = work[w].at /\ work'[w].retry = work[w].retry
             /\ work'[w].fresh = FALSE
    BY <1>3, TouchedIs, PushBounds DEF PushInv
  <2> DEFINE Rewritten ==
        /\ job' \in [status : JobStatus, attempts : 0..MaxAttempts, pending : Ids,
                     token : Workers \cup {"none"}]
        /\ job'.status \in {"pending", "queued", "none", "failed"}
        /\ job'.pending \in {{}, job.pending}
        /\ job.status \in Push!Active \/ job'.status = "none"
        /\ job'.status \in Push!Active => job'.attempts < MaxAttempts
  <2>1. Rewritten
    <3>1. CASE job' = Push!NoJob
      BY <3>1, <1>3, PushBounds DEF Push!NoJob, Push!Job, Push!Active, Ids, JobStatus, ActiveJob
    <3>2. CASE job.status \in Push!Active /\ job' = Push!Reclaimed(job)
      <4>1. job.attempts \in Nat /\ job.attempts < MaxAttempts /\ job.pending \in Ids
        BY <3>2 DEF PushInv, PushTypes
      <4> QED
        BY <3>2, <4>1, PushBounds DEF Push!Reclaimed, Push!Job, Push!Active, JobStatus, ActiveJob
    <3>3. CASE /\ job.status \in Push!Active
               /\ job' = [job EXCEPT !.status = "queued", !.token = "none"]
      <4>1. job.attempts \in 0..MaxAttempts /\ job.attempts < MaxAttempts
        BY <3>3 DEF PushInv, Push!TypeOK
      <4> QED
        BY <3>3, <4>1, PushBounds DEF PushInv, PushTypes, Push!Active, JobStatus, ActiveJob
    <3> QED
      BY <1>3, <3>1, <3>2, <3>3
  <2>2. PushTypes' /\ Push!TypeOK'
    <3>1. PushTypes'
      BY <1>3, <2>0, <2>1 DEF PushInv, PushTypes
    <3>2. age' \in 0..2 /\ tries' \in 0..Push!Nothing
      BY <1>3, PushBounds DEF PushInv, Push!TypeOK
    <3>3. \A w \in Workers : work'[w].at \in Keys \cup {"none"}
      BY <2>0 DEF PushWorkers
    <3> QED
      BY <1>3, <2>1, <3>1, <3>2, <3>3 DEF PushInv, Push!TypeOK, Push!Active
  <2>3. ASSUME NEW w \in Workers
        PROVE  PushWorkerSound(w)'
    <3>1. ~Push!Leased(w)'
      BY <2>1 DEF Push!Leased
    <3>2. work'[w].pc = "claim" /\ work'[w].fresh => job'.status \in Push!Active
      BY <2>0, PushBounds
    <3>3. work'[w].pc = "sending" => \E x \in work'[w].rows : x[1] = work'[w].at
      BY <2>0 DEF PushInv, PushWorkerSound
    <3>4. work'[w].pc \notin {"send", "sending"} => work'[w].retry = {}
      BY <2>0 DEF PushInv, PushWorkerSound
    <3> QED
      BY <3>1, <3>2, <3>3, <3>4 DEF PushWorkerSound
  <2>4. JobKept /\ RowsKept
    BY <1>3, <2>1 DEF JobKept, RowsKept, Push!Active
  <2> QED
    BY <2>1, <2>2, <2>3, <2>4 DEF PushKept, PushInv
<1> QED
  BY <1>1, <1>2, <1>3 DEF Push!Cleanup, Push!Reclaim, Push!SweepMark, Push!DeadLetter,
     Push!Purge, Push!Active, Push!pusherVars

\* Registrations, their removal and the end of a login: no worker moves.
LEMMA PusherStep ==
  ASSUME PushInv,
         \/ \E a \in Push!Accounts, k \in Keys : Push!Register(a, k) \/ Push!Unregister(a, k)
         \/ \E k \in Keys : Push!Expire(k)
         \/ \E a \in Push!Accounts, cleaned \in BOOLEAN : Push!Logout(a, cleaned)
  PROVE  PushKept
<1> DEFINE Others == /\ UNCHANGED <<job, age, due, tries, sweep, work>>
                     /\ row' \in [Keys -> Registrations]
                     /\ login' \in [Push!Accounts -> Nat]
                     /\ regs' \in 0..MaxRegs
<1>1. Others
  <2>1. ASSUME NEW a \in Push!Accounts, NEW k \in Keys, Push!Register(a, k)
        PROVE  Others
    <3>1. regs \in Nat /\ regs + 1 \in 0..MaxRegs /\ login[a] \in Nat
      BY <2>1, PushBounds DEF PushInv, PushTypes, Push!TypeOK, Push!Register
    <3>2. row[k] \in Registrations
      BY DEF PushInv, PushTypes
    <3>3. row'[k] \in Registrations
      <4> DEFINE same == row[k].by = a
                 id == IF same THEN row[k].id ELSE regs + 1
                 early == IF same THEN row[k].early ELSE job.status = "new"
      <4>1. row' = [row EXCEPT ![k] = [by |-> a, id |-> id, session |-> login[a],
                                       early |-> early]]
        BY <2>1 DEF Push!Register
      <4>2. id \in Nat /\ early \in BOOLEAN
        <5>1. row[k].id \in Nat /\ row[k].early \in BOOLEAN
          BY <3>2 DEF Registrations
        <5>2. id \in Nat
          BY <3>1, <5>1
        <5>3. CASE same
          BY <5>1, <5>2, <5>3
        <5>4. CASE ~same
          <6>1. early = (job.status = "new")
            BY <5>4
          <6> QED
            BY <5>2, <6>1
        <5> QED
          BY <5>3, <5>4
      <4>3. row'[k] = [by |-> a, id |-> id, session |-> login[a], early |-> early]
        BY <4>1 DEF PushInv, PushTypes
      <4> HIDE DEF id, early
      <4> QED
        BY <3>1, <4>2, <4>3 DEF Registrations
    <3> QED
      BY <2>1, <3>1, <3>3 DEF PushInv, PushTypes, Push!Register
  <2>2. ASSUME NEW a \in Push!Accounts, NEW k \in Keys, Push!Unregister(a, k) \/ Push!Expire(k)
        PROVE  Others
    <3>1. Push!NoRow \in Registrations
      BY DEF Push!NoRow, Registrations
    <3> QED
      BY <2>2, <3>1 DEF PushInv, PushTypes, Push!TypeOK, Push!Unregister, Push!Expire
  <2>3. ASSUME NEW a \in Push!Accounts, NEW cleaned \in BOOLEAN, Push!Logout(a, cleaned)
        PROVE  Others
    BY <2>3 DEF PushInv, PushTypes, Push!TypeOK, Push!Logout, Registrations, Push!NoRow
  <2>4. \E a \in Push!Accounts : TRUE
    BY DEF Push!Accounts
  <2> QED
    BY <2>1, <2>2, <2>3, <2>4
<1> QED
  BY <1>1 DEF PushKept, PushInv, PushTypes, PushWorkerSound, JobKept, RowsKept, Push!TypeOK,
     Push!Leased

-----------------------------------------------------------------------------
(* The steps of a worker.                                                  *)

\* A worker stays sound while it waits and another one has the job.
LEMMA BystanderSound ==
  ASSUME PushInv, NEW v \in Workers,
         work'[v].pc = work[v].pc, work'[v].rows = work[v].rows,
         work'[v].at = work[v].at, work'[v].retry = work[v].retry,
         work'[v].fresh => work[v].fresh,
         \/ job' = job
         \/ /\ ~(job'.status = "processing" /\ job'.token = v)
            /\ work'[v].fresh => job'.status = job.status
  PROVE  PushWorkerSound(v)'
<1>1. PushWorkerSound(v)
  BY DEF PushInv
<1>2. (work'[v].pc = "claim" /\ work'[v].fresh) => job'.status \in ActiveJob
  BY <1>1, PushBounds DEF PushWorkerSound, Push!Active, ActiveJob
<1>3. work'[v].pc = "sending" => \E x \in work'[v].rows : x[1] = work'[v].at
  BY <1>1 DEF PushWorkerSound
<1>4. work'[v].pc \in {"send", "sending"} /\ Push!Leased(v)' =>
        work'[v].retry \cup {x[2].id : x \in work'[v].rows} \subseteq job'.pending
  BY <1>1 DEF PushWorkerSound, Push!Leased
<1>5. work'[v].pc \notin {"send", "sending"} => work'[v].retry = {}
  BY <1>1 DEF PushWorkerSound
<1> QED
  BY <1>2, <1>3, <1>4, <1>5 DEF PushWorkerSound, Push!Active, ActiveJob

\* Only worker w moves, and the row stays as it is.
LEMMA OneWorkerStep ==
  ASSUME PushInv, NEW w \in Workers, NEW r \in PushWorkers,
         work' = [work EXCEPT ![w] = r], UNCHANGED <<job, row, login, regs>>,
         age' \in {age, 0}, tries' \in 0..Push!Nothing, PushWorkerSound(w)',
         ~(work[w].pc = "sending" /\ r.pc = "send")
  PROVE  PushKept
<1>1. PushTypes' /\ work'[w] = r
  BY DEF PushInv, PushTypes, Push!Accounts, Registrations
<1>2. Push!TypeOK'
  BY <1>1 DEF PushInv, PushTypes, PushWorkers, Push!TypeOK, Push!Active, Push!Nothing
<1>3. ASSUME NEW v \in Workers
      PROVE  PushWorkerSound(v)'
  <2>1. v # w => work'[v] = work[v]
    BY DEF PushInv, PushTypes
  <2> QED
    BY <2>1, BystanderSound
<1>4. JobKept /\ RowsKept
  BY DEF JobKept, RowsKept
<1> QED
  BY <1>1, <1>2, <1>3, <1>4 DEF PushKept, PushInv, Push!Active

LEMMA IdleSound ==
  ASSUME NEW w \in Workers, work'[w] = Push!Idle
  PROVE  PushWorkerSound(w)'
BY DEF PushWorkerSound, Push!Idle

LEMMA IdleIsWorker == Push!Idle \in PushWorkers
BY DEF Push!Idle, PushWorkers, PushStages, Ids

LEMMA GoesIdle ==
  ASSUME PushInv, NEW w \in Workers, Push!To(w, Push!Idle),
         UNCHANGED <<job, row, login, regs>>, age' \in {age, 0},
         tries' \in {tries, Push!Nothing}
  PROVE  PushKept
<1>1. tries' \in 0..Push!Nothing
  BY PushBounds DEF PushInv, Push!TypeOK
<1>2. work' = [work EXCEPT ![w] = Push!Idle] /\ work'[w] = Push!Idle
  BY DEF Push!To, PushInv, PushTypes
<1>3. Push!Idle.pc # "send"
  BY DEF Push!Idle
<1> QED
  BY <1>1, <1>2, <1>3, IdleSound, IdleIsWorker, OneWorkerStep

LEMMA ReceiveStep ==
  ASSUME PushInv, NEW w \in Workers, Push!Receive(w)
  PROVE  PushKept
<1>1. /\ UNCHANGED <<job, age, row, login, regs>> /\ work[w] \in PushWorkers
      /\ work[w].pc = "idle" /\ tries < MaxTries
  BY DEF Push!Receive, Push!pusherVars, PushInv, PushTypes
<1>2. tries' \in 0..Push!Nothing
  BY <1>1, PushBounds DEF Push!Receive, Push!Ack, PushInv, Push!TypeOK, Push!Nothing
<1>3. CASE UNCHANGED work
  <2>1. work' = [work EXCEPT ![w] = work[w]] /\ PushWorkerSound(w)'
    BY <1>1, <1>3 DEF PushInv, PushTypes, PushWorkerSound
  <2> QED
    BY <1>1, <1>2, <2>1, OneWorkerStep
<1>4. CASE /\ job.status \in Push!Active
           /\ Push!To(w, [Push!Idle EXCEPT !.pc = "claim", !.fresh = TRUE])
  <2> DEFINE r == [Push!Idle EXCEPT !.pc = "claim", !.fresh = TRUE]
  <2>1. r \in PushWorkers /\ r.pc = "claim" /\ r.retry = {}
    BY DEF Push!Idle, PushWorkers, PushStages, Ids
  <2>2. work' = [work EXCEPT ![w] = r] /\ work'[w] = r
    BY <1>4 DEF Push!To, PushInv, PushTypes
  <2>3. PushWorkerSound(w)'
    BY <1>1, <1>4, <2>1, <2>2 DEF PushWorkerSound, Push!Active
  <2> QED
    BY <1>1, <1>2, <2>1, <2>2, <2>3, OneWorkerStep
<1> QED
  BY <1>3, <1>4 DEF Push!Receive

LEMMA ClaimStep ==
  ASSUME PushInv, NEW w \in Workers, Push!Claim(w)
  PROVE  PushKept
<1>1. CASE Push!To(w, Push!Idle) /\ UNCHANGED <<job, age>>
  BY <1>1, GoesIdle DEF Push!Claim, Push!pusherVars
<1>2. CASE /\ work[w].fresh /\ job' = [job EXCEPT !.status = "processing", !.token = w]
           /\ age' = 0 /\ work' = [Push!Touched(w) EXCEPT ![w].pc = "fix"]
  <2>1. work[w].pc = "claim" /\ UNCHANGED <<tries, row, login, regs>>
    BY DEF Push!Claim, Push!pusherVars
  <2>2. job.status \in ActiveJob /\ job.attempts < MaxAttempts
    BY <1>2, <2>1, PushBounds DEF PushInv, PushWorkerSound, Push!Active
  <2>3. /\ work' \in [Workers -> PushWorkers] /\ work'[w].pc = "fix" /\ work'[w].retry = {}
        /\ \A v \in Workers \ {w} :
             /\ work'[v].pc = work[v].pc /\ work'[v].rows = work[v].rows
             /\ work'[v].at = work[v].at /\ work'[v].retry = work[v].retry
             /\ work'[v].fresh = FALSE
    <3> DEFINE T == Push!Touched(w)
    <3>1. /\ T \in [Workers -> PushWorkers]
          /\ \A v \in Workers :
               /\ T[v].pc = work[v].pc /\ T[v].rows = work[v].rows
               /\ T[v].at = work[v].at /\ T[v].retry = work[v].retry
               /\ v # w => T[v].fresh = FALSE
      BY TouchedIs DEF PushInv
    <3>2. work' = [T EXCEPT ![w] = [T[w] EXCEPT !.pc = "fix"]]
      BY <1>2
    <3> HIDE DEF T
    <3>3. [T[w] EXCEPT !.pc = "fix"] \in PushWorkers
      BY <3>1 DEF PushWorkers, PushStages
    <3>4. work'[w] = [T[w] EXCEPT !.pc = "fix"] /\ \A v \in Workers \ {w} : work'[v] = T[v]
      BY <3>1, <3>2
    <3>5. T[w].retry = {}
      BY <2>1, <3>1 DEF PushInv, PushWorkerSound
    <3>6. [T[w] EXCEPT !.pc = "fix"].pc = "fix" /\ [T[w] EXCEPT !.pc = "fix"].retry = {}
      BY <3>1, <3>5 DEF PushWorkers
    <3> QED
      BY <3>1, <3>2, <3>3, <3>4, <3>6
  <2>4. /\ job' \in [status : JobStatus, attempts : Nat, pending : Ids,
                     token : Workers \cup {"none"}]
        /\ job'.status = "processing" /\ job'.token = w
        /\ job'.attempts = job.attempts /\ job'.pending = job.pending
    BY <1>2 DEF PushInv, PushTypes, JobStatus, ActiveJob
  <2>5. PushTypes' /\ Push!TypeOK'
    <3>1. PushTypes'
      BY <2>1, <2>3, <2>4 DEF PushInv, PushTypes, Push!Accounts, Registrations
    <3>2. \A v \in Workers : work'[v].at \in Keys \cup {"none"}
      BY <2>3 DEF PushWorkers
    <3> QED
      BY <1>2, <2>1, <2>4, <3>1, <3>2 DEF PushInv, Push!TypeOK, Push!Active, Push!Nothing
  <2>6. ASSUME NEW v \in Workers
        PROVE  PushWorkerSound(v)'
    <3>1. CASE v = w
      BY <2>3, <3>1 DEF PushWorkerSound
    <3>2. CASE v # w
      BY <2>3, <2>4, <3>2, BystanderSound
    <3> QED
      BY <3>1, <3>2
  <2>7. JobKept
    BY <2>2, <2>4 DEF JobKept, ActiveJob
  <2>8. RowsKept
    BY <2>1 DEF RowsKept
  <2> QED
    BY <2>2, <2>4, <2>5, <2>6, <2>7, <2>8 DEF PushKept, PushInv
<1> QED
  BY <1>1, <1>2 DEF Push!Claim

\* The worker ends with its job; if it still has the lease the job is over, or it
\* waits for what is left of its list.
LEMMA EndStep ==
  ASSUME PushInv, NEW w \in Workers,
         work' = [Push!Touched("none") EXCEPT ![w] = Push!Idle],
         UNCHANGED <<row, login, regs>>, age' \in {age, 0}, tries' \in {tries, Push!Nothing},
         \/ job' = job
         \/ Push!Leased(w) /\ \E pend \in Ids, n \in 0..MaxAttempts :
              /\ job.pending # Push!NotFixed => pend \subseteq job.pending
              /\ \/ job' = Push!Job("delivered", n, pend)
                 \/ job' = Push!Job("failed", n, pend)
                 \/ n < MaxAttempts /\ job' = Push!Job("retry_wait", n, pend)
  PROVE  PushKept
<1>1. /\ work' \in [Workers -> PushWorkers] /\ work'[w] = Push!Idle
      /\ \A v \in Workers \ {w} :
           /\ work'[v].pc = work[v].pc /\ work'[v].rows = work[v].rows
           /\ work'[v].at = work[v].at /\ work'[v].retry = work[v].retry
           /\ work'[v].fresh = FALSE
  BY TouchedIs, IdleIsWorker, PushBounds DEF PushInv
<1>2. \/ job' = job
      \/ /\ job' \in [status : JobStatus, attempts : 0..MaxAttempts, pending : Ids,
                      token : Workers \cup {"none"}]
         /\ job.status = "processing" /\ job'.status \in {"delivered", "failed", "retry_wait"}
         /\ job'.status = "retry_wait" => job'.attempts < MaxAttempts
         /\ job.pending # Push!NotFixed => job'.pending \subseteq job.pending
  BY DEF Push!Job, Push!Leased, JobStatus, ActiveJob
<1>3. PushTypes' /\ Push!TypeOK'
  <2>1. /\ job' \in [status : JobStatus, attempts : Nat, pending : Ids,
                     token : Workers \cup {"none"}]
        /\ job'.attempts \in 0..MaxAttempts
    BY <1>2, PushBounds DEF PushInv, PushTypes, Push!TypeOK
  <2>2. PushTypes'
    BY <1>1, <2>1 DEF PushInv, PushTypes, Push!Accounts, Registrations
  <2>3. \A v \in Workers : work'[v].at \in Keys \cup {"none"}
    BY <1>1 DEF PushWorkers
  <2>4. age' \in 0..2 /\ tries' \in 0..Push!Nothing
    BY PushBounds DEF PushInv, Push!TypeOK
  <2> QED
    BY <2>1, <2>2, <2>3, <2>4
       DEF PushInv, Push!TypeOK, Push!Active, Push!Nothing, JobStatus, ActiveJob
<1>4. ASSUME NEW v \in Workers
      PROVE  PushWorkerSound(v)'
  <2>1. CASE v = w
    BY <1>1, <2>1, IdleSound
  <2>2. CASE v # w
    BY <1>1, <1>2, <2>2, BystanderSound
  <2> QED
    BY <2>1, <2>2
<1>5. job'.status \in ActiveJob \cup {"new"} => job'.attempts < MaxAttempts
  BY <1>2, PushBounds DEF PushInv, ActiveJob
<1>6. JobKept
  BY <1>2 DEF JobKept
<1>7. RowsKept
  BY DEF RowsKept
<1> QED
  BY <1>3, <1>4, <1>5, <1>6, <1>7 DEF PushKept, PushInv, Push!Active, ActiveJob

LEMMA FinishStep ==
  ASSUME PushInv, NEW w \in Workers, Push!Finish(w),
         UNCHANGED <<age, row, login, regs>>
  PROVE  PushKept
<1>1. {} \in Ids /\ job.attempts \in 0..MaxAttempts
  BY DEF Ids, PushInv, Push!TypeOK
<1> QED
  BY <1>1, EndStep DEF Push!Finish, Push!Ack

LEMMA GiveBackStep ==
  ASSUME PushInv, NEW w \in Workers, NEW pend \in Ids,
         Push!Leased(w) => pend \subseteq job.pending,
         Push!GiveBack(w, pend), UNCHANGED <<age, row, login, regs>>
  PROVE  PushKept
<1>1. CASE ~Push!Leased(w)
  BY <1>1, EndStep DEF Push!GiveBack, Push!Ack
<1>2. CASE Push!Leased(w)
  <2>1. job.attempts \in Nat /\ job.attempts < MaxAttempts
    BY <1>2, PushBounds DEF PushInv, Push!TypeOK, Push!Leased, ActiveJob
  <2>2. /\ job.attempts + 1 \in 0..MaxAttempts
        /\ job.attempts + 1 >= MaxAttempts \/ job.attempts + 1 < MaxAttempts
    BY <2>1, PushBounds
  <2>3. \/ job' = Push!Job("failed", job.attempts + 1, pend)
        \/ /\ job.attempts + 1 < MaxAttempts
           /\ job' = Push!Job("retry_wait", job.attempts + 1, pend)
    BY <1>2, <2>2 DEF Push!GiveBack
  <2>4. tries' \in {tries, Push!Nothing}
    BY <1>2 DEF Push!GiveBack, Push!Ack
  <2> QED
    BY <1>2, <2>2, <2>3, <2>4, EndStep DEF Push!GiveBack
<1> QED
  BY <1>1, <1>2

LEMMA FixStep ==
  ASSUME PushInv, NEW w \in Workers, NEW eligible \in BOOLEAN,
         Push!Fix(w, eligible)
  PROVE  PushKept
<1> DEFINE mine == {row[k].id : k \in {x \in Keys : row[x].by = Push!Owner /\ row[x].early}}
           ids == IF job.pending # Push!NotFixed THEN job.pending ELSE mine
<1>1. work[w].pc = "fix" /\ UNCHANGED <<row, login, regs>>
  BY DEF Push!Fix, Push!pusherVars
<1>2. CASE Push!Finish(w) /\ UNCHANGED age
  BY <1>1, <1>2, FinishStep
<1>3. CASE Push!To(w, Push!Idle) /\ Push!Ack /\ UNCHANGED <<job, age>>
  BY <1>1, <1>3, GoesIdle DEF Push!Ack
<1>4. CASE /\ Push!Leased(w) /\ job' = [job EXCEPT !.pending = ids] /\ age' = 0
           /\ Push!To(w, [work[w] EXCEPT !.pc = "load"]) /\ UNCHANGED tries
  <2> DEFINE r == [work[w] EXCEPT !.pc = "load"]
  <2>1. job.pending \in Ids /\ work[w] \in PushWorkers /\ job.status = "processing"
    BY <1>4 DEF PushInv, PushTypes, Push!Leased
  <2>2. ids \in Ids
    <3>1. mine \subseteq Nat
      BY DEF PushInv, PushTypes, Registrations
    <3> QED
      BY <2>1, <3>1 DEF Ids
  <2>3. job.pending # Push!NotFixed => ids = job.pending
    OBVIOUS
  <2> HIDE DEF ids
  <2>4. /\ job' \in [status : JobStatus, attempts : Nat, pending : Ids,
                     token : Workers \cup {"none"}]
        /\ job'.status = job.status /\ job'.attempts = job.attempts /\ job'.token = job.token
        /\ job'.pending = ids
    BY <1>4, <2>2 DEF PushInv, PushTypes
  <2>5. r \in PushWorkers /\ r.pc = "load" /\ r.retry = {}
    <3>1. work[w].retry = {}
      BY <1>1 DEF PushInv, PushWorkerSound
    <3> QED
      BY <2>1, <3>1 DEF PushWorkers, PushStages
  <2>6. /\ work' \in [Workers -> PushWorkers] /\ work'[w] = r
        /\ \A v \in Workers \ {w} : work'[v] = work[v]
    <3>1. work' = [work EXCEPT ![w] = r]
      BY <1>4 DEF Push!To
    <3> HIDE DEF r
    <3> QED
      BY <2>5, <3>1 DEF PushInv, PushTypes
  <2>7. PushTypes' /\ Push!TypeOK'
    <3>1. PushTypes'
      BY <1>1, <2>4, <2>6 DEF PushInv, PushTypes, Push!Accounts, Registrations
    <3>2. \A v \in Workers : work'[v].at \in Keys \cup {"none"}
      BY <2>6 DEF PushWorkers
    <3> QED
      BY <1>1, <1>4, <2>4, <3>1, <3>2 DEF PushInv, Push!TypeOK, Push!Active, Push!Nothing
  <2>8. ASSUME NEW v \in Workers
        PROVE  PushWorkerSound(v)'
    <3>1. CASE v = w
      BY <2>5, <2>6, <3>1 DEF PushWorkerSound
    <3>2. CASE v # w
      BY <1>4, <2>4, <2>6, <3>2, BystanderSound DEF Push!Leased
    <3> QED
      BY <3>1, <3>2
  <2>9. JobKept
    BY <2>1, <2>3, <2>4 DEF JobKept
  <2>10. RowsKept
    BY <1>1 DEF RowsKept
  <2> QED
    BY <2>4, <2>7, <2>8, <2>9, <2>10 DEF PushKept, PushInv, Push!Active
<1> QED
  BY <1>2, <1>3, <1>4 DEF Push!Fix

LEMMA LoadStep ==
  ASSUME PushInv, NEW w \in Workers, Push!Load(w)
  PROVE  PushKept
<1> DEFINE rows == {k \in Keys : row[k].by = Push!Owner /\ row[k].id \in job.pending}
           loaded == {<<k, row[k]>> : k \in rows}
           gone == job.pending \ {row[k].id : k \in rows}
           r == [work[w] EXCEPT !.pc = "send", !.rows = loaded, !.settled = gone]
<1>1. /\ work[w].pc = "load" /\ UNCHANGED <<age, row, login, regs>>
      /\ work[w] \in PushWorkers /\ job.pending \in Ids
  BY DEF Push!Load, Push!pusherVars, PushInv, PushTypes
<1>2. CASE Push!Finish(w)
  BY <1>1, <1>2, FinishStep
<1>3. CASE Push!To(w, r) /\ UNCHANGED <<job, tries>>
  <2>1. loaded \subseteq Keys \X Registrations /\ gone \in Ids
    BY <1>1 DEF PushInv, PushTypes, Ids
  <2>2. {x[2].id : x \in loaded} \subseteq job.pending
    OBVIOUS
  <2>3. work' = [work EXCEPT ![w] = r]
    BY <1>3 DEF Push!To
  <2>4. work[w].retry = {}
    BY <1>1 DEF PushInv, PushWorkerSound
  <2> HIDE DEF loaded, gone
  <2>5. r \in PushWorkers /\ r.pc = "send" /\ r.rows = loaded /\ r.retry = work[w].retry
    BY <1>1, <2>1 DEF PushWorkers, PushStages
  <2> HIDE DEF r
  <2>6. work'[w] = r
    BY <2>3 DEF PushInv, PushTypes
  <2>7. tries' \in 0..Push!Nothing
    BY <1>3 DEF PushInv, Push!TypeOK
  <2>8. PushWorkerSound(w)'
    BY <2>2, <2>4, <2>5, <2>6, <1>3 DEF PushWorkerSound
  <2> QED
    BY <1>1, <1>3, <2>3, <2>5, <2>7, <2>8, OneWorkerStep
<1> QED
  BY <1>2, <1>3 DEF Push!Load

LEMMA RefreshStep ==
  ASSUME PushInv, NEW w \in Workers, NEW k \in Keys, Push!Refresh(w, k)
  PROVE  PushKept
<1>1. /\ work[w].pc = "send" /\ UNCHANGED <<job, row, login, regs>> /\ work[w] \in PushWorkers
      /\ \E x \in work[w].rows : x[1] = k
  BY DEF Push!Refresh, Push!pusherVars, PushInv, PushTypes
<1>2. CASE Push!To(w, Push!Idle) /\ Push!Ack /\ UNCHANGED age
  BY <1>1, <1>2, GoesIdle DEF Push!Ack
<1>3. CASE /\ age' = 0 /\ Push!To(w, [work[w] EXCEPT !.pc = "sending", !.at = k])
           /\ UNCHANGED tries
  <2> DEFINE r == [work[w] EXCEPT !.pc = "sending", !.at = k]
  <2>1. work' = [work EXCEPT ![w] = r]
    BY <1>3 DEF Push!To
  <2>2. /\ r \in PushWorkers /\ r.pc = "sending" /\ r.at = k /\ r.rows = work[w].rows
        /\ r.retry = work[w].retry
    BY <1>1 DEF PushWorkers, PushStages
  <2> HIDE DEF r
  <2>3. work'[w] = r
    BY <2>1 DEF PushInv, PushTypes
  <2>4. PushWorkerSound(w)'
    <3>1. PushWorkerSound(w) /\ work'[w].pc = "sending"
      BY <2>2, <2>3 DEF PushInv
    <3>2. \E x \in work'[w].rows : x[1] = work'[w].at
      BY <1>1, <2>2, <2>3
    <3>3. Push!Leased(w)' => Push!Leased(w)
      BY <1>1 DEF Push!Leased
    <3> QED
      BY <1>1, <2>2, <2>3, <3>1, <3>2, <3>3 DEF PushWorkerSound
  <2>5. tries' \in 0..Push!Nothing
    BY <1>3 DEF PushInv, Push!TypeOK
  <2> QED
    BY <1>1, <1>3, <2>1, <2>2, <2>4, <2>5, OneWorkerStep
<1> QED
  BY <1>2, <1>3 DEF Push!Refresh

\* The row that goes is the row that was loaded: one that another login has taken
\* over meanwhile is another row.
LEMMA OutcomeStep ==
  ASSUME PushInv, NEW w \in Workers, NEW res, Push!Outcome(w, res)
  PROVE  PushKept
<1> DEFINE x == CHOOSE y \in work[w].rows : y[1] = work[w].at
           end == IF Push!SessionLive(x[2]) THEN res ELSE "gone"
           tried == [work[w] EXCEPT !.pc = "send", !.rows = @ \ {x},
                                    !.retry = @ \union {x[2].id}]
           done == [work[w] EXCEPT !.pc = "send", !.rows = @ \ {x},
                                   !.settled = @ \union {x[2].id}]
<1>1. /\ work[w].pc = "sending" /\ UNCHANGED <<job, age, due, tries, sweep, login, regs>>
      /\ work[w] \in PushWorkers /\ PushWorkerSound(w)
  BY DEF Push!Outcome, PushInv, PushTypes
<1>2. x \in work[w].rows
  BY <1>1 DEF PushWorkerSound
<1>3. x \in Keys \X Registrations /\ x = <<x[1], x[2]>> /\ x[2].id \in Nat
  BY <1>1, <1>2 DEF PushWorkers, Registrations
<1>4. row' = row \/ row' = Push!RemoveRow(x[1], x[2])
  BY DEF Push!Outcome
<1>5. work' = [work EXCEPT ![w] = tried] \/ work' = [work EXCEPT ![w] = done]
  <2>1. work' = [work EXCEPT ![w] =
          IF end = "retry"
            THEN [[work[w] EXCEPT !.pc = "send", !.rows = @ \ {x}]
                    EXCEPT !.retry = @ \union {x[2].id}]
            ELSE [[work[w] EXCEPT !.pc = "send", !.rows = @ \ {x}]
                    EXCEPT !.settled = @ \union {x[2].id}]]
    BY DEF Push!Outcome, Push!To
  <2>2. /\ [[work[w] EXCEPT !.pc = "send", !.rows = @ \ {x}]
               EXCEPT !.retry = @ \union {x[2].id}] = tried
        /\ [[work[w] EXCEPT !.pc = "send", !.rows = @ \ {x}]
               EXCEPT !.settled = @ \union {x[2].id}] = done
    BY <1>1 DEF PushWorkers
  <2> HIDE DEF tried, done, x, end
  <2> QED
    BY <2>1, <2>2
<1> HIDE DEF x, end
<1>6. PICK r \in PushWorkers :
        /\ work' = [work EXCEPT ![w] = r] /\ r.pc = "send"
        /\ r.rows \subseteq work[w].rows
        /\ r.retry \subseteq work[w].retry \cup {x[2].id}
  <2>1. /\ tried \in PushWorkers /\ tried.pc = "send" /\ tried.rows \subseteq work[w].rows
        /\ tried.retry = work[w].retry \cup {x[2].id}
    BY <1>1, <1>3 DEF PushWorkers, PushStages, Ids
  <2>2. /\ done \in PushWorkers /\ done.pc = "send" /\ done.rows \subseteq work[w].rows
        /\ done.retry = work[w].retry
    BY <1>1, <1>3 DEF PushWorkers, PushStages, Ids
  <2> HIDE DEF tried, done
  <2> QED
    BY <1>5, <2>1, <2>2
<1>7. /\ work' \in [Workers -> PushWorkers] /\ work'[w] = r
      /\ \A v \in Workers \ {w} : work'[v] = work[v]
  BY <1>6 DEF PushInv, PushTypes
<1>8. row' \in [Keys -> Registrations] /\ \A k \in Keys : row'[k] # row[k] => <<k, row[k]>> = x
  <2>1. CASE row' = row
    BY <2>1 DEF PushInv, PushTypes
  <2>2. CASE row' = Push!RemoveRow(x[1], x[2])
    <3>1. Push!NoRow \in Registrations
      BY DEF Push!NoRow, Registrations
    <3> QED
      BY <2>2, <3>1, <1>3 DEF PushInv, PushTypes, Push!RemoveRow
  <2> QED
    BY <1>4, <2>1, <2>2
<1>9. PushTypes' /\ Push!TypeOK'
  <2>1. PushTypes'
    BY <1>1, <1>7, <1>8 DEF PushInv, PushTypes, Push!Accounts, Registrations
  <2>2. \A v \in Workers : work'[v].at \in Keys \cup {"none"}
    BY <1>7 DEF PushWorkers
  <2> QED
    BY <1>1, <2>1, <2>2 DEF PushInv, Push!TypeOK, Push!Active, Push!Nothing
<1>10. ASSUME NEW v \in Workers
       PROVE  PushWorkerSound(v)'
  <2>1. CASE v = w
    <3>1. Push!Leased(w)' => Push!Leased(w)
      BY <1>1 DEF Push!Leased
    <3>2. Push!Leased(w)' =>
            work'[w].retry \cup {z[2].id : z \in work'[w].rows} \subseteq job'.pending
      BY <1>1, <1>2, <1>6, <1>7, <3>1 DEF PushWorkerSound
    <3> QED
      BY <1>6, <1>7, <2>1, <3>2 DEF PushWorkerSound
  <2>2. CASE v # w
    BY <1>1, <1>7, <2>2, BystanderSound
  <2> QED
    BY <2>1, <2>2
<1>11. JobKept
  BY <1>1 DEF JobKept
<1>12. RowsKept
  <2> SUFFICES ASSUME NEW v \in Workers, NEW k \in Keys, work[v].pc = "sending",
                      work'[v].pc = "send", row'[k] # row[k]
               PROVE  <<k, row[k]>> \in work[v].rows
    BY DEF RowsKept
  <2>1. v = w
    BY <1>7
  <2> QED
    BY <1>2, <1>8, <2>1
<1> QED
  BY <1>1, <1>9, <1>10, <1>11, <1>12 DEF PushKept, PushInv, Push!Active

LEMMA LastStep ==
  ASSUME PushInv, NEW w \in Workers,
         Push!Conclude(w) \/ Push!Throw(w) \/ Push!Dies(w)
  PROVE  PushKept
<1>1. UNCHANGED <<age, row, login, regs>> /\ work[w] \in PushWorkers /\ PushWorkerSound(w)
  BY DEF Push!Conclude, Push!Throw, Push!Dies, Push!pusherVars, PushInv, PushTypes
<1>2. CASE Push!Dies(w)
  BY <1>1, <1>2, GoesIdle DEF Push!Dies
<1>3. CASE Push!Conclude(w)
  <2>1. work[w].retry \in Ids /\ (Push!Leased(w) => work[w].retry \subseteq job.pending)
    BY <1>1, <1>3 DEF Push!Conclude, PushWorkerSound, PushWorkers
  <2>2. Push!Finish(w) \/ Push!GiveBack(w, work[w].retry)
    BY <1>3 DEF Push!Conclude
  <2> QED
    BY <1>1, <2>1, <2>2, FinishStep, GiveBackStep
<1>4. CASE Push!Throw(w)
  <2>1. job.pending \ work[w].settled \in Ids
    BY DEF PushInv, PushTypes, Ids
  <2>2. Push!GiveBack(w, job.pending \ work[w].settled)
    BY <1>4 DEF Push!Throw
  <2> QED
    BY <1>1, <2>1, <2>2, GiveBackStep
<1> QED
  BY <1>2, <1>3, <1>4

LEMMA PushNext ==
  ASSUME PushInv, Push!Next
  PROVE  PushKept
<1>1. ASSUME NEW w \in Workers, Push!Work(w)
      PROVE  PushKept
  <2>1. ASSUME NEW eligible \in BOOLEAN, Push!Fix(w, eligible)
        PROVE  PushKept
    BY <2>1, FixStep
  <2>2. ASSUME NEW k \in Keys, Push!Refresh(w, k)
        PROVE  PushKept
    BY <2>2, RefreshStep
  <2>3. ASSUME NEW res \in Push!WebPushAnswers \union Push!GatewayAnswers, Push!Outcome(w, res)
        PROVE  PushKept
    BY <2>3, OutcomeStep
  <2> QED
    BY <1>1, <2>1, <2>2, <2>3, ReceiveStep, ClaimStep, LoadStep, LastStep DEF Push!Work
<1>2. ASSUME NEW w \in Workers, Push!Throw(w) \/ Push!Dies(w)
      PROVE  PushKept
  BY <1>2, LastStep
<1> QED
  BY <1>1, <1>2, PushQuietStep, PushJobStep, PusherStep DEF Push!Next

LEMMA PushInit ==
  ASSUME Push!Init
  PROVE  PushInv
<1>1. Push!NoRow \in Registrations /\ Push!Idle \in PushWorkers /\ Push!NotFixed \in Ids
  BY IdleIsWorker DEF Push!NoRow, Registrations, Push!NotFixed, Ids
<1>2. /\ job \in [status : JobStatus, attempts : Nat, pending : Ids,
                  token : Workers \cup {"none"}]
      /\ job.status = "new" /\ job.attempts = 0
  BY <1>1 DEF Push!Init, Push!Job, JobStatus
<1>3. PushTypes
  BY <1>1, <1>2 DEF Push!Init, PushTypes
<1>4. Push!TypeOK
  BY <1>2, PushBounds DEF Push!Init, Push!TypeOK, Push!Idle
<1>5. ASSUME NEW w \in Workers
      PROVE  PushWorkerSound(w)
  BY DEF Push!Init, PushWorkerSound, Push!Idle
<1> QED
  BY <1>2, <1>3, <1>4, <1>5, PushBounds DEF PushInv

LEMMA PushStutters ==
  ASSUME PushInv, UNCHANGED Push!vars
  PROVE  PushInv'
BY DEF PushInv, PushTypes, PushWorkerSound, Push!TypeOK, Push!vars, Push!pusherVars,
   Push!Leased, Push!Active, Push!Nothing, Push!Accounts, Registrations

\* A worker that was overtaken does no harm: for every number of workers, keys,
\* attempts and registrations the list of a job only shrinks once it is fixed, a
\* finished job stays finished, and a subscription that another login took over is
\* not removed with the row that was loaded for the push.
THEOREM OvertakenDoesNoHarm == PushSpec => OvertakenHarmless
<1>1. Push!Init => PushInv
  BY PushInit
<1>2. [PushStep]_<<vars, Push!vars>> => [Push!Next]_Push!vars
  BY DEF PushStep
<1>3. PushInv /\ [Push!Next]_Push!vars => PushInv'
  BY PushNext, PushStutters DEF PushKept
<1>4. PushInv /\ [Push!Next]_Push!vars =>
        [/\ job.pending # Push!NotFixed => job'.pending \subseteq job.pending
         /\ job.status \in {"delivered", "failed"} =>
              job'.status \in {job.status, "none"}]_Push!vars
  BY PushNext DEF PushKept, JobKept
<1>5. PushInv /\ [Push!Next]_Push!vars =>
        [\A w \in Workers, k \in Keys :
           work[w].pc = "sending" /\ work'[w].pc = "send" /\ row'[k] # row[k] =>
             <<k, row[k]>> \in work[w].rows]_Push!vars
  BY PushNext DEF PushKept, RowsKept
<1>6. PushInv => Push!TypeOK
  BY DEF PushInv
<1> QED
  BY <1>1, <1>2, <1>3, <1>4, <1>5, <1>6, PTL
     DEF PushSpec, OvertakenHarmless, Push!SettledStaysSettled, Push!TakeoverKept

=============================================================================
