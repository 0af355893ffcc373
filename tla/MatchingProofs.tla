--------------------------- MODULE MatchingProofs ---------------------------
(***************************************************************************)
(* Proofs about Matching, for any users, profiles, opportunities and       *)
(* workers, any relevance and any number of faults, and about              *)
(* AnalysisSpend, for any analyses, costs and limits.                      *)
(***************************************************************************)
EXTENDS Matching, AnalysisSpend, FiniteSetTheorems, TLAPS

LEMMA Constants ==
  /\ Owner \in [Profiles -> Users] /\ Relevant \subseteq Opportunities \X Profiles
  /\ MaxTime \in Nat \ {0, 1} /\ MaxFaults \in Nat /\ MaximumAge \in Nat /\ MaxOpportunities \in Nat
  /\ IsFiniteSet(Opportunities) /\ Old \subseteq Opportunities /\ SuppressExpired \in BOOLEAN
BY MatchingAssumption

(* The revisions a profile may have.                                       *)
LEMMA RevisionRange ==
  /\ Revisions \subseteq Nat \ {0} /\ MaxRevision \in [Profiles -> Nat \ {0}]
  /\ \A p \in Profiles : 1..MaxRevision[p] \subseteq Revisions
BY MatchingAssumption DEF Revisions

LEMMA KeyFacts ==
  /\ \A o \in Opportunities : MatchKey(o) \in Keys
  /\ \A p \in Profiles, r \in Revisions : RematchKey(p, r) \in Keys
  /\ \A k \in Keys : \/ k[1] = "match" /\ k[2] \in Opportunities /\ k = MatchKey(k[2])
                     \/ /\ k[1] = "rematch" /\ k[2] \in Profiles /\ k[3] \in Revisions
                        /\ k = RematchKey(k[2], k[3])
  /\ \A o, p, r : MatchKey(o)[1] = "match" /\ MatchKey(o)[2] = o
                  /\ RematchKey(p, r)[1] = "rematch" /\ RematchKey(p, r)[2] = p
                  /\ RematchKey(p, r)[3] = r
BY DEF Keys, MatchKey, RematchKey

-----------------------------------------------------------------------------
(* Types                                                                   *)

(* Beside the types: a job that is running has one handler, a handler has  *)
(* a job that is running, and lists opportunities that exist.              *)
JobsAreHeld ==
    /\ \A w \in Workers : worker[w].pc # "idle" =>
          worker[w].key \in Keys /\ job[worker[w].key].state = "running"
    /\ \A v, w \in Workers : worker[v].pc # "idle" /\ worker[w].pc # "idle"
                            /\ worker[v].key = worker[w].key => v = w

Listed == \A w \in Workers : \A o \in worker[w].opps : seen[o] # 0

Unobserved == \A o \in Opportunities : seen[o] = 0 => job[MatchKey(o)].state = "absent"

(* An activation has locked every active profile of its user, and their    *)
(* revisions have room for one more.                                       *)
Locks == \A u \in Users : activation[u].of # "none" =>
           /\ activation[u].of \in Profiles
           /\ \A q \in activation[u].others \cup {activation[u].of} : profile[q].revision < MaxRevision[q]
           /\ \A q \in Profiles : Owner[q] = u /\ profile[q].active
                                => q \in activation[u].others \cup {activation[u].of}

TypeInv == TypeOK /\ JobsAreHeld /\ Listed /\ Unobserved /\ Locks

LEMMA InitTypeInv == Init => TypeInv
<1> SUFFICES ASSUME Init PROVE TypeInv
  OBVIOUS
<1>1. /\ Idle.pc = "idle" /\ Idle.opps = {} /\ Idle \in Handler
      /\ NoActivation \in Activation /\ NoActivation.of = "none" /\ NoActivation.others = {}
  BY Constants DEF Idle, Handler, NoActivation, Activation
<1>2. /\ now \in 1..MaxTime /\ profile \in [Profiles -> ProfileRow] /\ entitled \subseteq Users
      /\ seen \in [Opportunities -> 0..MaxTime] /\ faults \in 0..MaxFaults
      /\ read \in [Opportunities -> SUBSET (Profiles \X Revisions)]
      /\ changed \subseteq Profiles /\ leftOut \subseteq Matches /\ unscheduled \subseteq Matches
  <2>1. \A p \in Profiles : 1 \in Revisions
    BY RevisionRange
  <2>2. profile \in [Profiles -> ProfileRow]
    BY <2>1 DEF Init, ProfileRow
  <2> QED
    BY <2>2, Constants DEF Init
<1>3. job \in [Keys -> JobRow] /\ delivery \in [Matches -> DeliveryRow]
  <2>1. /\ [state |-> "completed", created |-> 1] \in JobRow /\ [state |-> "absent", created |-> 0] \in JobRow
        /\ [status |-> "absent", seen |-> 0] \in DeliveryRow
    BY Constants DEF JobRow, DeliveryRow
  <2> QED
    BY <2>1 DEF Init
<1>4. activation \in [Users -> Activation] /\ worker \in [Workers -> Handler]
  BY <1>1 DEF Init
<1>5. \A u \in Users : \A p \in activation[u].others \cup ({activation[u].of} \ {"none"}) : Owner[p] = u
  BY <1>1 DEF Init
<1>6. JobsAreHeld /\ Listed /\ Locks
  <2>1. \A w \in Workers : worker[w].pc = "idle" /\ worker[w].opps = {}
    BY <1>1 DEF Init
  <2>2. \A u \in Users : activation[u].of = "none"
    BY <1>1 DEF Init
  <2> QED
    BY <2>1, <2>2 DEF JobsAreHeld, Listed, Locks
<1>7. Unobserved
  BY KeyFacts DEF Init, Unobserved
<1> QED
  BY <1>2, <1>3, <1>4, <1>5, <1>6, <1>7 DEF TypeInv, TypeOK

(* What one step does to the jobs and the handlers, in the four ways there *)
(* are: nothing; a claim; a step of a handler that keeps its key; an end.  *)
LEMMA NoWorkerStep ==
  ASSUME JobsAreHeld, worker' = worker, \A k \in Keys : job[k].state = "running" => job'[k].state = "running"
  PROVE  JobsAreHeld'
BY DEF JobsAreHeld

LEMMA OneHandler ==
  ASSUME TypeInv, NEW w \in Workers, NEW h \in Handler, h.key = worker[w].key, worker[w].pc # "idle",
         worker' = [worker EXCEPT ![w] = h], UNCHANGED job
  PROVE  JobsAreHeld' /\ worker' \in [Workers -> Handler]
<1>1. worker' \in [Workers -> Handler] /\ \A v \in Workers : worker'[v] = IF v = w THEN h ELSE worker[v]
  BY DEF TypeInv, TypeOK
<1>2. \A v \in Workers : worker'[v].key = worker[v].key /\ (worker'[v].pc # "idle" => worker[v].pc # "idle")
  BY <1>1
<1> QED
  BY <1>1, <1>2 DEF JobsAreHeld, TypeInv

LEMMA IdleFacts ==
  /\ Idle \in Handler /\ Idle.pc = "idle" /\ Idle.key \notin Keys /\ Idle.opps = {} /\ Idle.profiles = {}
  /\ Idle.todo = {}
<1>1. Idle.key = <<"none", "none", 0>>
  BY DEF Idle
<1>2. Idle.key \notin Keys
  BY <1>1, KeyFacts
<1> QED
  BY <1>2 DEF Idle, Handler

LEMMA HandlerEnds ==
  ASSUME TypeInv, NEW w \in Workers, worker[w].pc # "idle", NEW s \in {"queued", "completed"},
         job' = [job EXCEPT ![worker[w].key].state = s], worker' = [worker EXCEPT ![w] = Idle]
  PROVE  JobsAreHeld' /\ worker' \in [Workers -> Handler] /\ job' \in [Keys -> JobRow]
<1>1. /\ worker' \in [Workers -> Handler] /\ \A v \in Workers : worker'[v] = IF v = w THEN Idle ELSE worker[v]
      /\ worker \in [Workers -> Handler] /\ job \in [Keys -> JobRow]
  BY IdleFacts DEF TypeInv, TypeOK
<1>2. PICK k \in Keys : k = worker[w].key /\ job[k].state = "running"
  BY DEF TypeInv, JobsAreHeld
<1>3. /\ job' = [job EXCEPT ![k] = [job[k] EXCEPT !.state = s]]
      /\ job[k] \in JobRow
  BY <1>1, <1>2
<1>4. [job[k] EXCEPT !.state = s] \in JobRow
  BY <1>3 DEF JobRow
<1>5. /\ job' \in [Keys -> JobRow] /\ \A j \in Keys : j # k => job'[j] = job[j]
  BY <1>1, <1>3, <1>4
<1>6. \A v \in Workers : worker[v].pc # "idle" /\ v # w => worker[v].key \in Keys /\ worker[v].key # k
  BY <1>2 DEF TypeInv, JobsAreHeld
<1>7. ASSUME NEW v \in Workers, worker'[v].pc # "idle"
      PROVE  /\ worker'[v].key \in Keys /\ job'[worker'[v].key].state = "running"
             /\ \A x \in Workers : worker'[x].pc # "idle" /\ worker'[v].key = worker'[x].key => v = x
  <2>1. v # w /\ worker'[v] = worker[v]
    BY <1>1, <1>7, IdleFacts
  <2>2. worker'[v].key \in Keys /\ job'[worker'[v].key].state = "running"
    BY <1>5, <1>6, <1>7, <2>1 DEF TypeInv, JobsAreHeld
  <2>3. ASSUME NEW x \in Workers, worker'[x].pc # "idle", worker'[v].key = worker'[x].key PROVE v = x
    <3>1. x # w
      BY <1>1, <2>2, <2>3, IdleFacts
    <3> QED
      BY <1>1, <1>7, <2>1, <2>3, <3>1 DEF TypeInv, JobsAreHeld
  <2> QED
    BY <2>2, <2>3
<1> QED
  BY <1>1, <1>5, <1>7 DEF JobsAreHeld

(* Enqueueing a job that may be there already.                             *)
LEMMA EnqueuedFacts ==
  ASSUME TypeInv, NEW k \in Keys, NEW at \in 0..MaxTime, job' = Enqueued(k, at)
  PROVE  /\ job' \in [Keys -> JobRow] /\ job'[k].state # "absent"
         /\ \A j \in Keys : job'[j] = job[j] \/ (j = k /\ job[j].state = "absent")
         /\ \A j \in Keys : job[j].state # "absent" => job'[j] = job[j]
         /\ \A j \in Keys : job'[j] # job[j] => job'[j].state = "queued"
<1>1. job \in [Keys -> JobRow]
  BY DEF TypeInv, TypeOK
<1>2. CASE job[k].state = "absent"
  <2>1. job' = [job EXCEPT ![k] = [state |-> "queued", created |-> at]]
    BY <1>2 DEF Enqueued
  <2>2. [state |-> "queued", created |-> at] \in JobRow
    BY DEF JobRow
  <2>3. job' \in [Keys -> JobRow] /\ \A j \in Keys : j # k => job'[j] = job[j]
    BY <1>1, <2>1, <2>2
  <2>4. job'[k].state = "queued"
    BY <1>1, <2>1
  <2> QED
    BY <1>2, <2>3, <2>4
<1>3. CASE job[k].state # "absent"
  BY <1>1, <1>3 DEF Enqueued
<1> QED
  BY <1>2, <1>3

LEMMA RevisionFacts ==
  ASSUME TypeInv
  PROVE  /\ \A p \in Profiles : /\ profile[p] \in ProfileRow /\ profile[p].revision \in Revisions
                                /\ Bumped(p).active = profile[p].active
                                /\ Bumped(p).revision = profile[p].revision + 1
                                /\ profile[p].revision < MaxRevision[p] => Bumped(p) \in ProfileRow
         /\ ActiveRevisions \subseteq Profiles \X Revisions
         /\ \A p \in Profiles : \A r : <<p, r>> \in ActiveRevisions <=> Active(p) /\ profile[p].revision = r
<1>1. \A p \in Profiles : profile[p] \in ProfileRow
  BY DEF TypeInv, TypeOK
<1>2. \A p \in Profiles : profile[p].revision \in Revisions /\ profile[p].active \in BOOLEAN
  BY <1>1 DEF ProfileRow
<1>3. \A p \in Profiles : /\ Bumped(p).active = profile[p].active
                          /\ Bumped(p).revision = profile[p].revision + 1
  BY <1>1 DEF ProfileRow, Bumped
<1>4. ASSUME NEW p \in Profiles, profile[p].revision < MaxRevision[p]
      PROVE  Bumped(p) \in ProfileRow
  <2>1. profile[p].revision + 1 \in 1..MaxRevision[p]
    <3>1. PICK n \in Nat \ {0}, max \in Nat \ {0} : n = profile[p].revision /\ max = MaxRevision[p]
      BY <1>2, RevisionRange
    <3>2. n < max
      BY <1>4, <3>1
    <3> QED
      BY <3>1, <3>2
  <2>2. profile[p].revision + 1 \in Revisions
    BY <2>1, RevisionRange
  <2>3. Bumped(p) = [active |-> profile[p].active, revision |-> profile[p].revision + 1]
    BY <1>1 DEF Bumped, ProfileRow
  <2> QED
    BY <1>2, <2>2, <2>3 DEF ProfileRow
<1>5. ActiveRevisions \subseteq Profiles \X Revisions
  BY <1>2 DEF ActiveRevisions
<1>6. \A p \in Profiles : \A r : <<p, r>> \in ActiveRevisions <=> Active(p) /\ profile[p].revision = r
  BY DEF ActiveRevisions
<1> QED
  BY <1>1, <1>2, <1>3, <1>4, <1>5, <1>6

(* The row of one profile that no activation has locked.                   *)
LEMMA ProfileChange ==
  ASSUME TypeInv, NEW p \in Profiles, ~Locked(p), NEW new \in ProfileRow,
         new.active => profile[p].active,
         profile' = [profile EXCEPT ![p] = new],
         UNCHANGED <<now, entitled, seen, job, activation, worker, delivery, faults,
                     read, leftOut, unscheduled>>,
         changed' \subseteq Profiles
  PROVE  TypeInv'
<1>1. /\ profile' \in [Profiles -> ProfileRow]
      /\ \A q \in Profiles : profile'[q] = IF q = p THEN new ELSE profile[q]
  BY DEF TypeInv, TypeOK
<1>2. TypeOK'
  BY <1>1 DEF TypeInv, TypeOK
<1>3. JobsAreHeld' /\ Listed' /\ Unobserved'
  BY DEF TypeInv, JobsAreHeld, Listed, Unobserved
<1>4. ASSUME NEW u \in Users, activation[u].of # "none",
             NEW q \in activation[u].others \cup {activation[u].of}
      PROVE  q # p /\ q \in Profiles
  <2>1. Owner[q] = u /\ q \in Profiles
    BY <1>4 DEF TypeInv, TypeOK, Activation
  <2> QED
    BY <1>4, <2>1 DEF Locked
<1>5. Locks'
  BY <1>1, <1>4 DEF TypeInv, Locks
<1> QED
  BY <1>2, <1>3, <1>5 DEF TypeInv

LEMMA BeginTypeInv ==
  ASSUME TypeInv, NEW p \in Profiles, BeginActivation(p)
  PROVE  TypeInv'
<1> USE Constants
<1> DEFINE a == [of |-> p, others |-> OthersActive(p), at |-> now]
<1>t. TypeOK /\ JobsAreHeld /\ Listed /\ Unobserved /\ Locks
  BY DEF TypeInv
<1>1. /\ activation' = [activation EXCEPT ![Owner[p]] = a]
      /\ UNCHANGED <<now, profile, entitled, seen, job, worker, delivery, faults, history>>
  BY DEF BeginActivation
<1>2. /\ OthersActive(p) \subseteq Profiles /\ \A q \in OthersActive(p) : Owner[q] = Owner[p]
      /\ \A q \in Profiles : Owner[q] = Owner[p] /\ profile[q].active => q \in OthersActive(p) \cup {p}
      /\ now \in 1..MaxTime
  BY <1>t DEF OthersActive, TypeOK
<1>3. a \in Activation /\ a.of = p /\ a.others = OthersActive(p) /\ Owner[p] \in Users
  BY <1>2 DEF Activation
<1>4. \A q \in OthersActive(p) \cup {p} : profile[q].revision < MaxRevision[q]
  BY DEF BeginActivation
<1> HIDE DEF a
<1>5. /\ activation' \in [Users -> Activation]
      /\ \A u \in Users : activation'[u] = IF u = Owner[p] THEN a ELSE activation[u]
  BY <1>t, <1>1, <1>3 DEF TypeOK
<1>6. \A u \in Users : \A q \in activation'[u].others \cup ({activation'[u].of} \ {"none"}) : Owner[q] = u
  BY <1>t, <1>2, <1>3, <1>5 DEF TypeOK
<1>7. TypeOK'
  BY <1>t, <1>1, <1>5, <1>6 DEF TypeOK, history
<1>8. JobsAreHeld' /\ Listed' /\ Unobserved'
  BY <1>t, <1>1 DEF JobsAreHeld, Listed, Unobserved
<1>9. Locks'
  BY <1>t, <1>1, <1>2, <1>3, <1>4, <1>5 DEF Locks
<1> QED
  BY <1>7, <1>8, <1>9 DEF TypeInv

(* What an activation commits.                                             *)
LEMMA CommitFacts ==
  ASSUME TypeInv, NEW u \in Users, CommitActivation(u)
  PROVE  LET p == activation[u].of
         IN  /\ p \in Profiles /\ Owner[p] = u /\ Activated(p) \in ProfileRow /\ Activated(p).active
             /\ Activated(p).revision = profile[p].revision \/ Activated(p).revision = profile[p].revision + 1
             /\ profile' \in [Profiles -> ProfileRow] /\ profile'[p] = Activated(p)
             /\ \A q \in activation[u].others \ {p} : /\ q \in Profiles /\ Owner[q] = u /\ ~profile'[q].active
                                                     /\ profile'[q].revision = profile[q].revision + 1
             /\ \A q \in Profiles : q # p /\ q \notin activation[u].others => profile'[q] = profile[q]
             /\ activation' \in [Users -> Activation] /\ activation'[u] = NoActivation
             /\ \A v \in Users : v # u => activation'[v] = activation[v]
             /\ \A q \in Profiles : Owner[q] = u /\ q # p => ~profile'[q].active
<1> USE Constants
<1>t. TypeOK /\ Locks
  BY DEF TypeInv
<1> DEFINE p == activation[u].of
           others == activation[u].others
<1>1. /\ p # "none" /\ p \in Profiles /\ others \subseteq Profiles /\ Owner[p] = u /\ \A q \in others : Owner[q] = u
      /\ profile[p].revision < MaxRevision[p] /\ \A q \in others : profile[q].revision < MaxRevision[q]
      /\ \A q \in Profiles : Owner[q] = u /\ profile[q].active => q \in others \cup {p}
  <2>1. p # "none" /\ activation[u] \in Activation
    BY <1>t DEF CommitActivation, TypeOK
  <2> QED
    BY <1>t, <2>1 DEF TypeOK, Locks, Activation
<1>2. /\ profile' = [q \in Profiles |-> IF q = p THEN Activated(p)
                                       ELSE IF q \in others THEN [Bumped(q) EXCEPT !.active = FALSE] ELSE profile[q]]
      /\ activation' = [activation EXCEPT ![u] = NoActivation]
  BY DEF CommitActivation
<1> HIDE DEF p, others
<1>3. \A q \in others : /\ [Bumped(q) EXCEPT !.active = FALSE] \in ProfileRow
                        /\ ~[Bumped(q) EXCEPT !.active = FALSE].active
                        /\ [Bumped(q) EXCEPT !.active = FALSE].revision = profile[q].revision + 1
  <2>1. \A q \in others : Bumped(q) \in ProfileRow /\ Bumped(q).revision = profile[q].revision + 1
    BY <1>1, RevisionFacts
  <2> QED
    BY <2>1 DEF ProfileRow
<1>4. /\ Activated(p) \in ProfileRow /\ Activated(p).active
      /\ Activated(p).revision = profile[p].revision \/ Activated(p).revision = profile[p].revision + 1
  <2>1. /\ Bumped(p) \in ProfileRow /\ Bumped(p).revision = profile[p].revision + 1
        /\ profile[p] \in ProfileRow
    BY <1>1, RevisionFacts
  <2>2. /\ [Bumped(p) EXCEPT !.active = TRUE] \in ProfileRow /\ [Bumped(p) EXCEPT !.active = TRUE].active
        /\ [Bumped(p) EXCEPT !.active = TRUE].revision = profile[p].revision + 1
    BY <2>1 DEF ProfileRow
  <2> QED
    BY <2>1, <2>2 DEF Activated, Active
<1>5. profile' \in [Profiles -> ProfileRow]
  BY <1>t, <1>2, <1>3, <1>4 DEF TypeOK
<1>6. /\ activation' \in [Users -> Activation] /\ activation'[u] = NoActivation
      /\ \A v \in Users : v # u => activation'[v] = activation[v]
  <2>1. NoActivation \in Activation
    BY DEF NoActivation, Activation
  <2> QED
    BY <1>t, <1>2, <2>1 DEF TypeOK
<1>7. /\ profile'[p] = Activated(p)
      /\ \A q \in others \ {p} : q \in Profiles /\ Owner[q] = u /\ ~profile'[q].active
                                /\ profile'[q].revision = profile[q].revision + 1
      /\ \A q \in Profiles : q # p /\ q \notin others => profile'[q] = profile[q]
  BY <1>1, <1>2, <1>3
<1>8. \A q \in Profiles : Owner[q] = u /\ q # p => ~profile'[q].active
  BY <1>1, <1>7
<1> QED
  BY <1>1, <1>4, <1>5, <1>6, <1>7, <1>8 DEF p, others

LEMMA CommitTypeInv ==
  ASSUME TypeInv, NEW u \in Users, CommitActivation(u)
  PROVE  TypeInv'
<1> USE Constants
<1>t. TypeOK /\ JobsAreHeld /\ Listed /\ Unobserved /\ Locks
  BY DEF TypeInv
<1>1. PICK p \in Profiles :
        /\ p = activation[u].of
        /\ Owner[p] = u /\ Activated(p) \in ProfileRow
        /\ profile' \in [Profiles -> ProfileRow]
        /\ \A q \in activation[u].others \ {p} : q \in Profiles /\ Owner[q] = u
        /\ \A q \in Profiles : q # p /\ q \notin activation[u].others => profile'[q] = profile[q]
        /\ activation' \in [Users -> Activation] /\ activation'[u] = NoActivation
        /\ \A v \in Users : v # u => activation'[v] = activation[v]
  BY CommitFacts
<1>2. /\ job' = Enqueued(ActivationKey(p), activation[u].at)
      /\ changed' = changed \ {p}
      /\ UNCHANGED <<now, entitled, seen, worker, delivery, faults, read, leftOut, unscheduled>>
  BY <1>1 DEF CommitActivation
<1>3. ActivationKey(p) \in Keys /\ activation[u].at \in 0..MaxTime /\ ActivationKey(p)[1] = "rematch"
  BY <1>t, <1>1, KeyFacts DEF ActivationKey, TypeOK, Activation, ProfileRow
<1>4. /\ job' \in [Keys -> JobRow]
      /\ \A j \in Keys : job'[j] = job[j] \/ (j = ActivationKey(p) /\ job[j].state = "absent")
      /\ \A j \in Keys : job[j].state # "absent" => job'[j] = job[j]
  BY <1>2, <1>3, EnqueuedFacts
<1>5. \A v \in Users : \A q \in activation'[v].others \cup ({activation'[v].of} \ {"none"}) : Owner[q] = v
  <2>1. activation'[u].others = {} /\ activation'[u].of = "none"
    BY <1>1 DEF NoActivation
  <2> QED
    BY <1>t, <1>1, <2>1 DEF TypeOK
<1>6. TypeOK'
  BY <1>t, <1>1, <1>2, <1>4, <1>5 DEF TypeOK
<1>7. JobsAreHeld'
  BY <1>2, <1>4, <1>t, NoWorkerStep
<1>8. Listed' /\ Unobserved'
  <2>1. \A o \in Opportunities : MatchKey(o) \in Keys /\ MatchKey(o) # ActivationKey(p)
    BY KeyFacts, <1>3
  <2> QED
    BY <1>t, <1>2, <1>4, <2>1 DEF Listed, Unobserved
<1>9. ASSUME NEW v \in Users, activation'[v].of # "none"
      PROVE  /\ activation'[v].of \in Profiles
             /\ \A q \in activation'[v].others \cup {activation'[v].of} : profile'[q].revision < MaxRevision[q]
             /\ \A q \in Profiles : Owner[q] = v /\ profile'[q].active
                                => q \in activation'[v].others \cup {activation'[v].of}
  <2>1. v # u /\ activation'[v] = activation[v]
    BY <1>1, <1>9 DEF NoActivation
  <2>2. \A q \in Profiles : Owner[q] = v => profile'[q] = profile[q]
    BY <1>1, <2>1
  <2>3. \A q \in activation[v].others \cup {activation[v].of} : q \in Profiles /\ Owner[q] = v
    BY <1>t, <1>9, <2>1 DEF TypeOK, Activation
  <2> QED
    BY <1>t, <1>9, <2>1, <2>2, <2>3 DEF Locks
<1> QED
  BY <1>6, <1>7, <1>8, <1>9 DEF TypeInv, Locks

(* A step that leaves profiles and activations alone.                      *)
LEMMA RowsStay ==
  ASSUME TypeInv, UNCHANGED <<profile, activation>>
  PROVE  /\ profile' \in [Profiles -> ProfileRow] /\ activation' \in [Users -> Activation] /\ Locks'
         /\ \A u \in Users : \A p \in activation'[u].others \cup ({activation'[u].of} \ {"none"}) : Owner[p] = u
BY DEF TypeInv, TypeOK, Locks

(* What an observation does; its job is created at its own time, or later. *)
LEMMA ObservedFacts ==
  ASSUME TypeInv, NEW o \in Opportunities, NEW at \in 1..MaxTime, Observed(o, at)
  PROVE  /\ seen' = [seen EXCEPT ![o] = at] /\ seen[o] < at /\ at <= now
         /\ \E began \in 0..MaxTime : began >= at /\ job' = Enqueued(MatchKey(o), began)
         /\ UNCHANGED <<now, profile, entitled, activation, worker, delivery, faults, history>>
<1>1. now \in 1..MaxTime /\ seen[o] \in 0..MaxTime
  BY DEF TypeInv, TypeOK
<1>2. PICK began \in at..now : job' = Enqueued(MatchKey(o), began)
  BY DEF Observed
<1>3. began \in 0..MaxTime /\ began >= at
  BY <1>1, <1>2, Constants
<1> QED
  BY <1>1, <1>2, <1>3 DEF Observed

LEMMA ObservedTypeInv ==
  ASSUME TypeInv, NEW o \in Opportunities, NEW at \in 1..MaxTime, Observed(o, at)
  PROVE  TypeInv'
<1> USE Constants
<1>t. TypeOK /\ JobsAreHeld /\ Listed /\ Unobserved /\ Locks
  BY DEF TypeInv
<1>1. /\ seen' = [seen EXCEPT ![o] = at]
      /\ \E began \in 0..MaxTime : job' = Enqueued(MatchKey(o), began)
      /\ UNCHANGED <<now, profile, entitled, activation, worker, delivery, faults, history>>
  BY ObservedFacts
<1>2. MatchKey(o) \in Keys
  BY KeyFacts
<1>3. /\ job' \in [Keys -> JobRow]
      /\ \A j \in Keys : job'[j] = job[j] \/ (j = MatchKey(o) /\ job[j].state = "absent")
      /\ \A j \in Keys : job[j].state # "absent" => job'[j] = job[j]
  BY <1>1, <1>2, EnqueuedFacts
<1>4. /\ seen' \in [Opportunities -> 0..MaxTime]
      /\ \A x \in Opportunities : seen'[x] = IF x = o THEN at ELSE seen[x]
  BY <1>t, <1>1 DEF TypeOK
<1>5. TypeOK'
  BY <1>t, <1>1, <1>3, <1>4, RowsStay DEF TypeOK, history
<1>6. JobsAreHeld'
  BY <1>1, <1>3, <1>t, NoWorkerStep
<1>7. Listed'
  <2>1. \A w \in Workers : \A x \in worker[w].opps : x \in Opportunities
    BY <1>t DEF TypeOK, Handler
  <2> QED
    BY <1>t, <1>1, <1>4, <2>1 DEF Listed
<1>8. Unobserved'
  <2>1. \A x \in Opportunities : x # o => MatchKey(x) \in Keys /\ MatchKey(x) # MatchKey(o)
    BY KeyFacts
  <2> QED
    BY <1>t, <1>3, <1>4, <2>1 DEF Unobserved
<1> QED
  BY <1>1, <1>5, <1>6, <1>7, <1>8, RowsStay DEF TypeInv

LEMMA ClaimTypeInv ==
  ASSUME TypeInv, NEW w \in Workers, NEW k \in Keys, Claim(w, k)
  PROVE  TypeInv'
<1> USE Constants
<1> DEFINE h == [Idle EXCEPT !.pc = "load", !.key = k]
<1>t. TypeOK /\ JobsAreHeld /\ Listed /\ Unobserved /\ Locks
  BY DEF TypeInv
<1>1. /\ worker[w].pc = "idle" /\ job[k].state = "queued"
      /\ job' = [job EXCEPT ![k] = [job[k] EXCEPT !.state = "running"]]
      /\ worker' = [worker EXCEPT ![w] = h]
      /\ UNCHANGED <<now, profile, entitled, seen, activation, delivery, faults, history>>
  BY <1>t DEF Claim, TypeOK
<1>2. h \in Handler /\ h.key = k /\ h.opps = {}
  BY DEF Idle, Handler
<1> HIDE DEF h
<1>3. [job[k] EXCEPT !.state = "running"] \in JobRow /\ [job[k] EXCEPT !.state = "running"].state = "running"
  BY <1>t DEF TypeOK, JobRow
<1>4. /\ job' \in [Keys -> JobRow] /\ job'[k].state = "running"
      /\ \A j \in Keys : j # k => job'[j] = job[j]
  BY <1>t, <1>1, <1>3 DEF TypeOK
<1>5. /\ worker' \in [Workers -> Handler]
      /\ \A v \in Workers : worker'[v] = IF v = w THEN h ELSE worker[v]
  BY <1>t, <1>1, <1>2 DEF TypeOK
<1>6. TypeOK'
  BY <1>t, <1>1, <1>4, <1>5, RowsStay DEF TypeOK, history
<1>7. JobsAreHeld'
  <2>1. \A v \in Workers : v # w /\ worker[v].pc # "idle" => worker[v].key \in Keys /\ worker[v].key # k
    BY <1>t, <1>1 DEF JobsAreHeld
  <2>2. \A v \in Workers : worker'[v].pc # "idle" => worker'[v].key \in Keys /\ job'[worker'[v].key].state = "running"
    BY <1>t, <1>2, <1>4, <1>5, <2>1 DEF JobsAreHeld
  <2>3. ASSUME NEW v \in Workers, NEW x \in Workers, worker'[v].pc # "idle", worker'[x].pc # "idle",
               worker'[v].key = worker'[x].key
        PROVE  v = x
    <3>1. CASE v = w
      BY <1>2, <1>5, <2>1, <2>3, <3>1
    <3>2. CASE v # w /\ x = w
      BY <1>2, <1>5, <2>1, <2>3, <3>2
    <3>3. CASE v # w /\ x # w
      BY <1>t, <1>5, <2>3, <3>3 DEF JobsAreHeld
    <3> QED
      BY <3>1, <3>2, <3>3
  <2> QED
    BY <2>2, <2>3 DEF JobsAreHeld
<1>8. Listed' /\ Unobserved'
  <2>1. \A v \in Workers : worker'[v].opps \subseteq worker[v].opps
    BY <1>2, <1>5
  <2>2. \A o \in Opportunities : MatchKey(o) \in Keys
    BY KeyFacts
  <2> QED
    BY <1>t, <1>1, <1>4, <2>1, <2>2 DEF Listed, Unobserved
<1> QED
  BY <1>1, <1>6, <1>7, <1>8, RowsStay DEF TypeInv

(* A step of a handler, which does what its types allow and either ends or *)
(* goes on with opportunities that exist.                                  *)
Fits == /\ delivery' \in [Matches -> DeliveryRow] /\ faults' \in 0..MaxFaults
        /\ read' \in [Opportunities -> SUBSET (Profiles \X Revisions)]
        /\ changed' \subseteq Profiles /\ leftOut' \subseteq Matches /\ unscheduled' \subseteq Matches
        /\ UNCHANGED <<now, profile, entitled, seen, activation>>

LEMMA EndTypeInv ==
  ASSUME TypeInv, NEW w \in Workers, worker[w].pc # "idle", NEW s \in {"queued", "completed"},
         job' = [job EXCEPT ![worker[w].key].state = s], worker' = [worker EXCEPT ![w] = Idle], Fits
  PROVE  TypeInv'
<1>t. TypeOK /\ JobsAreHeld /\ Listed /\ Unobserved /\ Locks
  BY DEF TypeInv
<1>1. JobsAreHeld' /\ worker' \in [Workers -> Handler] /\ job' \in [Keys -> JobRow]
  BY HandlerEnds
<1>2. TypeOK'
  BY <1>t, <1>1, RowsStay DEF TypeOK, Fits
<1>3. Listed'
  <2>1. \A v \in Workers : worker'[v].opps \subseteq worker[v].opps
    BY <1>t, IdleFacts DEF TypeOK
  <2> QED
    BY <1>t, <2>1 DEF Listed, Fits
<1>4. Unobserved'
  <2>1. PICK k \in Keys : k = worker[w].key /\ job[k].state = "running"
    BY <1>t DEF JobsAreHeld
  <2>2. \A j \in Keys : j # k => job'[j] = job[j]
    BY <1>t, <2>1 DEF TypeOK
  <2>3. \A o \in Opportunities : MatchKey(o) \in Keys
    BY KeyFacts
  <2>4. \A o \in Opportunities : seen[o] = 0 => MatchKey(o) # k
    BY <1>t, <2>1 DEF Unobserved
  <2> QED
    BY <1>t, <2>2, <2>3, <2>4 DEF Unobserved, Fits
<1> QED
  BY <1>1, <1>2, <1>3, <1>4, RowsStay DEF TypeInv, Fits

LEMMA GoOnTypeInv ==
  ASSUME TypeInv, NEW w \in Workers, NEW h \in Handler, h.key = worker[w].key, worker[w].pc # "idle",
         \A o \in h.opps : seen[o] # 0,
         worker' = [worker EXCEPT ![w] = h], UNCHANGED job, Fits
  PROVE  TypeInv'
<1>t. TypeOK /\ JobsAreHeld /\ Listed /\ Unobserved /\ Locks
  BY DEF TypeInv
<1>1. JobsAreHeld' /\ worker' \in [Workers -> Handler]
  BY OneHandler
<1>2. TypeOK'
  BY <1>t, <1>1, RowsStay DEF TypeOK, Fits
<1>3. Listed'
  <2>1. \A v \in Workers : worker'[v] = IF v = w THEN h ELSE worker[v]
    BY <1>t DEF TypeOK
  <2> QED
    BY <1>t, <2>1 DEF Listed, Fits
<1>4. Unobserved'
  BY <1>t DEF Unobserved, Fits
<1> QED
  BY <1>1, <1>2, <1>3, <1>4, RowsStay DEF TypeInv, Fits

(* The handler of a worker, whose key and job are known.                   *)
LEMMA HandlerFacts ==
  ASSUME TypeInv, NEW w \in Workers, worker[w].pc # "idle"
  PROVE  /\ worker[w] \in Handler /\ worker[w].key \in Keys /\ job[worker[w].key] \in JobRow
         /\ worker[w].opps \subseteq Opportunities /\ worker[w].profiles \subseteq Profiles \X Revisions
         /\ \A t \in worker[w].todo : t.match \in Matches /\ t.seen \in 1..MaxTime
         /\ \A o \in worker[w].opps : seen[o] \in 1..MaxTime
<1>1. worker[w] \in Handler /\ worker[w].key \in Keys /\ job[worker[w].key] \in JobRow
  BY DEF TypeInv, TypeOK, JobsAreHeld
<1>2. /\ worker[w].opps \subseteq Opportunities /\ worker[w].profiles \subseteq Profiles \X Revisions
      /\ worker[w].todo \subseteq [match : Matches, seen : 1..MaxTime]
  BY <1>1 DEF Handler
<1>3. \A o \in worker[w].opps : seen[o] \in 1..MaxTime
  BY <1>2, Constants DEF TypeInv, TypeOK, Listed
<1> QED
  BY <1>1, <1>2, <1>3

LEMMA FailsTypeInv ==
  ASSUME TypeInv, NEW w \in Workers, HandlerFails(w)
  PROVE  TypeInv'
<1>1. Fits
  BY Constants DEF HandlerFails, Fits, TypeInv, TypeOK, history
<1> QED
  BY <1>1, EndTypeInv DEF HandlerFails

LEMMA ReadTypeInv ==
  ASSUME TypeInv, NEW w \in Workers, ReadProfiles(w)
  PROVE  TypeInv'
<1> DEFINE o == worker[w].key[2]
           h == [worker[w] EXCEPT !.pc = "generate", !.opps = {o}, !.profiles = ActiveRevisions]
<1>1. /\ worker[w].pc = "load" /\ worker[w].key[1] = "match"
      /\ read' = [read EXCEPT ![o] = @ \cup ActiveRevisions]
      /\ UNCHANGED <<now, profile, entitled, seen, job, activation, delivery, faults,
                     changed, leftOut, unscheduled>>
  BY DEF ReadProfiles
<1>2. worker' = [worker EXCEPT ![w] = h]
  BY DEF ReadProfiles, TypeInv, TypeOK
<1>3. worker[w] \in Handler /\ o \in Opportunities /\ worker[w].key = MatchKey(o)
  <2>1. worker[w].key \in Keys /\ worker[w] \in Handler
    BY <1>1, HandlerFacts
  <2>2. "match" # "rematch"
    OBVIOUS
  <2> QED
    BY <1>1, <2>1, <2>2, KeyFacts
<1>4. seen[o] # 0
  BY <1>1, <1>3 DEF TypeInv, JobsAreHeld, Unobserved
<1>5. h \in Handler /\ h.key = worker[w].key /\ h.opps = {o}
  BY <1>3, RevisionFacts DEF Handler
<1>6. Fits
  <2>1. read' \in [Opportunities -> SUBSET (Profiles \X Revisions)]
    BY <1>1, <1>3, RevisionFacts DEF TypeInv, TypeOK
  <2> QED
    BY <1>1, <2>1 DEF Fits, TypeInv, TypeOK
<1> HIDE DEF h, o
<1> QED
  BY <1>1, <1>2, <1>4, <1>5, <1>6, GoOnTypeInv

(* A rematch lists opportunities seen by its creation; the others are too  *)
(* late, too old, or have enough as late beside them: all that are listed. *)
LEMMA ListingFacts ==
  ASSUME TypeInv, NEW at \in Nat, NEW opps \in Listings(at)
  PROVE  /\ opps \subseteq Opportunities /\ \A o \in opps : seen[o] \in 1..at
         /\ \A o \in Opportunities \ opps : seen[o] # 0 => TooLate(o, at) \/ TooOld(o, at) \/ Crowded(o, at)
<1>1. opps \subseteq Recent(at) /\ Recent(at) \subseteq Opportunities /\ \A o \in Recent(at) : seen[o] \in 1..at
  BY DEF Listings, Recent
<1>2. ASSUME NEW o \in Opportunities \ opps, seen[o] # 0, ~TooLate(o, at), ~TooOld(o, at)
      PROVE  Crowded(o, at)
  <2> DEFINE beside == {q \in Opportunities \ {o} : seen[q] \in seen[o]..at}
  <2>1. seen[o] \in 1..MaxTime /\ MaximumAge \in Nat /\ MaxOpportunities \in Nat
    BY <1>2, Constants DEF TypeInv, TypeOK
  <2>2. o \in Recent(at)
    BY <1>2, <2>1 DEF Recent, AgedWithin, TooLate, TooOld
  <2>3. Cardinality(opps) = MaxOpportunities /\ \A q \in opps : seen[q] >= seen[o]
    BY <1>2, <2>2 DEF Listings
  <2>4. opps \subseteq beside
    BY <1>1, <1>2, <2>1, <2>3
  <2>5. IsFiniteSet(beside) /\ beside \subseteq Opportunities
    BY Constants, FS_Subset
  <2> HIDE DEF beside
  <2>6. Cardinality(opps) <= Cardinality(beside) /\ Cardinality(beside) \in Nat
    BY <2>4, <2>5, FS_Subset, FS_CardinalityType
  <2>7. Cardinality(beside) >= MaxOpportunities
    BY <2>1, <2>3, <2>6
  <2> QED
    BY <2>7 DEF Crowded, beside
<1> QED
  BY <1>1, <1>2

LEMMA LoadTypeInv ==
  ASSUME TypeInv, NEW w \in Workers, Load(w)
  PROVE  TypeInv'
<1> DEFINE k == worker[w].key
           p == k[2]
           r == k[3]
<1>1. /\ worker[w].pc = "load" /\ k[1] = "rematch"
      /\ UNCHANGED <<now, profile, entitled, seen, activation, delivery, faults>>
  BY DEF Load
<1>2. worker[w] \in Handler /\ k \in Keys /\ p \in Profiles /\ r \in Revisions /\ job[k].created \in 0..MaxTime
  BY <1>1, HandlerFacts, KeyFacts DEF JobRow
<1>3. Fits
  <2>1. read' = read /\ changed' = changed /\ unscheduled' = unscheduled
    BY DEF Load, history
  <2>2. \A o \in Opportunities : <<o, p, r>> \in Matches
    BY <1>2 DEF Matches
  <2>3. leftOut' = leftOut \/ \E S \in SUBSET Opportunities : leftOut' = leftOut \cup {<<o, p, r>> : o \in S}
    <3>1. \A opps : LeavesOut(opps, job[k].created) \in SUBSET Opportunities
      BY DEF LeavesOut
    <3> QED
      BY <3>1 DEF Load, history
  <2>4. leftOut' \subseteq Matches
    BY <2>2, <2>3 DEF TypeInv, TypeOK
  <2> QED
    BY <1>1, <2>1, <2>4 DEF Fits, TypeInv, TypeOK
<1>4. CASE Completes(w)
  BY <1>1, <1>3, <1>4, EndTypeInv DEF Completes
<1>5. ASSUME NEW opps \in Listings(job[k].created), UNCHANGED job,
             worker' = [worker EXCEPT ![w].pc = "generate", ![w].opps = opps, ![w].profiles = {<<p, r>>}]
      PROVE  TypeInv'
  <2>1. PICK h : h = [worker[w] EXCEPT !.pc = "generate", !.opps = opps, !.profiles = {<<p, r>>}]
    OBVIOUS
  <2>2. job[k].created \in Nat
    BY <1>2, Constants
  <2>3. opps \in SUBSET Opportunities /\ {<<p, r>>} \in SUBSET (Profiles \X Revisions) /\ \A o \in opps : seen[o] # 0
    BY <1>2, <2>2, ListingFacts
  <2>4. worker \in [Workers -> Handler]
    BY DEF TypeInv, TypeOK
  <2>5. worker' = [worker EXCEPT ![w] = h]
    BY <1>5, <2>1, <2>4
  <2> HIDE DEF p, r, k
  <2>6. h \in Handler /\ h.opps = opps /\ h.key = worker[w].key
    BY <1>2, <2>1, <2>3 DEF Handler
  <2> QED
    BY <1>1, <1>3, <1>5, <2>3, <2>5, <2>6, GoOnTypeInv
<1> QED
  BY <1>4, <1>5 DEF Load

LEMMA GenerateTypeInv ==
  ASSUME TypeInv, NEW w \in Workers, Generate(w)
  PROVE  TypeInv'
<1> DEFINE expired == {y \in Fitting(w) : Expired(y[1], worker[w].key)}
           traces == {TraceOf(y) : y \in Fitting(w) \ expired}
           h == [worker[w] EXCEPT !.pc = "schedule", !.todo = traces]
<1>1. /\ worker[w].pc = "generate"
      /\ UNCHANGED <<now, profile, entitled, seen, activation, delivery, faults, read, changed, leftOut>>
      /\ unscheduled' \in {unscheduled, unscheduled \cup {MatchOf(y) : y \in expired}}
      /\ Completes(w) \/ (worker' = [worker EXCEPT ![w] = h] /\ UNCHANGED job)
  <2>1. worker \in [Workers -> Handler]
    BY DEF TypeInv, TypeOK
  <2> QED
    BY <2>1 DEF Generate
<1>2. \A y \in Fitting(w) : MatchOf(y) \in Matches /\ TraceOf(y) \in [match : Matches, seen : 1..MaxTime]
  <2>1. ASSUME NEW y \in Fitting(w)
        PROVE  y[1] \in Opportunities /\ y[2] \in Profiles \X Revisions /\ seen[y[1]] \in 1..MaxTime
    BY <1>1, HandlerFacts DEF Fitting
  <2> QED
    BY <2>1 DEF Matches, MatchOf, TraceOf
<1>3. traces \subseteq [match : Matches, seen : 1..MaxTime]
  BY <1>2
<1>8. Fits
  <2>1. unscheduled' \subseteq Matches
    BY <1>1, <1>2 DEF TypeInv, TypeOK
  <2> QED
    BY <1>1, <2>1 DEF Fits, TypeInv, TypeOK
<1>4. h \in Handler /\ h.key = worker[w].key /\ h.opps = worker[w].opps
  BY <1>1, <1>3, HandlerFacts DEF Handler
<1>5. \A o \in h.opps : seen[o] # 0
  BY <1>4 DEF TypeInv, Listed
<1> HIDE DEF h, traces
<1>6. CASE Completes(w)
  BY <1>1, <1>8, <1>6, EndTypeInv DEF Completes
<1>7. CASE worker' = [worker EXCEPT ![w] = h] /\ UNCHANGED job
  BY <1>1, <1>8, <1>4, <1>5, <1>7, GoOnTypeInv
<1> QED
  BY <1>1, <1>6, <1>7

LEMMA ScheduleTypeInv ==
  ASSUME TypeInv, NEW w \in Workers, NEW t \in worker[w].todo, Schedule(w, t) \/ ScheduleFails(w, t)
  PROVE  TypeInv'
<1> DEFINE h == [worker[w] EXCEPT !.todo = @ \ {t}]
<1>1. worker[w].pc = "schedule" /\ UNCHANGED job
  BY DEF Schedule, ScheduleFails
<1>2. worker' = [worker EXCEPT ![w] = h]
  BY DEF Schedule, ScheduleFails, TypeInv, TypeOK
<1>3. h \in Handler /\ h.key = worker[w].key /\ h.opps = worker[w].opps
  BY <1>1, HandlerFacts DEF Handler
<1>4. \A o \in h.opps : seen[o] # 0
  BY <1>3 DEF TypeInv, Listed
<1>5. Fits
  <2>1. t.match \in Matches /\ t.seen \in 0..MaxTime
    BY <1>1, HandlerFacts, Constants
  <2>2. Ensured(t) \in [Matches -> DeliveryRow]
    BY <2>1 DEF Ensured, DeliveryRow, TypeInv, TypeOK
  <2>3. CASE Schedule(w, t)
    <3>1. delivery' \in [Matches -> DeliveryRow] /\ unscheduled' \subseteq Matches
      BY <2>1, <2>2, <2>3 DEF Schedule, TypeInv, TypeOK
    <3> QED
      BY <2>3, <3>1 DEF Schedule, Fits, TypeInv, TypeOK
  <2>4. CASE ScheduleFails(w, t)
    <3>1. unscheduled' \subseteq Matches /\ faults' \in 0..MaxFaults
      BY <2>1, <2>4, Constants DEF ScheduleFails, TypeInv, TypeOK
    <3> QED
      BY <2>4, <3>1 DEF ScheduleFails, Fits, TypeInv, TypeOK
  <2> QED
    BY <2>3, <2>4
<1> HIDE DEF h
<1> QED
  BY <1>1, <1>2, <1>3, <1>4, <1>5, GoOnTypeInv

LEMMA DeliverTypeInv ==
  ASSUME TypeInv, NEW m \in Matches, Deliver(m)
  PROVE  TypeInv'
<1>1. UNCHANGED <<now, profile, entitled, seen, job, activation, worker, faults, history>>
  BY DEF Deliver
<1>2. delivery' \in [Matches -> DeliveryRow]
  <2> DEFINE status ==
               IF Owner[m[2]] \notin entitled THEN "unentitled"
               ELSE IF ~Active(m[2]) \/ profile[m[2]].revision # m[3] THEN "ineligible"
               ELSE IF seen[m[1]] # delivery[m].seen THEN "stale" ELSE "sent"
  <2>0. delivery' = [delivery EXCEPT ![m].status = status]
    BY DEF Deliver
  <2>s. status \in {"unentitled", "ineligible", "stale", "sent"}
    OBVIOUS
  <2> HIDE DEF status
  <2>1. PICK s \in {"unentitled", "ineligible", "stale", "sent"} : delivery' = [delivery EXCEPT ![m].status = s]
    BY <2>0, <2>s
  <2>2. [delivery[m] EXCEPT !.status = s] \in DeliveryRow
    BY DEF TypeInv, TypeOK, DeliveryRow
  <2> QED
    BY <2>1, <2>2 DEF TypeInv, TypeOK
<1>3. TypeOK'
  BY <1>1, <1>2, RowsStay DEF TypeInv, TypeOK, history
<1>4. JobsAreHeld' /\ Listed' /\ Unobserved'
  BY <1>1 DEF TypeInv, JobsAreHeld, Listed, Unobserved
<1> QED
  BY <1>1, <1>3, <1>4, RowsStay DEF TypeInv

LEMMA NextTypeInv ==
  ASSUME TypeInv, [Next]_vars
  PROVE  TypeInv'
<1>1. CASE UNCHANGED vars \/ Tick \/ \E u \in Users : EntitlementChanges(u)
  <2>1. /\ UNCHANGED <<profile, seen, job, activation, worker, delivery, history>>
        /\ now' \in 1..MaxTime /\ entitled' \subseteq Users /\ faults' \in 0..MaxFaults
    BY <1>1, Constants DEF vars, history, Tick, EntitlementChanges, TypeInv, TypeOK
  <2>2. TypeOK'
    BY <2>1, RowsStay DEF TypeInv, TypeOK, history
  <2>3. JobsAreHeld' /\ Listed' /\ Unobserved'
    BY <2>1 DEF TypeInv, JobsAreHeld, Listed, Unobserved
  <2> QED
    BY <2>1, <2>2, <2>3, RowsStay DEF TypeInv
<1>2. ASSUME NEW p \in Profiles, UpdatePreferences(p)
      PROVE  TypeInv'
  <2>1. Bumped(p) \in ProfileRow /\ Bumped(p).active = profile[p].active
    BY <1>2, RevisionFacts DEF UpdatePreferences, UpdateFree
  <2>2. changed' \subseteq Profiles
    BY <1>2 DEF UpdatePreferences, TypeInv, TypeOK
  <2> QED
    BY <1>2, <2>1, <2>2, ProfileChange DEF UpdatePreferences, UpdateFree
<1>3. ASSUME NEW p \in Profiles, Deactivate(p)
      PROVE  TypeInv'
  <2>1. Bumped(p) \in ProfileRow
    BY <1>3, RevisionFacts DEF Deactivate, UpdateFree
  <2>2. [Bumped(p) EXCEPT !.active = FALSE] \in ProfileRow /\ ~[Bumped(p) EXCEPT !.active = FALSE].active
    BY <2>1 DEF ProfileRow
  <2> QED
    BY <1>3, <2>2, ProfileChange DEF Deactivate, UpdateFree, history, TypeInv, TypeOK
<1>4. ASSUME NEW m \in Matches, Deliver(m)
      PROVE  TypeInv'
  BY <1>4, DeliverTypeInv
<1>5. ASSUME NEW w \in Workers, Complete(w)
      PROVE  TypeInv'
  <2>1. Fits
    BY <1>5 DEF Complete, Fits, history, TypeInv, TypeOK
  <2> QED
    BY <1>5, <2>1, EndTypeInv DEF Complete, Completes
<1> QED
  BY <1>1, <1>2, <1>3, <1>4, <1>5, BeginTypeInv, CommitTypeInv, ObservedTypeInv, ClaimTypeInv, FailsTypeInv,
     ReadTypeInv, LoadTypeInv, GenerateTypeInv, ScheduleTypeInv DEF Next

(* Every variable keeps its type, and an activation locks profiles of its  *)
(* own user only: the rows the bot and the workers write are those the     *)
(* tables allow.                                                           *)
THEOREM TypeCorrect == Spec => []TypeOK
<1>1. TypeInv /\ [Next]_vars => TypeInv'
  BY NextTypeInv
<1>2. TypeInv => TypeOK
  BY DEF TypeInv
<1> QED
  BY InitTypeInv, <1>1, <1>2, PTL DEF Spec

-----------------------------------------------------------------------------
(* Activations                                                             *)

(* A job of a key is there for ever, whatever becomes of it.               *)
LEMMA JobsStay ==
  ASSUME TypeInv, [Next]_vars, NEW k \in Keys, job[k].state # "absent"
  PROVE  job'[k].state # "absent"
<1>t. job \in [Keys -> JobRow]
  BY DEF TypeInv, TypeOK
<1>1. ASSUME NEW w \in Workers, worker[w].pc # "idle", Completes(w) \/ job' = [job EXCEPT ![worker[w].key].state = "queued"]
      PROVE  job'[k].state # "absent"
  <2>1. worker[w].key \in Keys
    BY <1>1, HandlerFacts
  <2>2. PICK s \in {"completed", "queued"} : job' = [job EXCEPT ![worker[w].key] = [job[worker[w].key] EXCEPT !.state = s]]
    BY <1>1, <1>t, <2>1 DEF Completes
  <2>3. [job[worker[w].key] EXCEPT !.state = s].state = s
    BY <1>t, <2>1 DEF JobRow
  <2>4. job'[k] = IF k = worker[w].key THEN [job[worker[w].key] EXCEPT !.state = s] ELSE job[k]
    BY <1>t, <2>1, <2>2
  <2> QED
    BY <2>3, <2>4
<1>2. ASSUME NEW w \in Workers, NEW j \in Keys, Claim(w, j)
      PROVE  job'[k].state # "absent"
  <2>1. job' = [job EXCEPT ![j] = [job[j] EXCEPT !.state = "running"]]
    BY <1>2, <1>t DEF Claim
  <2>2. [job[j] EXCEPT !.state = "running"].state = "running"
    BY <1>t DEF JobRow
  <2>3. job'[k] = IF k = j THEN [job[j] EXCEPT !.state = "running"] ELSE job[k]
    BY <1>t, <2>1
  <2> QED
    BY <2>2, <2>3
<1>3. ASSUME NEW o \in Opportunities, NEW at \in 1..MaxTime, Observed(o, at)
      PROVE  job'[k].state # "absent"
  BY <1>3, KeyFacts, EnqueuedFacts, ObservedFacts
<1>4. ASSUME NEW u \in Users, CommitActivation(u)
      PROVE  job'[k].state # "absent"
  <2>1. PICK p \in Profiles : p = activation[u].of /\ Activated(p) \in ProfileRow
    BY <1>4, CommitFacts
  <2>2. ActivationKey(p) \in Keys /\ activation[u].at \in 0..MaxTime
    BY <2>1, KeyFacts DEF ActivationKey, TypeInv, TypeOK, Activation, ProfileRow
  <2> QED
    BY <1>4, <2>1, <2>2, EnqueuedFacts DEF CommitActivation
<1>5. ASSUME NEW w \in Workers, HandlerFails(w) \/ ReadProfiles(w) \/ Load(w) \/ Generate(w) \/ Complete(w)
                              \/ \E t \in worker[w].todo : Schedule(w, t) \/ ScheduleFails(w, t)
      PROVE  job'[k].state # "absent"
  <2>1. \/ UNCHANGED job
        \/ worker[w].pc # "idle" /\ (Completes(w) \/ job' = [job EXCEPT ![worker[w].key].state = "queued"])
    BY <1>5 DEF HandlerFails, ReadProfiles, Load, Generate, Complete, Schedule, ScheduleFails
  <2> QED
    BY <1>1, <2>1
<1>6. UNCHANGED vars \/ Tick \/ (\E u \in Users : EntitlementChanges(u)) \/ (\E m \in Matches : Deliver(m))
      \/ (\E p \in Profiles : UpdatePreferences(p) \/ Deactivate(p) \/ BeginActivation(p))
      => UNCHANGED job
  BY DEF vars, Tick, EntitlementChanges, Deliver, UpdatePreferences, Deactivate, BeginActivation
<1> QED
  BY <1>2, <1>3, <1>4, <1>5, <1>6 DEF Next

(* Only these actions write profiles.                                      *)
LEMMA ProfileWriters ==
  ASSUME [Next]_vars
  PROVE  \/ UNCHANGED <<profile, changed>>
         \/ \E p \in Profiles : UpdatePreferences(p) \/ Deactivate(p)
         \/ \E u \in Users : CommitActivation(u)
BY DEF Next, vars, history, Tick, EntitlementChanges, Deliver, BeginActivation, Observed, Claim, HandlerFails,
       ReadProfiles, Load, Generate, Complete, Schedule, ScheduleFails

(* What becomes of the row of one profile in a step.                       *)
LEMMA UpdateFacts ==
  ASSUME TypeInv, NEW p \in Profiles, UpdatePreferences(p) \/ Deactivate(p)
  PROVE  /\ profile'[p].revision = profile[p].revision + 1
         /\ profile'[p].active => profile[p].active /\ p \in changed'
         /\ \A q \in Profiles : q # p => profile'[q] = profile[q]
         /\ changed \subseteq changed'
<1>1. profile \in [Profiles -> ProfileRow] /\ profile[p] \in ProfileRow
  BY DEF TypeInv, TypeOK
<1>2. /\ Bumped(p) \in ProfileRow /\ Bumped(p).revision = profile[p].revision + 1
      /\ Bumped(p).active = profile[p].active
  BY RevisionFacts DEF UpdatePreferences, Deactivate, UpdateFree
<1>3. /\ [Bumped(p) EXCEPT !.active = FALSE].revision = profile[p].revision + 1
      /\ ~[Bumped(p) EXCEPT !.active = FALSE].active
  BY <1>2 DEF ProfileRow
<1>4. CASE UpdatePreferences(p)
  <2>1. profile' = [profile EXCEPT ![p] = Bumped(p)]
    BY <1>4 DEF UpdatePreferences
  <2>2. profile'[p] = Bumped(p) /\ \A q \in Profiles : q # p => profile'[q] = profile[q]
    BY <1>1, <2>1
  <2>3. changed \subseteq changed' /\ (profile[p].active => p \in changed')
    BY <1>4 DEF UpdatePreferences, Active
  <2> QED
    BY <1>2, <2>2, <2>3
<1>5. CASE Deactivate(p)
  <2>1. profile' = [profile EXCEPT ![p] = [Bumped(p) EXCEPT !.active = FALSE]]
    BY <1>5 DEF Deactivate
  <2>2. profile'[p] = [Bumped(p) EXCEPT !.active = FALSE] /\ \A q \in Profiles : q # p => profile'[q] = profile[q]
    BY <1>1, <2>1
  <2>3. changed' = changed
    BY <1>5 DEF Deactivate, history
  <2> QED
    BY <1>3, <2>2, <2>3
<1> QED
  BY <1>4, <1>5

LEMMA NextOneActive ==
  ASSUME TypeInv, OneActiveProfile, [Next]_vars
  PROVE  OneActiveProfile'
<1>1. CASE UNCHANGED <<profile, changed>>
  BY <1>1 DEF OneActiveProfile
<1>2. ASSUME NEW p \in Profiles, UpdatePreferences(p) \/ Deactivate(p)
      PROVE  OneActiveProfile'
  <2>1. \A q \in Profiles : profile'[q].active => profile[q].active
    BY <1>2, UpdateFacts
  <2> QED
    BY <2>1 DEF OneActiveProfile
<1>3. ASSUME NEW u \in Users, CommitActivation(u)
      PROVE  OneActiveProfile'
  <2>1. PICK p \in Profiles :
          /\ Owner[p] = u
          /\ \A q \in Profiles : Owner[q] = u /\ q # p => ~profile'[q].active
          /\ \A q \in Profiles : Owner[q] # u => profile'[q] = profile[q]
    <3>1. /\ activation[u].of \in Profiles /\ Owner[activation[u].of] = u
          /\ \A q \in Profiles : Owner[q] = u /\ q # activation[u].of => ~profile'[q].active
          /\ \A q \in activation[u].others \ {activation[u].of} : Owner[q] = u
          /\ \A q \in Profiles : q # activation[u].of /\ q \notin activation[u].others => profile'[q] = profile[q]
      BY <1>3, CommitFacts
    <3>2. \A q \in Profiles : Owner[q] # u => profile'[q] = profile[q]
      BY <3>1
    <3> QED
      BY <3>1, <3>2
  <2>2. ASSUME NEW a \in Profiles, NEW b \in Profiles, Owner[a] = Owner[b], profile'[a].active, profile'[b].active
        PROVE  a = b
    <3>1. CASE Owner[a] = u
      BY <2>1, <2>2, <3>1
    <3>2. CASE Owner[a] # u
      <4>1. profile'[a] = profile[a] /\ profile'[b] = profile[b]
        BY <2>1, <2>2, <3>2
      <4>2. profile[a].active /\ profile[b].active
        BY <2>2, <4>1
      <4> QED
        BY <2>2, <4>2 DEF OneActiveProfile
    <3> QED
      BY <3>1, <3>2
  <2> QED
    BY <2>2 DEF OneActiveProfile
<1> QED
  BY <1>1, <1>2, <1>3, ProfileWriters

(* A user has one active profile at most, however many profiles the user   *)
(* has: the activation locks the user, and every profile that is active    *)
(* when it begins, until it commits.                                       *)
THEOREM OneActiveProfileAlways == Spec => []OneActiveProfile
<1>1. Init => OneActiveProfile
  BY DEF Init, OneActiveProfile
<1>2. TypeInv /\ OneActiveProfile /\ [Next]_vars => TypeInv' /\ OneActiveProfile'
  BY NextTypeInv, NextOneActive
<1> QED
  BY InitTypeInv, <1>1, <1>2, PTL DEF Spec

LEMMA NextMatched ==
  ASSUME TypeInv, ActivationIsMatched, [Next]_vars
  PROVE  ActivationIsMatched'
<1>1. \A p \in Profiles : RematchKey(p, profile[p].revision) \in Keys
  BY RevisionFacts, KeyFacts
<1>2. SUFFICES ASSUME NEW p \in Profiles, profile'[p].active, p \notin changed'
               PROVE  job'[RematchKey(p, profile'[p].revision)].state # "absent"
  BY DEF ActivationIsMatched, Active
<1>3. CASE profile'[p] = profile[p] /\ p \notin changed
  BY <1>1, <1>2, <1>3, JobsStay DEF ActivationIsMatched, Active
<1>4. ASSUME NEW q \in Profiles, UpdatePreferences(q) \/ Deactivate(q)
      PROVE  profile'[p] = profile[p] /\ p \notin changed
  BY <1>2, <1>4, UpdateFacts
<1>5. ASSUME NEW u \in Users, CommitActivation(u), p # activation[u].of
      PROVE  profile'[p] = profile[p] /\ p \notin changed
  <2>1. p \notin activation[u].others
    BY <1>2, <1>5, CommitFacts
  <2>2. p \notin changed
    BY <1>2, <1>5 DEF CommitActivation
  <2> QED
    BY <1>5, <2>1, <2>2, CommitFacts
<1>6. ASSUME NEW u \in Users, CommitActivation(u), p = activation[u].of
      PROVE  job'[RematchKey(p, profile'[p].revision)].state # "absent"
  <2>1. Activated(p) \in ProfileRow /\ profile'[p] = Activated(p)
    BY <1>6, CommitFacts
  <2>2. ActivationKey(p) \in Keys /\ activation[u].at \in 0..MaxTime
    BY <2>1, KeyFacts DEF ActivationKey, TypeInv, TypeOK, Activation, ProfileRow
  <2>3. job'[ActivationKey(p)].state # "absent"
    BY <1>6, <2>2, EnqueuedFacts DEF CommitActivation
  <2> QED
    BY <2>1, <2>3 DEF ActivationKey
<1> QED
  BY <1>2, <1>3, <1>4, <1>5, <1>6, ProfileWriters

(* An active profile has a rematch of the revision it has, unless its      *)
(* settings changed after the last activation, which queued none.          *)
THEOREM ActivationIsAlwaysMatched == Spec => []ActivationIsMatched
<1>1. Init => ActivationIsMatched
  BY DEF Init, ActivationIsMatched, Active
<1>2. TypeInv /\ ActivationIsMatched /\ [Next]_vars => TypeInv' /\ ActivationIsMatched'
  BY NextTypeInv, NextMatched
<1> QED
  BY InitTypeInv, <1>1, <1>2, PTL DEF Spec

-----------------------------------------------------------------------------
(* Nobody is left out                                                      *)

Current(p, r) == Active(p) /\ profile[p].revision = r

(* The revision has been current: it is, or it is over for good.           *)
Valid(p, r) == profile[p].revision > r \/ Current(p, r)

Settled(m) == delivery[m].status # "absent" \/ m \in unscheduled

(* What a handler has to know of a match it must not forget, and a job     *)
(* have done at its end.                                                   *)
Covers(w, o, p, r) ==
    /\ worker[w].pc = "generate" => o \in worker[w].opps /\ <<p, r>> \in worker[w].profiles
    /\ worker[w].pc = "schedule" /\ <<o, p>> \in Relevant
       => Settled(<<o, p, r>>) \/ \E t \in worker[w].todo : t.match = <<o, p, r>>

Owed(k, o, p, r) ==
    /\ \A w \in Workers : worker[w].key = k => Covers(w, o, p, r)
    /\ job[k].state = "completed" /\ <<o, p>> \in Relevant => Settled(<<o, p, r>>)

(* The matching of the opportunity read its profiles without this one.     *)
Unread(o, p, r) ==
    /\ <<p, r>> \notin read[o]
    /\ \/ job[MatchKey(o)].state = "completed"
       \/ \E w \in Workers : worker[w].key = MatchKey(o) /\ worker[w].pc \in {"generate", "schedule"}

Good(o, p, r) ==
    Current(p, r) =>
      /\ <<p, r>> \in read[o] => Owed(MatchKey(o), o, p, r)
      /\ Unread(o, p, r) /\ <<o, p, r>> \notin leftOut => Owed(RematchKey(p, r), o, p, r)

GoodInv == \A o \in Opportunities, p \in Profiles, r \in Revisions : Good(o, p, r)

(* Whatever names a revision names one that has been current.              *)
ValidInv ==
    /\ \A o \in Opportunities, p \in Profiles, r \in Revisions : <<p, r>> \in read[o] => Valid(p, r)
    /\ \A p \in Profiles, r \in Revisions : job[RematchKey(p, r)].state # "absent" => Valid(p, r)
    /\ \A m \in Matches : /\ delivery[m].status # "absent" => Valid(m[2], m[3])
                          /\ delivery[m].status = "ineligible" => profile[m[2]].revision > m[3]
    /\ \A w \in Workers : worker[w].pc = "generate" /\ worker[w].key[1] = "rematch"
                          => worker[w].profiles = {<<worker[w].key[2], worker[w].key[3]>>}

LEMMA RevisionsGrow ==
  ASSUME TypeInv, [Next]_vars, NEW p \in Profiles
  PROVE  profile'[p] = profile[p] \/ profile'[p].revision = profile[p].revision + 1
<1>1. ASSUME NEW q \in Profiles, UpdatePreferences(q) \/ Deactivate(q)
      PROVE  profile'[p] = profile[p] \/ profile'[p].revision = profile[p].revision + 1
  BY <1>1, UpdateFacts
<1>2. ASSUME NEW u \in Users, CommitActivation(u)
      PROVE  profile'[p] = profile[p] \/ profile'[p].revision = profile[p].revision + 1
  <2>1. CASE p = activation[u].of
    <3>1. profile'[p] = Activated(p)
      BY <1>2, <2>1, CommitFacts
    <3>2. Bumped(p) \in ProfileRow /\ Bumped(p).revision = profile[p].revision + 1
      BY <1>2, <2>1, RevisionFacts DEF CommitActivation, TypeInv, Locks
    <3>3. [Bumped(p) EXCEPT !.active = TRUE].revision = profile[p].revision + 1
      BY <3>2 DEF ProfileRow
    <3> QED
      BY <3>1, <3>3 DEF Activated
  <2>2. CASE p # activation[u].of
    BY <1>2, <2>2, CommitFacts
  <2> QED
    BY <2>1, <2>2
<1> QED
  BY <1>1, <1>2, ProfileWriters

(* A revision that was current and is not never is again.                  *)
LEMMA ValidStays ==
  ASSUME TypeInv, [Next]_vars, NEW p \in Profiles, NEW r \in Revisions
  PROVE  /\ Valid(p, r) => Valid(p, r)'
         /\ profile[p].revision > r => profile'[p].revision > r
         /\ Valid(p, r) /\ Current(p, r)' => Current(p, r)
<1>1. profile[p].revision \in Nat /\ r \in Nat
  BY RevisionFacts, RevisionRange
<1>2. CASE profile'[p] = profile[p]
  BY <1>1, <1>2 DEF Valid, Current, Active
<1>3. CASE profile'[p].revision = profile[p].revision + 1
  <2>1. Valid(p, r) => profile'[p].revision > r
    BY <1>1, <1>3 DEF Valid, Current
  <2> QED
    BY <1>1, <1>3, <2>1 DEF Valid, Current
<1> QED
  BY <1>2, <1>3, RevisionsGrow

(* Only an observation and an activation make a job.                       *)
LEMMA NewJobs ==
  ASSUME TypeInv, [Next]_vars, NEW k \in Keys, job'[k].state # "absent"
  PROVE  \/ job[k].state # "absent"
         \/ \E o \in Opportunities : k = MatchKey(o)
         \/ \E u \in Users : CommitActivation(u) /\ k = ActivationKey(activation[u].of)
<1>t. job \in [Keys -> JobRow]
  BY DEF TypeInv, TypeOK
<1>1. ASSUME NEW w \in Workers, worker[w].pc # "idle", NEW s \in {"completed", "queued"},
             job' = [job EXCEPT ![worker[w].key].state = s]
      PROVE  job[k].state # "absent"
  <2>1. worker[w].key \in Keys /\ job[worker[w].key].state # "absent"
    BY <1>1 DEF TypeInv, JobsAreHeld
  <2>2. k # worker[w].key => job'[k] = job[k]
    BY <1>1, <1>t, <2>1
  <2> QED
    BY <2>1, <2>2
<1>2. ASSUME NEW w \in Workers, NEW j \in Keys, Claim(w, j)
      PROVE  job[k].state # "absent"
  <2>1. k # j => job'[k] = job[k]
    BY <1>2, <1>t DEF Claim
  <2> QED
    BY <1>2, <2>1 DEF Claim
<1>3. ASSUME NEW o \in Opportunities, NEW at \in 1..MaxTime, Observed(o, at), job[k].state = "absent"
      PROVE  k = MatchKey(o)
  BY <1>3, KeyFacts, EnqueuedFacts, ObservedFacts
<1>4. ASSUME NEW u \in Users, CommitActivation(u), job[k].state = "absent"
      PROVE  k = ActivationKey(activation[u].of)
  <2>1. PICK p \in Profiles : p = activation[u].of /\ Activated(p) \in ProfileRow
    BY <1>4, CommitFacts
  <2>2. ActivationKey(p) \in Keys /\ activation[u].at \in 0..MaxTime
    BY <2>1, KeyFacts DEF ActivationKey, TypeInv, TypeOK, Activation, ProfileRow
  <2> QED
    BY <1>4, <2>1, <2>2, EnqueuedFacts DEF CommitActivation
<1>5. ASSUME NEW w \in Workers, HandlerFails(w) \/ ReadProfiles(w) \/ Load(w) \/ Generate(w) \/ Complete(w)
                              \/ \E t \in worker[w].todo : Schedule(w, t) \/ ScheduleFails(w, t)
      PROVE  job[k].state # "absent"
  <2>1. \/ UNCHANGED job
        \/ worker[w].pc # "idle" /\ job' = [job EXCEPT ![worker[w].key].state = "completed"]
        \/ worker[w].pc # "idle" /\ job' = [job EXCEPT ![worker[w].key].state = "queued"]
    BY <1>5 DEF HandlerFails, ReadProfiles, Load, Generate, Complete, Completes, Schedule, ScheduleFails
  <2> QED
    BY <1>1, <2>1
<1>6. UNCHANGED vars \/ Tick \/ (\E u \in Users : EntitlementChanges(u)) \/ (\E m \in Matches : Deliver(m))
      \/ (\E p \in Profiles : UpdatePreferences(p) \/ Deactivate(p) \/ BeginActivation(p))
      => UNCHANGED job
  BY DEF vars, Tick, EntitlementChanges, Deliver, UpdatePreferences, Deactivate, BeginActivation
<1> QED
  BY <1>2, <1>3, <1>4, <1>5, <1>6 DEF Next

LEMMA RematchOfValid ==
  ASSUME TypeInv, ValidInv, [Next]_vars, NEW p \in Profiles, NEW r \in Revisions,
         job'[RematchKey(p, r)].state # "absent"
  PROVE  Valid(p, r)'
<1>1. RematchKey(p, r) \in Keys /\ \A o \in Opportunities : RematchKey(p, r) # MatchKey(o)
  BY KeyFacts
<1>2. CASE job[RematchKey(p, r)].state # "absent"
  BY <1>2, ValidStays DEF ValidInv
<1>3. ASSUME NEW u \in Users, CommitActivation(u), RematchKey(p, r) = ActivationKey(activation[u].of)
      PROVE  Valid(p, r)'
  <2>1. PICK q \in Profiles : q = activation[u].of /\ profile'[q] = Activated(q) /\ Activated(q).active
    BY <1>3, CommitFacts
  <2>2. p = q /\ r = Activated(q).revision
    BY <1>3, <2>1 DEF ActivationKey, RematchKey
  <2> QED
    BY <2>1, <2>2 DEF Valid, Current, Active
<1> QED
  BY <1>1, <1>2, <1>3, NewJobs

LEMMA ReadIsValid ==
  ASSUME TypeInv, ValidInv, [Next]_vars, NEW o \in Opportunities, NEW p \in Profiles, NEW r \in Revisions,
         <<p, r>> \in read'[o]
  PROVE  Valid(p, r)'
<1>1. CASE read' = read
  BY <1>1, ValidStays DEF ValidInv
<1>2. ASSUME NEW w \in Workers, ReadProfiles(w)
      PROVE  Valid(p, r)'
  <2>1. read'[o] = read[o] \/ read'[o] = read[o] \cup ActiveRevisions
    BY <1>2 DEF ReadProfiles, TypeInv, TypeOK
  <2>2. CASE <<p, r>> \in ActiveRevisions
    BY <2>2, RevisionFacts, ValidStays DEF Valid, Current
  <2>3. CASE <<p, r>> \in read[o]
    BY <2>3, ValidStays DEF ValidInv
  <2> QED
    BY <2>1, <2>2, <2>3
<1>3. read' = read \/ \E w \in Workers : ReadProfiles(w)
  BY DEF Next, vars, history, Tick, EntitlementChanges, Deliver, BeginActivation, Observed, Claim, HandlerFails,
         UpdatePreferences, Deactivate, CommitActivation, Load, Generate, Complete, Schedule, ScheduleFails
<1> QED
  BY <1>1, <1>2, <1>3

LEMMA DeliveryIsValid ==
  ASSUME TypeInv, ValidInv, [Next]_vars, NEW m \in Matches
  PROVE  /\ delivery'[m].status # "absent" => Valid(m[2], m[3])'
         /\ delivery'[m].status = "ineligible" => profile'[m[2]].revision > m[3]
         /\ delivery[m].status # "absent" => delivery'[m].status # "absent"
<1>1. m[2] \in Profiles /\ m[3] \in Revisions /\ delivery \in [Matches -> DeliveryRow]
  BY DEF Matches, TypeInv, TypeOK
<1>2. CASE delivery' = delivery
  BY <1>1, <1>2, ValidStays DEF ValidInv
<1>3. ASSUME NEW w \in Workers, NEW t \in worker[w].todo, Schedule(w, t), delivery' # delivery
      PROVE  /\ delivery'[m].status # "absent" => Valid(m[2], m[3])'
             /\ delivery'[m].status = "ineligible" => profile'[m[2]].revision > m[3]
             /\ delivery[m].status # "absent" => delivery'[m].status # "absent"
  <2>1. /\ delivery' = [delivery EXCEPT ![t.match] = [status |-> "pending", seen |-> t.seen]]
        /\ Current(t.match[2], t.match[3]) /\ t.match \in Matches
    BY <1>3, HandlerFacts DEF Schedule, Ensured, Current
  <2>2. CASE m = t.match
    BY <1>1, <2>1, <2>2, ValidStays DEF Valid
  <2>3. CASE m # t.match
    <3>1. delivery'[m] = delivery[m]
      BY <1>1, <2>1, <2>3
    <3> QED
      BY <1>1, <3>1, ValidStays DEF ValidInv
  <2> QED
    BY <2>2, <2>3
<1>4. ASSUME NEW n \in Matches, Deliver(n)
      PROVE  /\ delivery'[m].status # "absent" => Valid(m[2], m[3])'
             /\ delivery'[m].status = "ineligible" => profile'[m[2]].revision > m[3]
             /\ delivery[m].status # "absent" => delivery'[m].status # "absent"
  <2> DEFINE status ==
               IF Owner[n[2]] \notin entitled THEN "unentitled"
               ELSE IF ~Active(n[2]) \/ profile[n[2]].revision # n[3] THEN "ineligible"
               ELSE IF seen[n[1]] # delivery[n].seen THEN "stale" ELSE "sent"
  <2>1. /\ delivery' = [delivery EXCEPT ![n] = [delivery[n] EXCEPT !.status = status]]
        /\ delivery[n].status = "pending" /\ UNCHANGED profile
    BY <1>1, <1>4 DEF Deliver
  <2>2. /\ status # "absent"
        /\ status = "ineligible" => ~Current(n[2], n[3])
    BY DEF Current
  <2> HIDE DEF status
  <2>3. [delivery[n] EXCEPT !.status = status].status = status
    BY <1>1 DEF DeliveryRow
  <2>4. CASE m = n
    <3>1. delivery'[m].status = status /\ delivery[m].status # "absent"
      BY <1>1, <2>1, <2>3, <2>4
    <3>2. Valid(m[2], m[3]) /\ Valid(m[2], m[3])'
      BY <1>1, <3>1, ValidStays DEF ValidInv
    <3>3. delivery'[m].status = "ineligible" => profile[m[2]].revision > m[3]
      BY <2>2, <2>4, <3>1, <3>2 DEF Valid
    <3>4. delivery'[m].status # "absent" /\ profile' = profile
      BY <2>1, <2>2, <3>1
    <3> QED
      BY <3>2, <3>3, <3>4
  <2>5. CASE m # n
    <3>1. delivery'[m] = delivery[m]
      BY <1>1, <2>1, <2>5
    <3> QED
      BY <1>1, <3>1, ValidStays DEF ValidInv
  <2> QED
    BY <2>4, <2>5
<1>5. \/ delivery' = delivery \/ (\E n \in Matches : Deliver(n))
      \/ \E w \in Workers : \E t \in worker[w].todo : Schedule(w, t)
  BY DEF Next, vars, history, Tick, EntitlementChanges, BeginActivation, Observed, Claim, HandlerFails,
         UpdatePreferences, Deactivate, CommitActivation, ReadProfiles, Load, Generate, Complete, ScheduleFails
<1> QED
  BY <1>2, <1>3, <1>4, <1>5

(* What a step makes of the handlers and of what they settle.              *)
LEMMA HandlerSteps ==
  ASSUME TypeInv, [Next]_vars
  PROVE  \/ UNCHANGED <<worker, read, leftOut, unscheduled>>
         \/ \E w \in Workers : \/ \E k \in Keys : Claim(w, k)
                               \/ HandlerFails(w) \/ ReadProfiles(w) \/ Load(w) \/ Generate(w) \/ Complete(w)
                               \/ \E t \in worker[w].todo : Schedule(w, t) \/ ScheduleFails(w, t)
BY DEF Next, vars, history, Tick, EntitlementChanges, BeginActivation, Observed, Deliver,
       UpdatePreferences, Deactivate, CommitActivation

(* A handler that has loaded its inputs was there before, or loads them.   *)
LEMMA LoadedBefore ==
  ASSUME TypeInv, [Next]_vars, NEW v \in Workers, worker'[v].pc \in {"generate", "schedule"}
  PROVE  /\ worker'[v].key = worker[v].key /\ worker[v].pc # "idle"
         /\ \/ worker[v].pc \in {"generate", "schedule"}
            \/ ReadProfiles(v)
            \/ Load(v) /\ worker'[v].profiles = {<<worker[v].key[2], worker[v].key[3]>>}
                       /\ worker'[v].opps \in Listings(job[worker[v].key].created)
         /\ worker'[v].pc = "generate" => worker'[v] = worker[v] \/ ReadProfiles(v) \/ Load(v)
<1>t. worker \in [Workers -> Handler]
  BY DEF TypeInv, TypeOK
<1> DEFINE P == /\ worker'[v].key = worker[v].key /\ worker[v].pc # "idle"
                /\ \/ worker[v].pc \in {"generate", "schedule"}
                   \/ ReadProfiles(v)
                   \/ Load(v) /\ worker'[v].profiles = {<<worker[v].key[2], worker[v].key[3]>>}
                              /\ worker'[v].opps \in Listings(job[worker[v].key].created)
                /\ worker'[v].pc = "generate" => worker'[v] = worker[v] \/ ReadProfiles(v) \/ Load(v)
<1>1. CASE worker'[v] = worker[v]
  BY <1>1
<1>2. ASSUME NEW k \in Keys, Claim(v, k)
      PROVE  P
  <2>1. worker'[v] = [Idle EXCEPT !.pc = "load", !.key = k]
    BY <1>2, <1>t DEF Claim
  <2>2. worker'[v].pc = "load"
    BY <2>1 DEF Idle
  <2> QED
    BY <2>2
<1>3. CASE HandlerFails(v) \/ Complete(v)
  <2>1. worker'[v] = Idle
    BY <1>3, <1>t DEF HandlerFails, Complete, Completes
  <2> QED
    BY <2>1, IdleFacts
<1>4. CASE ReadProfiles(v)
  <2>1. /\ worker'[v] = [worker[v] EXCEPT !.pc = "generate", !.opps = {worker[v].key[2]},
                                          !.profiles = ActiveRevisions]
        /\ worker[v].pc = "load" /\ worker[v] \in Handler
    BY <1>4, <1>t DEF ReadProfiles
  <2>2. worker'[v].key = worker[v].key
    BY <2>1 DEF Handler
  <2> QED
    BY <1>4, <2>1, <2>2
<1>5. CASE Load(v)
  <2>1. CASE worker'[v] = Idle
    BY <2>1, IdleFacts
  <2>2. CASE \E opps \in Listings(job[worker[v].key].created) :
               worker'[v] = [worker[v] EXCEPT !.pc = "generate", !.opps = opps,
                                              !.profiles = {<<worker[v].key[2], worker[v].key[3]>>}]
    <3>1. /\ worker'[v].key = worker[v].key
          /\ worker'[v].profiles = {<<worker[v].key[2], worker[v].key[3]>>}
          /\ worker'[v].opps \in Listings(job[worker[v].key].created)
      BY <1>t, <2>2 DEF Handler
    <3> QED
      BY <1>5, <3>1 DEF Load
  <2> QED
    BY <1>5, <1>t, <2>1, <2>2 DEF Load, Completes
<1>6. CASE Generate(v)
  <2>1. CASE worker'[v] = Idle
    BY <2>1, IdleFacts
  <2>2. worker[v].pc = "generate"
    BY <1>6 DEF Generate
  <2>3. CASE \E todo : worker'[v] = [worker[v] EXCEPT !.pc = "schedule", !.todo = todo]
    BY <1>t, <2>2, <2>3 DEF Handler
  <2> QED
    BY <1>6, <1>t, <2>1, <2>3 DEF Generate, Completes
<1>7. CASE \E t \in worker[v].todo : Schedule(v, t) \/ ScheduleFails(v, t)
  <2>1. /\ worker[v].pc = "schedule"
        /\ \E t \in worker[v].todo : worker'[v] = [worker[v] EXCEPT !.todo = @ \ {t}]
    BY <1>7, <1>t DEF Schedule, ScheduleFails
  <2> QED
    BY <1>t, <2>1 DEF Handler
<1>8. CASE \E w \in Workers \ {v} : \/ \E k \in Keys : Claim(w, k)
                               \/ HandlerFails(w) \/ ReadProfiles(w) \/ Load(w) \/ Generate(w) \/ Complete(w)
                               \/ \E t \in worker[w].todo : Schedule(w, t) \/ ScheduleFails(w, t)
  <2>1. worker'[v] = worker[v]
    <3>1. CASE \E w \in Workers \ {v} : Load(w)
      BY <3>1, <1>t DEF Load, Completes
    <3>2. CASE \E w \in Workers \ {v} : Generate(w) \/ Complete(w) \/ HandlerFails(w)
      BY <3>2, <1>t DEF Generate, Complete, Completes, HandlerFails
    <3> QED
      BY <1>8, <1>t, <3>1, <3>2 DEF Claim, ReadProfiles, Schedule, ScheduleFails
  <2> QED
    BY <1>1, <2>1
<1> QED
  BY <1>1, <1>2, <1>3, <1>4, <1>5, <1>6, <1>7, <1>8, HandlerSteps

LEMMA NextValidInv ==
  ASSUME TypeInv, ValidInv, [Next]_vars
  PROVE  ValidInv'
<1>1. ASSUME NEW w \in Workers, worker'[w].pc = "generate", worker'[w].key[1] = "rematch"
      PROVE  worker'[w].profiles = {<<worker'[w].key[2], worker'[w].key[3]>>}
  <2>1. CASE worker'[w] = worker[w]
    BY <1>1, <2>1 DEF ValidInv
  <2>2. CASE ReadProfiles(w)
    BY <1>1, <2>2, LoadedBefore DEF ReadProfiles
  <2>3. CASE Load(w)
    BY <1>1, <2>3, LoadedBefore DEF Load, ReadProfiles
  <2> QED
    BY <1>1, <2>1, <2>2, <2>3, LoadedBefore
<1> QED
  BY <1>1, RematchOfValid, ReadIsValid, DeliveryIsValid DEF ValidInv

LEMMA SettledStays ==
  ASSUME TypeInv, ValidInv, [Next]_vars, NEW m \in Matches, Settled(m)
  PROVE  Settled(m)'
<1>1. unscheduled \subseteq unscheduled'
  BY HandlerSteps DEF Claim, HandlerFails, ReadProfiles, Load, Generate, Complete, Schedule, ScheduleFails, history
<1> QED
  BY <1>1, DeliveryIsValid DEF Settled

(* A job completes at the end of its handler.                              *)
LEMMA DoneBefore ==
  ASSUME TypeInv, [Next]_vars, NEW k \in Keys, job'[k].state = "completed", job[k].state # "completed"
  PROVE  \E w \in Workers : /\ worker[w].key = k /\ worker[w].pc # "idle" /\ Completes(w)
                            /\ Load(w) \/ Generate(w) \/ Complete(w)
<1>t. job \in [Keys -> JobRow]
  BY DEF TypeInv, TypeOK
<1>1. ASSUME NEW w \in Workers, worker[w].pc # "idle", NEW s \in {"completed", "queued"},
             job' = [job EXCEPT ![worker[w].key].state = s]
      PROVE  worker[w].key = k /\ s = "completed"
  <2>1. worker[w].key \in Keys
    BY <1>1, HandlerFacts
  <2>2. k # worker[w].key => job'[k] = job[k]
    BY <1>1, <1>t, <2>1
  <2>3. k = worker[w].key => job'[k] = [job[k] EXCEPT !.state = s]
    BY <1>1, <1>t, <2>1
  <2>4. [job[k] EXCEPT !.state = s].state = s
    BY <1>t DEF JobRow
  <2> QED
    BY <2>2, <2>3, <2>4
<1>2. ASSUME NEW w \in Workers, NEW j \in Keys, Claim(w, j)
      PROVE  FALSE
  <2>1. job' = [job EXCEPT ![j] = [job[j] EXCEPT !.state = "running"]]
    BY <1>2, <1>t DEF Claim
  <2>2. [job[j] EXCEPT !.state = "running"].state = "running"
    BY <1>t DEF JobRow
  <2>3. job'[k] = IF k = j THEN [job[j] EXCEPT !.state = "running"] ELSE job[k]
    BY <1>t, <2>1
  <2> QED
    BY <2>2, <2>3
<1>3. ASSUME NEW o \in Opportunities, NEW at \in 1..MaxTime, Observed(o, at)
      PROVE  FALSE
  <2>1. job'[k] # job[k] => job'[k].state = "queued"
    BY <1>3, KeyFacts, EnqueuedFacts, ObservedFacts
  <2> QED
    BY <2>1
<1>4. ASSUME NEW u \in Users, CommitActivation(u)
      PROVE  FALSE
  <2>1. PICK p \in Profiles : p = activation[u].of /\ Activated(p) \in ProfileRow
    BY <1>4, CommitFacts
  <2>2. ActivationKey(p) \in Keys /\ activation[u].at \in 0..MaxTime
    BY <2>1, KeyFacts DEF ActivationKey, TypeInv, TypeOK, Activation, ProfileRow
  <2>3. job'[k] # job[k] => job'[k].state = "queued"
    BY <1>4, <2>1, <2>2, EnqueuedFacts DEF CommitActivation
  <2> QED
    BY <2>3
<1>5. ASSUME NEW w \in Workers, HandlerFails(w)
      PROVE  FALSE
  BY <1>1, <1>5 DEF HandlerFails
<1>6. ASSUME NEW w \in Workers, Load(w) \/ Generate(w) \/ Complete(w)
      PROVE  worker[w].key = k /\ worker[w].pc # "idle" /\ Completes(w)
  <2>1. Completes(w) /\ worker[w].pc # "idle"
    BY <1>6 DEF Load, Generate, Complete
  <2> QED
    BY <1>1, <2>1 DEF Completes
<1>7. UNCHANGED vars \/ Tick \/ (\E u \in Users : EntitlementChanges(u)) \/ (\E m \in Matches : Deliver(m))
      \/ (\E p \in Profiles : UpdatePreferences(p) \/ Deactivate(p) \/ BeginActivation(p))
      \/ (\E w \in Workers : ReadProfiles(w) \/ \E t \in worker[w].todo : Schedule(w, t) \/ ScheduleFails(w, t))
      => UNCHANGED job
  BY DEF vars, Tick, EntitlementChanges, Deliver, UpdatePreferences, Deactivate, BeginActivation, ReadProfiles,
         Schedule, ScheduleFails
<1> QED
  BY <1>2, <1>3, <1>4, <1>5, <1>6, <1>7 DEF Next

(* While a revision is current, whoever reads the profiles reads it.       *)
LEMMA UnreadBefore ==
  ASSUME TypeInv, [Next]_vars, NEW o \in Opportunities, NEW p \in Profiles, NEW r \in Revisions,
         Current(p, r), Unread(o, p, r)'
  PROVE  Unread(o, p, r)
<1>0. MatchKey(o) \in Keys /\ MatchKey(o)[1] = "match" /\ MatchKey(o)[2] = o
  BY KeyFacts
<1>1. ASSUME NEW w \in Workers, ReadProfiles(w), worker[w].key = MatchKey(o)
      PROVE  FALSE
  <2>1. read' = [read EXCEPT ![o] = @ \cup ActiveRevisions]
    BY <1>0, <1>1 DEF ReadProfiles
  <2>2. <<p, r>> \in ActiveRevisions
    BY RevisionFacts DEF Current
  <2> QED
    BY <2>1, <2>2 DEF Unread, TypeInv, TypeOK
<1>2. <<p, r>> \notin read[o]
  <2>1. read[o] \subseteq read'[o]
    <3>1. CASE read' = read
      BY <3>1
    <3>2. ASSUME NEW w \in Workers, ReadProfiles(w)
          PROVE  read[o] \subseteq read'[o]
      BY <3>2 DEF ReadProfiles, TypeInv, TypeOK
    <3> QED
      BY <3>1, <3>2, HandlerSteps DEF Claim, HandlerFails, Load, Generate, Complete, Schedule, ScheduleFails, history
  <2> QED
    BY <2>1 DEF Unread
<1>3. CASE job'[MatchKey(o)].state = "completed"
  <2>1. CASE job[MatchKey(o)].state = "completed"
    BY <1>2, <2>1 DEF Unread
  <2>2. ASSUME NEW w \in Workers, worker[w].key = MatchKey(o), Load(w) \/ Generate(w) \/ Complete(w)
        PROVE  Unread(o, p, r)
    <3>1. worker[w].pc \in {"generate", "schedule"}
      BY <1>0, <2>2 DEF Load, Generate, Complete
    <3> QED
      BY <1>2, <2>2, <3>1 DEF Unread
  <2> QED
    BY <1>0, <1>3, <2>1, <2>2, DoneBefore
<1>4. ASSUME NEW v \in Workers, worker'[v].key = MatchKey(o), worker'[v].pc \in {"generate", "schedule"}
      PROVE  Unread(o, p, r)
  <2>1. worker[v].key = MatchKey(o)
    BY <1>4, LoadedBefore
  <2>2. ~ReadProfiles(v) /\ ~Load(v)
    BY <1>0, <1>1, <2>1 DEF Load
  <2>3. worker[v].pc \in {"generate", "schedule"}
    BY <1>4, <2>2, LoadedBefore
  <2> QED
    BY <1>2, <2>1, <2>3 DEF Unread
<1> QED
  BY <1>3, <1>4 DEF Unread

(* A handler at work on a match that is current does not forget it.        *)
LEMMA CoversStays ==
  ASSUME TypeInv, ValidInv, [Next]_vars, NEW o \in Opportunities, NEW p \in Profiles, NEW r \in Revisions,
         Current(p, r), NEW v \in Workers, Covers(v, o, p, r),
         ~ReadProfiles(v), ~Load(v), worker'[v].pc \in {"generate", "schedule"}
  PROVE  Covers(v, o, p, r)'
<1> DEFINE m == <<o, p, r>>
<1>t. worker \in [Workers -> Handler] /\ m \in Matches
  BY DEF TypeInv, TypeOK, Matches
<1>s. Settled(m) => Settled(m)'
  BY <1>t, SettledStays
<1>1. worker[v].pc \in {"generate", "schedule"} /\ (worker'[v].pc = "generate" => worker'[v] = worker[v])
  BY LoadedBefore
<1>2. CASE worker'[v] = worker[v]
  BY <1>2, <1>s DEF Covers
<1>3. SUFFICES ASSUME worker'[v] # worker[v], worker'[v].pc = "schedule", <<o, p>> \in Relevant
               PROVE  Settled(m)' \/ \E t \in worker'[v].todo : t.match = m
  BY <1>1, <1>2 DEF Covers
<1>4. CASE Generate(v)
  <2> DEFINE y == <<o, <<p, r>>>>
             expired == {z \in Fitting(v) : Expired(z[1], worker[v].key)}
             traces == {TraceOf(z) : z \in Fitting(v) \ expired}
  <2>1. worker[v].pc = "generate" /\ (worker'[v] = Idle \/ worker'[v].todo = traces)
    BY <1>4, <1>t DEF Generate, Completes, Handler
  <2>2. worker'[v].todo = traces /\ worker'[v] # Idle
    BY <1>3, <2>1, IdleFacts
  <2>3. y \in Fitting(v) /\ MatchOf(y) = m
    BY <1>3, <2>1 DEF Covers, Fitting, MatchOf
  <2>4. CASE y \in expired
    <3>1. unscheduled' = unscheduled \cup {MatchOf(z) : z \in expired}
      BY <1>4, <1>t, <2>2 DEF Generate, Completes
    <3> QED
      BY <2>3, <2>4, <3>1 DEF Settled
  <2>5. CASE y \notin expired
    <3>1. TraceOf(y) \in traces /\ TraceOf(y).match = m
      BY <2>3, <2>5 DEF TraceOf
    <3> QED
      BY <2>2, <3>1
  <2> QED
    BY <2>4, <2>5
<1>5. ASSUME NEW t \in worker[v].todo, Schedule(v, t) \/ ScheduleFails(v, t)
      PROVE  Settled(m)' \/ \E x \in worker'[v].todo : x.match = m
  <2>1. worker[v].pc = "schedule" /\ worker'[v].todo = worker[v].todo \ {t} /\ t.match \in Matches
    BY <1>5, <1>t, HandlerFacts DEF Schedule, ScheduleFails, Handler
  <2>2. ASSUME t.match = m
        PROVE  Settled(m)'
    <3>1. m[2] = p /\ m[3] = r
      OBVIOUS
    <3>2. CASE Schedule(v, t)
      <4>1. CASE Owner[p] \in entitled
        <5>1. delivery' = Ensured(t)
          BY <2>2, <3>1, <3>2, <4>1 DEF Schedule, Current
        <5>2. delivery'[m].status # "absent"
          BY <1>t, <2>2, <5>1 DEF Ensured, TypeInv, TypeOK
        <5> QED
          BY <5>2 DEF Settled
      <4>2. CASE Owner[p] \notin entitled
        <5>1. m \in unscheduled'
          BY <2>2, <3>1, <3>2, <4>2 DEF Schedule, Current
        <5> QED
          BY <5>1 DEF Settled
      <4> QED
        BY <4>1, <4>2
    <3>3. CASE ScheduleFails(v, t)
      BY <2>2, <3>3 DEF ScheduleFails, Settled
    <3> QED
      BY <1>5, <3>2, <3>3
  <2>3. CASE t.match # m
    <3>1. Settled(m) \/ \E x \in worker[v].todo : x.match = m
      BY <1>3, <2>1 DEF Covers
    <3> QED
      BY <1>s, <2>1, <2>3, <3>1
  <2> QED
    BY <2>2, <2>3
<1>6. \/ Generate(v) \/ \E t \in worker[v].todo : Schedule(v, t) \/ ScheduleFails(v, t)
  <2>1. ASSUME NEW w \in Workers \ {v},
               \/ \E k \in Keys : Claim(w, k)
               \/ HandlerFails(w) \/ ReadProfiles(w) \/ Load(w) \/ Generate(w) \/ Complete(w)
               \/ \E t \in worker[w].todo : Schedule(w, t) \/ ScheduleFails(w, t)
        PROVE  FALSE
    <3>1. \E h : worker' = [worker EXCEPT ![w] = h] \/ worker' = worker
      BY <2>1, <1>t DEF Claim, HandlerFails, ReadProfiles, Load, Generate, Complete, Completes, Schedule, ScheduleFails
    <3> QED
      BY <1>3, <1>t, <3>1
  <2>2. ~HandlerFails(v) /\ ~Complete(v)
    BY <1>3, <1>t, IdleFacts DEF HandlerFails, Complete, Completes
  <2>3. ~\E k \in Keys : Claim(v, k)
    BY <1>1 DEF Claim
  <2> QED
    BY <1>3, <2>1, <2>2, <2>3, HandlerSteps
<1> QED
  BY <1>4, <1>5, <1>6

LEMMA OwedStays ==
  ASSUME TypeInv, ValidInv, [Next]_vars, NEW o \in Opportunities, NEW p \in Profiles, NEW r \in Revisions,
         Current(p, r), NEW k \in Keys, k = MatchKey(o) \/ k = RematchKey(p, r), Owed(k, o, p, r),
         \A w \in Workers : worker[w].key = k => ~ReadProfiles(w) /\ ~Load(w)
  PROVE  Owed(k, o, p, r)'
<1>t. <<o, p, r>> \in Matches
  BY DEF Matches
<1>1. ASSUME NEW v \in Workers, worker'[v].key = k
      PROVE  Covers(v, o, p, r)'
  <2>1. CASE worker'[v].pc \in {"generate", "schedule"}
    <3>1. worker[v].key = k
      BY <1>1, <2>1, LoadedBefore
    <3> QED
      BY <2>1, <3>1, CoversStays DEF Owed
  <2>2. CASE worker'[v].pc \notin {"generate", "schedule"}
    BY <2>2 DEF Covers
  <2> QED
    BY <2>1, <2>2
<1>2. ASSUME job'[k].state = "completed", <<o, p>> \in Relevant
      PROVE  Settled(<<o, p, r>>)'
  <2>1. CASE job[k].state = "completed"
    BY <1>t, <1>2, <2>1, SettledStays DEF Owed
  <2>2. ASSUME NEW w \in Workers, worker[w].key = k, Complete(w)
        PROVE  Settled(<<o, p, r>>)'
    <3>1. Covers(w, o, p, r) /\ worker[w].pc = "schedule" /\ worker[w].todo = {}
      BY <2>2 DEF Owed, Complete
    <3>2. Settled(<<o, p, r>>)
      BY <1>2, <3>1 DEF Covers
    <3> QED
      BY <1>t, <3>2, SettledStays
  <2>3. ASSUME NEW w \in Workers, worker[w].key = k, Generate(w), Completes(w)
        PROVE  FALSE
    <3>1. worker[w].pc = "generate" /\ worker' = [worker EXCEPT ![w] = Idle]
      BY <2>3 DEF Generate, Completes
    <3>2. worker'[w].pc = "idle"
      BY <3>1, IdleFacts DEF TypeInv, TypeOK
    <3>3. k[1] = "rematch" /\ ~worker[w].profiles \subseteq ActiveRevisions
      <4>1. ~\E todo : worker' = [worker EXCEPT ![w].pc = "schedule", ![w].todo = todo]
        BY <3>2 DEF TypeInv, TypeOK, Handler
      <4> QED
        BY <2>3, <4>1 DEF Generate
    <3>4. worker[w].profiles = {<<p, r>>}
      BY <2>3, <3>1, <3>3, KeyFacts DEF ValidInv
    <3>5. <<p, r>> \in ActiveRevisions
      BY RevisionFacts DEF Current
    <3> QED
      BY <3>3, <3>4, <3>5
  <2> QED
    BY <1>2, <2>1, <2>2, <2>3, DoneBefore
<1> QED
  BY <1>1, <1>2 DEF Owed

(* The reading of the profiles, and the listing of the opportunities, make *)
(* their handler cover what it owes.                                       *)
LEMMA ReadOwes ==
  ASSUME TypeInv, [Next]_vars, NEW o \in Opportunities, NEW p \in Profiles, NEW r \in Revisions,
         Current(p, r), NEW w \in Workers, worker[w].key = MatchKey(o), ReadProfiles(w)
  PROVE  Owed(MatchKey(o), o, p, r)'
<1>1. /\ worker[w].pc = "load" /\ UNCHANGED job /\ worker[w].key[2] = o
      /\ MatchKey(o) \in Keys
  BY KeyFacts DEF ReadProfiles
<1>2. /\ job'[MatchKey(o)].state = "running"
      /\ \A v \in Workers : v # w /\ worker[v].pc # "idle" => worker[v].key # MatchKey(o)
  BY <1>1 DEF TypeInv, JobsAreHeld
<1>3. <<p, r>> \in ActiveRevisions
  BY RevisionFacts DEF Current
<1>4. worker'[w].pc = "generate" /\ worker'[w].opps = {o} /\ worker'[w].profiles = ActiveRevisions
  BY <1>1 DEF ReadProfiles, TypeInv, TypeOK, Handler
<1>5. Covers(w, o, p, r)'
  BY <1>3, <1>4 DEF Covers
<1>6. ASSUME NEW v \in Workers, v # w, worker'[v].key = MatchKey(o)
      PROVE  Covers(v, o, p, r)'
  <2>1. worker'[v] = worker[v]
    BY <1>6 DEF ReadProfiles, TypeInv, TypeOK
  <2>2. worker'[v].pc = "idle"
    BY <1>2, <1>6, <2>1
  <2> QED
    BY <2>2 DEF Covers
<1> QED
  BY <1>2, <1>5, <1>6 DEF Owed

LEMMA ListOwes ==
  ASSUME TypeInv, [Next]_vars, NEW o \in Opportunities, NEW p \in Profiles, NEW r \in Revisions,
         Current(p, r), NEW w \in Workers, worker[w].key = RematchKey(p, r), Load(w),
         Unread(o, p, r), <<o, p, r>> \notin leftOut'
  PROVE  Owed(RematchKey(p, r), o, p, r)'
<1> DEFINE k == RematchKey(p, r)
           at == job[k].created
<1>1. k \in Keys /\ k[2] = p /\ k[3] = r /\ worker[w].pc = "load"
  <2>1. worker[w].pc = "load"
    BY DEF Load
  <2> QED
    BY <2>1, KeyFacts
<1>2. <<p, r>> \in ActiveRevisions
  BY RevisionFacts DEF Current
<1>3. seen[o] \in 1..MaxTime /\ at \in 0..MaxTime /\ MaxTime \in Nat
  <2>1. job[MatchKey(o)].state # "absent"
    BY DEF Unread, TypeInv, JobsAreHeld
  <2> QED
    BY <1>1, <2>1, Constants DEF TypeInv, TypeOK, Unobserved, JobRow
<1>4. PICK opps \in Listings(at) :
         /\ \/ opps = {}
            \/ /\ worker' = [worker EXCEPT ![w].pc = "generate", ![w].opps = opps, ![w].profiles = {<<p, r>>}]
               /\ UNCHANGED job
         /\ \A x \in LeavesOut(opps, at) : <<x, p, r>> \in leftOut'
  <2> DEFINE j == worker[w].key
  <2>1. j = k /\ j[2] = p /\ j[3] = r
    BY <1>1
  <2>2. ~(<<j[2], j[3]>> \notin ActiveRevisions)
    BY <1>2, <2>1
  <2>3. \E opps \in Listings(job[j].created) :
           /\ IF opps = {} THEN Completes(w) ELSE
              /\ worker' = [worker EXCEPT ![w].pc = "generate", ![w].opps = opps, ![w].profiles = {<<j[2], j[3]>>}]
              /\ UNCHANGED job
           /\ leftOut' = leftOut \cup {<<x, j[2], j[3]>> : x \in LeavesOut(opps, job[j].created)}
    BY <2>2 DEF Load
  <2>4. PICK opps \in Listings(job[j].created) :
           /\ \/ opps = {}
              \/ /\ worker' = [worker EXCEPT ![w].pc = "generate", ![w].opps = opps, ![w].profiles = {<<j[2], j[3]>>}]
                 /\ UNCHANGED job
           /\ \A x \in LeavesOut(opps, job[j].created) : <<x, j[2], j[3]>> \in leftOut'
    BY <2>3
  <2> HIDE DEF j, k
  <2> QED
    BY <2>1, <2>4
<1>5. o \in opps
  <2>1. ~(o \in Opportunities \ opps /\ (TooLate(o, at) \/ TooOld(o, at) \/ Crowded(o, at)))
    BY <1>4 DEF LeavesOut
  <2>2. seen[o] # 0 /\ at \in Nat
    BY <1>3
  <2> QED
    BY <2>1, <2>2, ListingFacts
<1>6. /\ worker'[w].pc = "generate" /\ worker'[w].opps = opps /\ worker'[w].profiles = {<<p, r>>}
      /\ \A v \in Workers : v # w => worker'[v] = worker[v]
  BY <1>4, <1>5 DEF TypeInv, TypeOK, Handler
<1>7. Covers(w, o, p, r)'
  BY <1>5, <1>6 DEF Covers
<1>8. /\ job'[k].state = "running"
      /\ \A v \in Workers : v # w /\ worker[v].pc # "idle" => worker[v].key # k
  BY <1>1, <1>4, <1>5 DEF TypeInv, JobsAreHeld
<1>9. ASSUME NEW v \in Workers, v # w, worker'[v].key = k
      PROVE  Covers(v, o, p, r)'
  <2>1. worker'[v].pc = "idle"
    BY <1>6, <1>8, <1>9
  <2> QED
    BY <2>1 DEF Covers
<1> QED
  BY <1>7, <1>8, <1>9 DEF Owed

(* A revision that becomes current owes nothing yet: nobody has read it,   *)
(* and its rematch, if it has one, is queued.                              *)
LEMMA NewRevision ==
  ASSUME TypeInv, ValidInv, [Next]_vars, NEW o \in Opportunities, NEW p \in Profiles, NEW r \in Revisions,
         ~Current(p, r), Current(p, r)'
  PROVE  Good(o, p, r)'
<1>1. ~Valid(p, r)
  BY ValidStays
<1>2. UNCHANGED <<read, worker>> /\ RematchKey(p, r) \in Keys /\ MatchKey(o) \in Keys
  <2>1. ~UNCHANGED <<profile, changed>>
    BY DEF Current, Active
  <2> QED
    BY <2>1, KeyFacts, ProfileWriters DEF UpdatePreferences, Deactivate, CommitActivation, history
<1>3. <<p, r>> \notin read'[o] /\ job[RematchKey(p, r)].state = "absent"
  BY <1>1, <1>2 DEF ValidInv
<1>4. \A w \in Workers : worker'[w].key = RematchKey(p, r) => worker'[w].pc = "idle"
  BY <1>2, <1>3 DEF TypeInv, JobsAreHeld
<1>5. job'[RematchKey(p, r)].state # "completed"
  <2>1. ~\E w \in Workers : worker[w].key = RematchKey(p, r) /\ worker[w].pc # "idle"
    BY <1>2, <1>4
  <2> QED
    BY <1>2, <1>3, <2>1, DoneBefore
<1>6. Owed(RematchKey(p, r), o, p, r)'
  BY <1>4, <1>5 DEF Owed, Covers
<1> QED
  BY <1>3, <1>6 DEF Good

LEMMA NextGood ==
  ASSUME TypeInv, ValidInv, GoodInv, [Next]_vars
  PROVE  GoodInv'
<1>1. SUFFICES ASSUME NEW o \in Opportunities, NEW p \in Profiles, NEW r \in Revisions, Current(p, r)
               PROVE  /\ <<p, r>> \in read'[o] => Owed(MatchKey(o), o, p, r)'
                      /\ Unread(o, p, r)' /\ <<o, p, r>> \notin leftOut' => Owed(RematchKey(p, r), o, p, r)'
  BY NewRevision DEF GoodInv, Good
<1>2. /\ MatchKey(o) \in Keys /\ RematchKey(p, r) \in Keys
      /\ MatchKey(o)[1] = "match" /\ RematchKey(p, r)[1] = "rematch" /\ MatchKey(o)[2] = o
  BY KeyFacts
<1>3. ASSUME <<p, r>> \in read'[o]
      PROVE  Owed(MatchKey(o), o, p, r)'
  <2>1. CASE \E w \in Workers : worker[w].key = MatchKey(o) /\ ReadProfiles(w)
    BY <1>1, <2>1, ReadOwes
  <2>2. CASE \A w \in Workers : worker[w].key = MatchKey(o) => ~ReadProfiles(w)
    <3>1. read'[o] = read[o]
      <4>1. ASSUME NEW w \in Workers, ReadProfiles(w)
            PROVE  read'[o] = read[o]
        <5>1. worker[w].pc = "load" /\ worker[w].key[1] = "match" /\ worker[w].key # MatchKey(o)
          BY <2>2, <4>1 DEF ReadProfiles
        <5>2. worker[w].key \in Keys
          BY <5>1, HandlerFacts
        <5>3. worker[w].key[2] # o
          BY <5>1, <5>2, KeyFacts
        <5> QED
          BY <4>1, <5>3 DEF ReadProfiles, TypeInv, TypeOK
      <4>2. read' = read \/ \E w \in Workers : ReadProfiles(w)
        BY HandlerSteps DEF Claim, HandlerFails, Load, Generate, Complete, Schedule, ScheduleFails, history
      <4> QED
        BY <4>1, <4>2
    <3>2. Owed(MatchKey(o), o, p, r)
      BY <1>1, <1>3, <3>1 DEF GoodInv, Good
    <3>3. \A w \in Workers : worker[w].key = MatchKey(o) => ~Load(w)
      BY <1>2 DEF Load
    <3> QED
      BY <1>1, <1>2, <2>2, <3>2, <3>3, OwedStays
  <2> QED
    BY <2>1, <2>2
<1>4. ASSUME Unread(o, p, r)', <<o, p, r>> \notin leftOut'
      PROVE  Owed(RematchKey(p, r), o, p, r)'
  <2>1. Unread(o, p, r)
    BY <1>1, <1>4, UnreadBefore
  <2>2. <<o, p, r>> \notin leftOut
    <3>1. leftOut \subseteq leftOut'
      BY HandlerSteps DEF Claim, HandlerFails, ReadProfiles, Load, Generate, Complete, Schedule, ScheduleFails, history
    <3> QED
      BY <1>4, <3>1
  <2>3. CASE \E w \in Workers : worker[w].key = RematchKey(p, r) /\ Load(w)
    BY <1>1, <1>4, <2>1, <2>3, ListOwes
  <2>4. CASE \A w \in Workers : worker[w].key = RematchKey(p, r) => ~Load(w)
    <3>1. Owed(RematchKey(p, r), o, p, r)
      BY <1>1, <2>1, <2>2 DEF GoodInv, Good
    <3>2. \A w \in Workers : worker[w].key = RematchKey(p, r) => ~ReadProfiles(w)
      BY <1>2 DEF ReadProfiles
    <3> QED
      BY <1>1, <1>2, <2>4, <3>1, <3>2, OwedStays
  <2> QED
    BY <2>3, <2>4
<1> QED
  BY <1>3, <1>4

LEMMA InitGood == Init => ValidInv /\ GoodInv
<1> SUFFICES ASSUME Init PROVE ValidInv /\ GoodInv
  OBVIOUS
<1>1. \A p \in Profiles, r \in Revisions : job[RematchKey(p, r)].state = "absent"
  BY KeyFacts DEF Init
<1>2. \A w \in Workers : worker[w].pc = "idle"
  BY IdleFacts DEF Init
<1>3. ValidInv
  BY <1>1, <1>2, KeyFacts DEF Init, ValidInv
<1>4. GoodInv
  BY DEF Init, GoodInv, Good, Current, Active
<1> QED
  BY <1>3, <1>4

LEMMA GoodIsEnough ==
  ASSUME TypeInv, ValidInv, GoodInv
  PROVE  NobodyIsLeftOut
<1> SUFFICES ASSUME NEW m \in Matches, Active(m[2]), profile[m[2]].revision = m[3], <<m[1], m[2]>> \in Relevant,
                    job[MatchKey(m[1])].state = "completed",
                    job[RematchKey(m[2], m[3])].state = "completed"
             PROVE  \/ delivery[m].status \in {"pending", "sent", "stale", "unentitled"}
                    \/ m \in unscheduled
                    \/ m \in leftOut /\ <<m[2], m[3]>> \notin read[m[1]]
  BY DEF NobodyIsLeftOut
<1>1. /\ m[1] \in Opportunities /\ m[2] \in Profiles /\ m[3] \in Revisions /\ m = <<m[1], m[2], m[3]>>
      /\ delivery[m] \in DeliveryRow /\ profile[m[2]].revision \in Nat
  <2>1. m[1] \in Opportunities /\ m[2] \in Profiles /\ m[3] \in Revisions /\ m = <<m[1], m[2], m[3]>>
    BY DEF Matches
  <2>2. delivery[m] \in DeliveryRow
    BY DEF TypeInv, TypeOK
  <2> QED
    BY <2>1, <2>2, RevisionFacts, RevisionRange
<1>2. delivery[m].status # "ineligible"
  BY <1>1 DEF ValidInv
<1>3. Good(m[1], m[2], m[3]) /\ Current(m[2], m[3])
  BY <1>1 DEF GoodInv, Current
<1>4. Settled(m) => delivery[m].status \in {"pending", "sent", "stale", "unentitled"} \/ m \in unscheduled
  BY <1>1, <1>2 DEF Settled, DeliveryRow
<1>5. CASE <<m[2], m[3]>> \in read[m[1]]
  BY <1>1, <1>3, <1>4, <1>5 DEF Good, Owed
<1>6. CASE <<m[2], m[3]>> \notin read[m[1]]
  <2>1. Unread(m[1], m[2], m[3])
    BY <1>6 DEF Unread
  <2> QED
    BY <1>1, <1>3, <1>4, <1>6, <2>1 DEF Good, Owed
<1> QED
  BY <1>5, <1>6

(* The matching of an opportunity and the rematch of a profile, which run  *)
(* in any order, several times and at once, leave no pair out that fits:   *)
(* either the matching read the revision, or the rematch, which comes      *)
(* later, lists the opportunity, except for the ends NobodyIsLeftOut names.*)
THEOREM NobodyIsEverLeftOut == Spec => []NobodyIsLeftOut
<1>1. Init => TypeInv /\ ValidInv /\ GoodInv
  BY InitTypeInv, InitGood
<1>2. TypeInv /\ ValidInv /\ GoodInv /\ [Next]_vars => TypeInv' /\ ValidInv' /\ GoodInv'
  BY NextTypeInv, NextValidInv, NextGood
<1>3. TypeInv /\ ValidInv /\ GoodInv => NobodyIsLeftOut
  BY GoodIsEnough
<1> QED
  BY <1>1, <1>2, <1>3, PTL DEF Spec

-----------------------------------------------------------------------------
(* AnalysisSpend: the limits of paid calls                                 *)

LEMMA SpendConstants ==
  /\ DailyLimit \in Nat /\ MonthlyLimit \in Nat /\ MaxDay \in Nat
  /\ DaysPerMonth \in Nat \ {0}
  /\ Nobody \notin Analyses /\ MaxOutputAttempts \in 1..5
  /\ \A r \in Routes : Reserve[r] \in Nat /\ Costs[r] \subseteq Nat
<1>1. {DailyLimit, MonthlyLimit, MaxDay} \subseteq Nat
  BY SpendAssumption
<1>2. DailyLimit \in Nat /\ MonthlyLimit \in Nat /\ MaxDay \in Nat
  BY <1>1
<1>3. \A r \in Routes : Reserve[r] \in Nat /\ Costs[r] \subseteq Nat
  BY SpendAssumption
<1> QED
  BY <1>2, <1>3, SpendAssumption

-----------------------------------------------------------------------------
(* Sums                                                                    *)

LEMMA Interval ==
  ASSUME NEW n \in Nat
  PROVE  IsFiniteSet(1..n) /\ Cardinality(1..n) = n
<1>1. /\ IsFiniteSet(1..n)
      /\ Cardinality(1..n) = IF 1 > n THEN 0 ELSE n - 1 + 1
  <2>1. 1 \in Int /\ n \in Int
    OBVIOUS
  <2> QED
    BY ONLY <2>1, FS_Interval, Zenon
<1> QED
  BY <1>1

LEMMA CallsAreFinite == IsFiniteSet(Calls)
<1>1. IsFiniteSet(Attempts)
  BY SpendConstants, Interval DEF Attempts
<1>2. /\ IsFiniteSet({"primary"}) /\ IsFiniteSet({"fallback"})
      /\ Routes = {"primary"} \cup {"fallback"}
  BY FS_Singleton DEF Routes
<1>3. IsFiniteSet(Routes)
  BY <1>2, FS_Union
<1>4. IsFiniteSet(Routes \X Attempts)
  BY <1>1, <1>3, FS_Product
<1>5. IsFiniteSet(Analyses \X (Routes \X Attempts))
  BY <1>4, SpendAssumption, FS_Product
<1> DEFINE f == [t \in Analyses \X (Routes \X Attempts) |-> <<t[1], t[2][1], t[2][2]>>]
<1>6. f \in Surjection(Analyses \X (Routes \X Attempts), Calls)
  <2>1. ASSUME NEW t \in Analyses \X (Routes \X Attempts) PROVE f[t] \in Calls
    BY DEF Calls
  <2>2. ASSUME NEW c \in Calls PROVE \E t \in Analyses \X (Routes \X Attempts) : f[t] = c
    <3>1. /\ <<c[1], <<c[2], c[3]>>>> \in Analyses \X (Routes \X Attempts)
          /\ c = <<c[1], c[2], c[3]>>
      BY DEF Calls
    <3>2. f[<<c[1], <<c[2], c[3]>>>>] = c
      BY <3>1
    <3> QED
      BY <3>1, <3>2
  <2> HIDE DEF f
  <2>3. f \in [Analyses \X (Routes \X Attempts) -> Calls]
    BY <2>1 DEF f
  <2> QED
    BY <2>2, <2>3 DEF Surjection
<1> QED
  BY <1>5, <1>6, FS_Surjection

Amounts == [Calls -> Nat]
Units(calls, cost) == UNION {{c} \X (1..cost[c]) : c \in calls}

LEMMA UnitsAreFinite ==
  ASSUME NEW calls \in SUBSET Calls, NEW cost \in Amounts
  PROVE  /\ IsFiniteSet(Units(calls, cost))
         /\ Total(calls, cost) = Cardinality(Units(calls, cost))
         /\ Total(calls, cost) \in Nat
<1>1. IsFiniteSet(calls)
  BY CallsAreFinite, FS_Subset
<1>2. ASSUME NEW c \in calls PROVE IsFiniteSet({c} \X (1..cost[c]))
  <2>1. cost[c] \in Nat
    BY DEF Amounts
  <2>2. IsFiniteSet(1..cost[c]) /\ IsFiniteSet({c})
    BY <2>1, Interval, FS_Singleton
  <2> QED
    BY <2>2, FS_Product
<1> DEFINE f == [c \in calls |-> {c} \X (1..cost[c])]
           S == {{c} \X (1..cost[c]) : c \in calls}
<1>3. f \in Surjection(calls, S)
  BY DEF Surjection
<1>4. IsFiniteSet(S)
  BY <1>1, <1>3, FS_Surjection
<1>5. IsFiniteSet(UNION S)
  BY <1>2, <1>4, FS_UNION
<1> QED
  BY <1>5, FS_CardinalityType DEF Units, Total

(* Fewer calls that took no more have taken no more together. *)
LEMMA TotalIsMonotonic ==
  ASSUME NEW A \in SUBSET Calls, NEW B \in SUBSET Calls,
         NEW f \in Amounts, NEW g \in Amounts,
         A \subseteq B, \A c \in A : f[c] <= g[c]
  PROVE  Total(A, f) <= Total(B, g)
<1>1. Units(A, f) \subseteq Units(B, g)
  <2>1. ASSUME NEW c \in A PROVE {c} \X (1..f[c]) \subseteq {c} \X (1..g[c])
    BY DEF Amounts
  <2> QED
    BY <2>1 DEF Units
<1> QED
  BY <1>1, UnitsAreFinite, FS_Subset

(* One more call adds no more than it took. *)
LEMMA TotalOfOneMore ==
  ASSUME NEW A \in SUBSET Calls, NEW B \in SUBSET Calls, NEW x \in Calls,
         NEW f \in Amounts, NEW g \in Amounts, NEW n \in Nat,
         A \subseteq B \cup {x}, g[x] <= n, \A c \in A \ {x} : g[c] <= f[c]
  PROVE  Total(A, g) <= Total(B, f) + n
<1> DEFINE one == {x} \X (1..n)
<1>1. Units(A, g) \subseteq Units(B, f) \cup one
  <2>1. ASSUME NEW c \in A, c # x PROVE {c} \X (1..g[c]) \subseteq Units(B, f)
    <3>1. c \in B /\ g[c] <= f[c] /\ g[c] \in Nat /\ f[c] \in Nat
      BY <2>1 DEF Amounts
    <3>2. {c} \X (1..g[c]) \subseteq {c} \X (1..f[c])
      BY <3>1
    <3> QED
      BY <3>1, <3>2 DEF Units
  <2>2. {x} \X (1..g[x]) \subseteq one
    BY DEF Amounts
  <2> HIDE DEF one
  <2>3. ASSUME NEW c \in A PROVE {c} \X (1..g[c]) \subseteq Units(B, f) \cup one
    BY <2>1, <2>2
  <2> QED
    BY <2>3 DEF Units
<1>2. IsFiniteSet(one) /\ Cardinality(one) = n
  <2>1. /\ IsFiniteSet(1..n) /\ Cardinality(1..n) = n
        /\ IsFiniteSet({x}) /\ Cardinality({x}) = 1
    BY Interval, FS_Singleton
  <2> QED
    BY <2>1, FS_Product
<1> HIDE DEF one
<1>3. /\ IsFiniteSet(Units(A, g)) /\ IsFiniteSet(Units(B, f))
      /\ Total(A, g) = Cardinality(Units(A, g)) /\ Total(B, f) = Cardinality(Units(B, f))
      /\ Total(A, g) \in Nat /\ Total(B, f) \in Nat
  BY UnitsAreFinite
<1>4. /\ IsFiniteSet(Units(B, f) \cup one)
      /\ Cardinality(Units(B, f) \cup one) <= Total(B, f) + n
  <2>1. /\ IsFiniteSet(Units(B, f) \cup one)
        /\ Cardinality(Units(B, f) \cup one)
             = Cardinality(Units(B, f)) + Cardinality(one) - Cardinality(Units(B, f) \cap one)
    BY <1>2, <1>3, FS_Union
  <2>2. Cardinality(Units(B, f) \cap one) \in Nat
    BY <1>3, FS_Intersection, FS_CardinalityType
  <2> QED
    BY <1>2, <1>3, <2>1, <2>2
<1>5. Cardinality(Units(A, g)) <= Cardinality(Units(B, f) \cup one)
  BY <1>1, <1>4, FS_Subset
<1>6. Cardinality(Units(B, f) \cup one) \in Nat
  BY <1>4, FS_CardinalityType
<1> QED
  BY <1>3, <1>4, <1>5, <1>6

LEMMA NothingTotalsZero ==
  ASSUME NEW f
  PROVE  Total({}, f) = 0
BY FS_EmptySet DEF Total

LEMMA MonthsAreNumbers == \A day \in Nat : Month(day) \in Nat
BY SpendConstants DEF Month

-----------------------------------------------------------------------------
(* The inductive invariant                                                 *)

(* A call in flight is on record with its whole reserve. *)
InFlightIsReserved ==
  \A a \in Analyses : At(a, "calling") =>
    /\ row[Call(a)].status = "started"
    /\ row[Call(a)].cost = Reserve[analysis[a].route]

(* An analysis that passed the guard holds the lock, and what it is about to reserve still
   fits, though other calls finish without the lock. *)
RoomIsLeft ==
  \A a \in Analyses : At(a, "granted") =>
    /\ lock = a
    /\ Total(SinceDay(analysis[a].day), Granted) + Reserve[analysis[a].route] <= DailyLimit
    /\ Total(SinceMonth(analysis[a].day), Granted) + Reserve[analysis[a].route] <= MonthlyLimit

CallRow == [status : {"absent", "started"} \cup Finished, cost : Nat, day : Nat]
Analysis == [step : {"ready", "begun", "granted", "calling"} \cup Ended,
             route : Routes, attempt : Attempts, day : Nat]

SpendTypes ==
  /\ today \in Nat
  /\ row \in [Calls -> CallRow]
  /\ analysis \in [Analyses -> Analysis]
  /\ lock \in Analyses \cup {Nobody}

SpendInv == SpendTypes /\ InFlightIsReserved /\ RoomIsLeft /\ LimitsHold

LEMMA GrantedFacts ==
  ASSUME SpendTypes
  PROVE  /\ Granted \in Amounts /\ Cost \in Amounts
         /\ \A c \in Calls : /\ Granted[c] <= Cost[c] /\ Granted[c] <= Reserve[c[2]]
                             /\ Reserve[c[2]] \in Nat /\ row[c] \in CallRow
                             /\ row[c].cost \in Nat /\ row[c].day \in Nat
<1>1. \A c \in Calls : /\ row[c] \in CallRow /\ row[c].cost \in Nat /\ row[c].day \in Nat
                       /\ c[2] \in Routes /\ Reserve[c[2]] \in Nat
  BY SpendConstants DEF SpendTypes, CallRow, Calls
<1>2. \A c \in Calls : Granted[c] = IF row[c].cost < Reserve[c[2]] THEN row[c].cost ELSE Reserve[c[2]]
  BY DEF Granted
<1>3. \A c \in Calls : /\ Granted[c] \in Nat /\ Granted[c] <= row[c].cost
                       /\ Granted[c] <= Reserve[c[2]]
  BY <1>1, <1>2
<1>4. Granted \in Amounts
  BY <1>3 DEF Granted, Amounts
<1>5. Cost \in Amounts /\ \A c \in Calls : Cost[c] = row[c].cost
  BY <1>1 DEF Cost, Amounts
<1> QED
  BY <1>1, <1>3, <1>4, <1>5

LEMMA GrantedLater ==
  ASSUME SpendTypes'
  PROVE  /\ Granted' \in Amounts
         /\ \A c \in Calls : /\ Granted'[c] <= Reserve[c[2]]
                             /\ Granted'[c] = IF row'[c].cost < Reserve[c[2]]
                                              THEN row'[c].cost ELSE Reserve[c[2]]
<1>1. \A c \in Calls : row'[c].cost \in Nat /\ c[2] \in Routes /\ Reserve[c[2]] \in Nat
  BY SpendConstants DEF SpendTypes, CallRow, Calls
<1>2. \A c \in Calls : Granted'[c] = IF row'[c].cost < Reserve[c[2]] THEN row'[c].cost ELSE Reserve[c[2]]
  BY DEF Granted
<1>3. \A c \in Calls : Granted'[c] \in Nat /\ Granted'[c] <= Reserve[c[2]]
  BY <1>1, <1>2
<1>4. Granted' \in Amounts
  BY <1>3 DEF Granted, Amounts
<1> QED
  BY <1>2, <1>3, <1>4

(* When no call is added, none changes its day and none is granted more, nothing that was
   within a limit leaves it. *)
LEMMA NothingIsAdded ==
  ASSUME SpendTypes, SpendTypes',
         \A c \in Calls : /\ row'[c].status # "absent" => row[c].status # "absent"
                          /\ row'[c].day = row[c].day
                          /\ Granted'[c] <= Granted[c]
  PROVE  /\ LimitsHold => LimitsHold'
         /\ \A day \in Nat :
              /\ Total(SinceDay(day)', Granted') <= Total(SinceDay(day), Granted)
              /\ Total(SinceMonth(day)', Granted') <= Total(SinceMonth(day), Granted)
         /\ \A day \in Nat : /\ Total(SinceDay(day)', Granted') \in Nat
                             /\ Total(SinceDay(day), Granted) \in Nat
                             /\ Total(SinceMonth(day)', Granted') \in Nat
                             /\ Total(SinceMonth(day), Granted) \in Nat
<1>a. Granted \in Amounts
  BY GrantedFacts
<1>b. SpendTypes' => Granted' \in Amounts
  BY GrantedLater
<1>1. /\ Granted \in Amounts /\ Granted' \in Amounts
      /\ Recorded' \subseteq Recorded /\ Recorded \subseteq Calls
  BY <1>a, <1>b DEF Recorded
<1>2. ASSUME NEW A \in SUBSET Recorded', NEW B \in SUBSET Recorded, A \subseteq B
      PROVE  Total(A, Granted') <= Total(B, Granted)
  BY <1>1, <1>2, TotalIsMonotonic
<1>3. ASSUME LimitsHold PROVE LimitsHold'
  <2> SUFFICES ASSUME NEW d \in Days
               PROVE  /\ Total({c \in Recorded' : row'[c].day = d}, Granted') <= DailyLimit
                      /\ Total({c \in Recorded' : Month(row'[c].day) = Month(d)}, Granted') <= MonthlyLimit
    BY DEF LimitsHold
  <2> DEFINE A == {c \in Recorded' : row'[c].day = d}
             B == {c \in Recorded : row[c].day = d}
             MA == {c \in Recorded' : Month(row'[c].day) = Month(d)}
             MB == {c \in Recorded : Month(row[c].day) = Month(d)}
  <2>1. A \subseteq B /\ MA \subseteq MB
    BY <1>1
  <2>2. Total(B, Granted) <= DailyLimit /\ Total(MB, Granted) <= MonthlyLimit
    BY <1>3 DEF LimitsHold
  <2>3. /\ A \in SUBSET Recorded' /\ MA \in SUBSET Recorded'
        /\ B \in SUBSET Recorded /\ MB \in SUBSET Recorded
        /\ A \in SUBSET Calls /\ MA \in SUBSET Calls /\ B \in SUBSET Calls /\ MB \in SUBSET Calls
    BY <1>1
  <2> HIDE DEF A, B, MA, MB
  <2>4. /\ Total(A, Granted') \in Nat /\ Total(MA, Granted') \in Nat
        /\ Total(B, Granted) \in Nat /\ Total(MB, Granted) \in Nat
    BY <1>1, <2>3, UnitsAreFinite
  <2>5. Total(A, Granted') <= Total(B, Granted) /\ Total(MA, Granted') <= Total(MB, Granted)
    BY <1>2, <2>1, <2>3
  <2>6. Total(A, Granted') <= DailyLimit /\ Total(MA, Granted') <= MonthlyLimit
    BY <2>2, <2>4, <2>5, SpendConstants
  <2> QED
    BY <2>6 DEF A, MA
<1>4. ASSUME NEW day \in Nat
      PROVE  /\ Total(SinceDay(day)', Granted') <= Total(SinceDay(day), Granted)
             /\ Total(SinceMonth(day)', Granted') <= Total(SinceMonth(day), Granted)
  <2>1. SinceDay(day)' \subseteq SinceDay(day) /\ SinceMonth(day)' \subseteq SinceMonth(day)
    BY <1>1 DEF SinceDay, SinceMonth
  <2>2. /\ SinceDay(day)' \in SUBSET Recorded' /\ SinceMonth(day)' \in SUBSET Recorded'
        /\ SinceDay(day) \in SUBSET Recorded /\ SinceMonth(day) \in SUBSET Recorded
    BY DEF SinceDay, SinceMonth
  <2> QED
    BY <1>2, <2>1, <2>2
<1>5. ASSUME NEW day \in Nat
      PROVE  /\ Total(SinceDay(day)', Granted') \in Nat /\ Total(SinceDay(day), Granted) \in Nat
             /\ Total(SinceMonth(day)', Granted') \in Nat /\ Total(SinceMonth(day), Granted) \in Nat
  <2>1. /\ SinceDay(day)' \in SUBSET Calls /\ SinceMonth(day)' \in SUBSET Calls
        /\ SinceDay(day) \in SUBSET Calls /\ SinceMonth(day) \in SUBSET Calls
    BY <1>1 DEF SinceDay, SinceMonth
  <2> QED
    BY <1>1, <2>1, UnitsAreFinite
<1> QED
  BY <1>3, <1>4, <1>5

-----------------------------------------------------------------------------
(* The steps                                                               *)

LEMMA InitSpend == SpendInit => SpendInv
<1> SUFFICES ASSUME SpendInit PROVE SpendInv
  OBVIOUS
<1>1. SpendTypes
  BY SpendConstants DEF SpendInit, SpendTypes, CallRow, Analysis, Routes, Attempts
<1>2. Recorded = {}
  BY DEF SpendInit, Recorded
<1>3. LimitsHold
  <2> SUFFICES ASSUME NEW d \in Days
               PROVE  /\ Total({c \in Recorded : row[c].day = d}, Granted) <= DailyLimit
                      /\ Total({c \in Recorded : Month(row[c].day) = Month(d)}, Granted) <= MonthlyLimit
    BY DEF LimitsHold
  <2>1. /\ {c \in Recorded : row[c].day = d} = {}
        /\ {c \in Recorded : Month(row[c].day) = Month(d)} = {}
    BY <1>2
  <2>2. Total({}, Granted) <= DailyLimit /\ Total({}, Granted) <= MonthlyLimit
    BY NothingTotalsZero, SpendConstants
  <2> QED
    BY <2>1, <2>2
<1>4. InFlightIsReserved /\ RoomIsLeft
  BY DEF SpendInit, InFlightIsReserved, RoomIsLeft, At
<1> QED
  BY <1>1, <1>3, <1>4 DEF SpendInv

(* What finishing a call changes. *)
LEMMA FinishedCall ==
  ASSUME SpendInv, NEW a \in Analyses, At(a, "calling"),
         NEW status \in Finished, NEW cost \in Nat, Finishes(a, status, cost),
         today' = today, lock' = lock, analysis' \in [Analyses -> Analysis]
  PROVE  /\ SpendTypes' /\ Call(a) \in Calls
         /\ \A c \in Calls \ {Call(a)} : row'[c] = row[c]
         /\ \A c \in Calls : /\ row'[c].status # "absent" => row[c].status # "absent"
                             /\ row'[c].day = row[c].day
                             /\ Granted'[c] <= Granted[c]
<1> DEFINE x == Call(a)
<1>1. x \in Calls /\ x[1] = a /\ x[2] = analysis[a].route
  BY DEF SpendInv, SpendTypes, Analysis, Call, Calls
<1>2. row[x].status = "started" /\ row[x].cost = Reserve[x[2]] /\ row[x] \in CallRow
  BY <1>1 DEF SpendInv, InFlightIsReserved, SpendTypes
<1> HIDE DEF x
<1>3. row' = [row EXCEPT ![x] = [row[x] EXCEPT !.status = status, !.cost = cost]]
  BY DEF Finishes, x
<1>4. row \in [Calls -> CallRow]
  BY DEF SpendInv, SpendTypes
<1>5. /\ row'[x] = [row[x] EXCEPT !.status = status, !.cost = cost]
      /\ \A c \in Calls \ {x} : row'[c] = row[c]
      /\ DOMAIN row' = Calls
  BY <1>1, <1>3, <1>4
<1>6. /\ row'[x] \in CallRow /\ row'[x].status = status /\ row'[x].cost = cost
      /\ row'[x].day = row[x].day
  BY <1>2, <1>5 DEF CallRow
<1>7. row' \in [Calls -> CallRow]
  BY <1>1, <1>3, <1>4, <1>5, <1>6
<1>8. SpendTypes'
  BY <1>7 DEF SpendInv, SpendTypes
<1>9. \A c \in Calls : Granted'[c] <= Granted[c]
  <2>1. /\ \A c \in Calls : /\ Granted[c] \in Nat /\ Granted'[c] \in Nat
                            /\ Granted'[c] <= Reserve[c[2]] /\ Reserve[c[2]] \in Nat
                            /\ Granted'[c] = IF row'[c].cost < Reserve[c[2]]
                                             THEN row'[c].cost ELSE Reserve[c[2]]
    BY <1>8, GrantedFacts, GrantedLater DEF Amounts, SpendInv
  <2>2. \A c \in Calls : Granted[c] = IF row[c].cost < Reserve[c[2]]
                                      THEN row[c].cost ELSE Reserve[c[2]]
    BY DEF Granted
  <2>3. Granted[x] = Reserve[x[2]]
    BY <1>1, <1>2, <2>1, <2>2
  <2>4. ASSUME NEW c \in Calls, c # x PROVE Granted'[c] = Granted[c]
    BY <1>5, <2>1, <2>2, <2>4
  <2> QED
    BY <1>1, <2>1, <2>3, <2>4
<1>10. \A c \in Calls : /\ row'[c].status # "absent" => row[c].status # "absent"
                        /\ row'[c].day = row[c].day
  BY <1>2, <1>5, <1>6
<1> QED
  BY <1>1, <1>5, <1>8, <1>9, <1>10 DEF x

(* An analysis that leaves a state other than "granted", while no other moves and nothing is
   added, keeps the invariant. *)
LEMMA OneMoves ==
  ASSUME SpendInv, SpendTypes', NEW a \in Analyses,
         \A b \in Analyses \ {a} : analysis'[b] = analysis[b],
         analysis'[a].step \notin {"granted", "calling"},
         \A b \in Analyses \ {a} : lock = b => lock' = b,
         \A c \in Calls : c[1] # a => row'[c] = row[c],
         \A c \in Calls : /\ row'[c].status # "absent" => row[c].status # "absent"
                          /\ row'[c].day = row[c].day
                          /\ Granted'[c] <= Granted[c]
  PROVE  SpendInv'
<1>1. LimitsHold'
  BY NothingIsAdded DEF SpendInv
<1>2. InFlightIsReserved'
  <2> SUFFICES ASSUME NEW b \in Analyses, analysis'[b].step = "calling"
               PROVE  row'[Call(b)'].status = "started" /\ row'[Call(b)'].cost = Reserve[analysis'[b].route]
    BY DEF InFlightIsReserved, At
  <2>1. b # a
    OBVIOUS
  <2>2. analysis'[b] = analysis[b] /\ Call(b)' = Call(b) /\ At(b, "calling")
    BY <2>1 DEF Call, At
  <2>3. Call(b) \in Calls /\ Call(b)[1] = b
    BY DEF SpendInv, SpendTypes, Analysis, Call, Calls
  <2>4. row'[Call(b)] = row[Call(b)]
    BY <2>1, <2>3
  <2> QED
    BY <2>2, <2>4 DEF SpendInv, InFlightIsReserved
<1>3. RoomIsLeft'
  <2> SUFFICES ASSUME NEW b \in Analyses, analysis'[b].step = "granted"
               PROVE  /\ lock' = b
                      /\ Total(SinceDay(analysis[b].day)', Granted') + Reserve[analysis'[b].route] <= DailyLimit
                      /\ Total(SinceMonth(analysis[b].day)', Granted') + Reserve[analysis'[b].route] <= MonthlyLimit
    BY DEF RoomIsLeft, At
  <2>1. b # a
    OBVIOUS
  <2>2. analysis'[b] = analysis[b] /\ At(b, "granted")
    BY <2>1 DEF At
  <2>3. analysis[b].day \in Nat /\ Reserve[analysis[b].route] \in Nat
    BY SpendConstants DEF SpendInv, SpendTypes, Analysis
  <2>4. PICK day \in Nat, n \in Nat : day = analysis[b].day /\ n = Reserve[analysis[b].route]
    BY <2>3
  <2>5. /\ lock = b
        /\ Total(SinceDay(day), Granted) + n <= DailyLimit
        /\ Total(SinceMonth(day), Granted) + n <= MonthlyLimit
    BY <2>2, <2>4 DEF SpendInv, RoomIsLeft
  <2>6. SpendTypes
    BY DEF SpendInv
  <2>7. /\ Total(SinceDay(day)', Granted') <= Total(SinceDay(day), Granted)
        /\ Total(SinceMonth(day)', Granted') <= Total(SinceMonth(day), Granted)
        /\ Total(SinceDay(day)', Granted') \in Nat /\ Total(SinceDay(day), Granted) \in Nat
        /\ Total(SinceMonth(day)', Granted') \in Nat /\ Total(SinceMonth(day), Granted) \in Nat
    BY <2>6, NothingIsAdded
  <2>8. /\ Total(SinceDay(day)', Granted') + n <= DailyLimit
        /\ Total(SinceMonth(day)', Granted') + n <= MonthlyLimit
    BY <2>5, <2>7, SpendConstants
  <2>9. lock' = b
    BY <2>1, <2>5
  <2>10. analysis'[b].day = day /\ Reserve[analysis'[b].route] = n
    BY <2>2, <2>4
  <2> QED
    BY <2>8, <2>9, <2>10
<1> QED
  BY <1>1, <1>2, <1>3 DEF SpendInv

LEMMA AnalysisMoves ==
  ASSUME SpendTypes, NEW a \in Analyses,
         NEW step \in {"ready", "begun", "granted", "calling"} \cup Ended, Goes(a, step)
  PROVE  /\ analysis' \in [Analyses -> Analysis]
         /\ \A b \in Analyses \ {a} : analysis'[b] = analysis[b]
         /\ analysis'[a].step = step /\ analysis'[a].route = analysis[a].route
         /\ analysis'[a].attempt = analysis[a].attempt /\ analysis'[a].day = analysis[a].day
<1>1. analysis[a] \in Analysis /\ analysis \in [Analyses -> Analysis]
  BY DEF SpendTypes
<1>2. analysis' = [analysis EXCEPT ![a] = [analysis[a] EXCEPT !.step = step]]
  BY DEF Goes
<1>3. [analysis[a] EXCEPT !.step = step] \in Analysis
  BY <1>1 DEF Analysis
<1>4. /\ analysis'[a] = [analysis[a] EXCEPT !.step = step]
      /\ \A b \in Analyses \ {a} : analysis'[b] = analysis[b]
  BY <1>1, <1>2
<1>5. analysis' \in [Analyses -> Analysis]
  BY <1>1, <1>2, <1>3
<1>6. /\ analysis'[a].step = step /\ analysis'[a].route = analysis[a].route
      /\ analysis'[a].attempt = analysis[a].attempt /\ analysis'[a].day = analysis[a].day
  BY <1>1, <1>4 DEF Analysis
<1> QED
  BY <1>4, <1>5, <1>6

(* A step of an analysis that touches no row and does not end in a transaction or a call. *)
LEMMA CallsStay ==
  ASSUME SpendInv, SpendTypes', row' = row, NEW a \in Analyses,
         \A b \in Analyses \ {a} : analysis'[b] = analysis[b],
         analysis'[a].step \notin {"granted", "calling"},
         \A b \in Analyses \ {a} : lock = b => lock' = b
  PROVE  SpendInv'
<1>1. Granted' = Granted
  BY DEF Granted
<1>2. \A c \in Calls : Granted[c] <= Granted[c]
  BY GrantedFacts DEF SpendInv, Amounts
<1> QED
  BY <1>1, <1>2, OneMoves

LEMMA BeginsSafe ==
  ASSUME SpendInv, NEW a \in Analyses, Begins(a)
  PROVE  SpendInv'
<1>1. /\ analysis \in [Analyses -> Analysis] /\ analysis[a] \in Analysis /\ today \in Nat
      /\ analysis' = [analysis EXCEPT ![a] = [analysis[a] EXCEPT !.step = "begun", !.day = today]]
  BY DEF Begins, SpendInv, SpendTypes
<1>2. [analysis[a] EXCEPT !.step = "begun", !.day = today] \in Analysis
  BY <1>1 DEF Analysis
<1>3. /\ analysis' \in [Analyses -> Analysis]
      /\ \A b \in Analyses \ {a} : analysis'[b] = analysis[b]
      /\ analysis'[a] = [analysis[a] EXCEPT !.step = "begun", !.day = today]
  BY <1>1, <1>2
<1>4. analysis'[a].step = "begun"
  BY <1>1, <1>3 DEF Analysis
<1>5. today' = today /\ row' = row /\ lock' = lock
  BY DEF Begins
<1>6. SpendTypes'
  BY <1>3, <1>5 DEF SpendInv, SpendTypes
<1>7. \A b \in Analyses \ {a} : lock = b => lock' = b
  BY <1>5
<1>8. analysis'[a].step \notin {"granted", "calling"}
  BY <1>4
<1> QED
  BY <1>3, <1>5, <1>6, <1>7, <1>8, CallsStay

LEMMA RefusedSafe ==
  ASSUME SpendInv, NEW a \in Analyses, Refused(a)
  PROVE  SpendInv'
<1>1. PICK step \in {"analysed", "over budget"} : Goes(a, step)
  BY DEF Refused
<1>2. today' = today /\ row' = row /\ lock' = lock
  BY DEF Refused
<1>3. /\ analysis' \in [Analyses -> Analysis]
      /\ \A b \in Analyses \ {a} : analysis'[b] = analysis[b]
      /\ analysis'[a].step = step
  BY <1>1, AnalysisMoves DEF Ended, SpendInv
<1>4. SpendTypes'
  BY <1>2, <1>3 DEF SpendInv, SpendTypes
<1>5. \A b \in Analyses \ {a} : lock = b => lock' = b
  BY <1>2
<1>6. analysis'[a].step \notin {"granted", "calling"}
  BY <1>3
<1> QED
  BY <1>2, <1>3, <1>4, <1>5, <1>6, CallsStay

LEMMA RaisesSafe ==
  ASSUME SpendInv, NEW a \in Analyses, RequestRaises(a)
  PROVE  SpendInv'
<1>1. Goes(a, "raised") /\ today' = today /\ row' = row /\ lock' = lock
  BY DEF RequestRaises
<1>2. /\ analysis' \in [Analyses -> Analysis]
      /\ \A b \in Analyses \ {a} : analysis'[b] = analysis[b]
      /\ analysis'[a].step = "raised"
  BY <1>1, AnalysisMoves DEF Ended, SpendInv
<1>3. SpendTypes'
  BY <1>1, <1>2 DEF SpendInv, SpendTypes
<1>4. \A b \in Analyses \ {a} : lock = b => lock' = b
  BY <1>1
<1>5. analysis'[a].step \notin {"granted", "calling"}
  BY <1>2
<1> QED
  BY <1>1, <1>2, <1>3, <1>4, <1>5, CallsStay

LEMMA DiesSafe ==
  ASSUME SpendInv, NEW a \in Analyses, Dies(a)
  PROVE  SpendInv'
<1>1. Goes(a, "dead") /\ today' = today /\ row' = row
  BY DEF Dies
<1>2. /\ analysis' \in [Analyses -> Analysis]
      /\ \A b \in Analyses \ {a} : analysis'[b] = analysis[b]
      /\ analysis'[a].step = "dead"
  BY <1>1, AnalysisMoves DEF Ended, SpendInv
<1>3. lock' = IF lock = a THEN Nobody ELSE lock
  BY DEF Dies
<1>4. SpendTypes'
  BY <1>1, <1>2, <1>3 DEF SpendInv, SpendTypes
<1>5. \A b \in Analyses \ {a} : lock = b => lock' = b
  BY <1>3
<1>6. analysis'[a].step \notin {"granted", "calling"}
  BY <1>2
<1> QED
  BY <1>1, <1>2, <1>4, <1>5, <1>6, CallsStay

(* A call that finishes lowers what it was granted, or leaves it; its analysis goes on. *)
LEMMA FinishSafe ==
  ASSUME SpendInv, NEW a \in Analyses, At(a, "calling"),
         NEW status \in Finished, NEW cost \in Nat, Finishes(a, status, cost),
         today' = today, lock' = lock, analysis' \in [Analyses -> Analysis],
         \A b \in Analyses \ {a} : analysis'[b] = analysis[b],
         analysis'[a].step \notin {"granted", "calling"}
  PROVE  SpendInv'
<1>1. /\ SpendTypes'
      /\ \A c \in Calls \ {Call(a)} : row'[c] = row[c]
      /\ \A c \in Calls : /\ row'[c].status # "absent" => row[c].status # "absent"
                          /\ row'[c].day = row[c].day
                          /\ Granted'[c] <= Granted[c]
  BY FinishedCall
<1>2. \A c \in Calls : c[1] # a => row'[c] = row[c]
  BY <1>1 DEF Call
<1> QED
  BY <1>1, <1>2, OneMoves

LEMMA AttemptGoesOn ==
  ASSUME SpendTypes, NEW a \in Analyses, NextAttempt(a)
  PROVE  /\ analysis' \in [Analyses -> Analysis]
         /\ \A b \in Analyses \ {a} : analysis'[b] = analysis[b]
         /\ analysis'[a].step \notin {"granted", "calling"}
<1>1. CASE analysis[a].attempt = MaxOutputAttempts
  <2>1. Goes(a, "failed")
    BY <1>1 DEF NextAttempt
  <2>2. /\ analysis' \in [Analyses -> Analysis]
        /\ \A b \in Analyses \ {a} : analysis'[b] = analysis[b]
        /\ analysis'[a].step = "failed"
    BY <2>1, AnalysisMoves DEF Ended
  <2> QED
    BY <2>2
<1>2. CASE analysis[a].attempt # MaxOutputAttempts
  <2>1. PICK n : n = analysis[a].attempt + 1
    OBVIOUS
  <2>2. /\ analysis \in [Analyses -> Analysis] /\ analysis[a] \in Analysis
        /\ analysis' = [analysis EXCEPT ![a] = [analysis[a] EXCEPT !.step = "ready", !.attempt = n]]
    BY <1>2, <2>1 DEF NextAttempt, SpendTypes
  <2>3. n \in Attempts
    BY <1>2, <2>1, <2>2, SpendConstants DEF Analysis, Attempts
  <2>4. [analysis[a] EXCEPT !.step = "ready", !.attempt = n] \in Analysis
    BY <2>2, <2>3 DEF Analysis
  <2>5. /\ analysis' \in [Analyses -> Analysis]
        /\ \A b \in Analyses \ {a} : analysis'[b] = analysis[b]
        /\ analysis'[a] = [analysis[a] EXCEPT !.step = "ready", !.attempt = n]
    BY <2>2, <2>4
  <2>6. analysis'[a].step = "ready"
    BY <2>2, <2>5 DEF Analysis
  <2> QED
    BY <2>5, <2>6
<1> QED
  BY <1>1, <1>2

LEMMA FinishedCostIsAmount ==
  ASSUME SpendTypes, NEW a \in Analyses
  PROVE  /\ \A cost \in FinishedCost(a) : cost \in Nat
         /\ \A cost \in Costs[analysis[a].route] : cost \in Nat
         /\ row[Call(a)].cost \in Nat /\ Call(a) \in Calls
<1>1. analysis[a].route \in Routes /\ analysis[a].attempt \in Attempts
  BY DEF SpendTypes, Analysis
<1>2. Call(a) \in Calls
  BY <1>1 DEF Call, Calls
<1>3. row[Call(a)].cost \in Nat
  BY <1>2 DEF SpendTypes, CallRow
<1>4. Reserve[analysis[a].route] \in Nat /\ Costs[analysis[a].route] \subseteq Nat
  BY <1>1, SpendConstants
<1> QED
  BY <1>2, <1>3, <1>4 DEF FinishedCost

LEMMA FailsSafe ==
  ASSUME SpendInv, NEW a \in Analyses, RequestFails(a)
  PROVE  SpendInv'
<1>1. /\ At(a, "calling") /\ Goes(a, "failed") /\ today' = today /\ lock' = lock
      /\ "request_failed" \in Finished /\ SpendTypes
  BY DEF RequestFails, Finished, SpendInv
<1>2. PICK cost \in Nat : Finishes(a, "request_failed", cost)
  BY <1>1, FinishedCostIsAmount DEF RequestFails
<1>3. /\ analysis' \in [Analyses -> Analysis]
      /\ \A b \in Analyses \ {a} : analysis'[b] = analysis[b]
      /\ analysis'[a].step = "failed"
  BY <1>1, AnalysisMoves DEF Ended
<1>4. analysis'[a].step \notin {"granted", "calling"}
  BY <1>3
<1> QED
  BY <1>1, <1>2, <1>3, <1>4, FinishSafe

LEMMA InvalidSafe ==
  ASSUME SpendInv, NEW a \in Analyses, OutputIsInvalid(a)
  PROVE  SpendInv'
<1>1. /\ At(a, "calling") /\ NextAttempt(a) /\ today' = today /\ lock' = lock
      /\ "invalid_output" \in Finished /\ SpendTypes
  BY DEF OutputIsInvalid, Finished, SpendInv
<1>2. PICK cost \in Nat : Finishes(a, "invalid_output", cost)
  BY <1>1, FinishedCostIsAmount DEF OutputIsInvalid
<1>3. /\ analysis' \in [Analyses -> Analysis]
      /\ \A b \in Analyses \ {a} : analysis'[b] = analysis[b]
      /\ analysis'[a].step \notin {"granted", "calling"}
  BY <1>1, AttemptGoesOn
<1> QED
  BY <1>1, <1>2, <1>3, FinishSafe

LEMMA ValidSafe ==
  ASSUME SpendInv, NEW a \in Analyses, OutputIsValid(a)
  PROVE  SpendInv'
<1>1. /\ At(a, "calling") /\ today' = today /\ lock' = lock
      /\ "succeeded" \in Finished /\ SpendTypes
  BY DEF OutputIsValid, Finished, SpendInv
<1>2. PICK cost \in Nat : Finishes(a, "succeeded", cost)
  BY <1>1, FinishedCostIsAmount DEF OutputIsValid
<1>3. /\ analysis' \in [Analyses -> Analysis]
      /\ \A b \in Analyses \ {a} : analysis'[b] = analysis[b]
      /\ analysis'[a].step \notin {"granted", "calling"}
  <2>1. CASE Goes(a, "analysed")
    <3>1. /\ analysis' \in [Analyses -> Analysis]
          /\ \A b \in Analyses \ {a} : analysis'[b] = analysis[b]
          /\ analysis'[a].step = "analysed"
      BY <1>1, <2>1, AnalysisMoves DEF Ended
    <3> QED
      BY <3>1
  <2>2. CASE ~Goes(a, "analysed")
    <3> DEFINE next == [analysis[a] EXCEPT !.step = "ready", !.route = "fallback", !.attempt = 1]
    <3>1. /\ analysis \in [Analyses -> Analysis] /\ analysis[a] \in Analysis
          /\ analysis' = [analysis EXCEPT ![a] = next]
      BY <1>1, <2>2 DEF OutputIsValid, SpendTypes
    <3>2. 1 \in Attempts /\ "fallback" \in Routes
      BY SpendConstants DEF Attempts, Routes
    <3>3. next \in Analysis /\ next.step = "ready"
      BY <3>1, <3>2 DEF Analysis
    <3> HIDE DEF next
    <3>4. /\ analysis' \in [Analyses -> Analysis]
          /\ \A b \in Analyses \ {a} : analysis'[b] = analysis[b]
          /\ analysis'[a] = next
      BY <3>1, <3>3
    <3> QED
      BY <3>3, <3>4
  <2> QED
    BY <2>1, <2>2
<1> QED
  BY <1>1, <1>2, <1>3, FinishSafe

LEMMA NextDaySafe ==
  ASSUME SpendInv, NextDay
  PROVE  SpendInv'
<1>1. today' = today + 1 /\ row' = row /\ analysis' = analysis /\ lock' = lock
  BY DEF NextDay
<1>2. SpendTypes'
  BY <1>1 DEF SpendInv, SpendTypes
<1>3. InFlightIsReserved' /\ RoomIsLeft' /\ LimitsHold'
  BY <1>1 DEF SpendInv, InFlightIsReserved, RoomIsLeft, LimitsHold, At, Call, SinceDay,
              SinceMonth, Recorded, Granted
<1> QED
  BY <1>2, <1>3 DEF SpendInv

(* Who finds the lock free finds nobody between the guard and the record, so that what the
   guard added up stands until its own reservation. *)
LEMMA PassesGuardSafe ==
  ASSUME SpendInv, NEW a \in Analyses, PassesGuard(a)
  PROVE  SpendInv'
<1>1. /\ lock = Nobody /\ WithinLimits(a) /\ lock' = a /\ Goes(a, "granted")
      /\ today' = today /\ row' = row /\ SpendTypes
  BY DEF PassesGuard, SpendInv
<1>2. /\ analysis' \in [Analyses -> Analysis]
      /\ \A b \in Analyses \ {a} : analysis'[b] = analysis[b]
      /\ analysis'[a].step = "granted" /\ analysis'[a].route = analysis[a].route
      /\ analysis'[a].day = analysis[a].day
  BY <1>1, AnalysisMoves
<1>3. SpendTypes'
  BY <1>1, <1>2 DEF SpendTypes
<1>4. Granted' = Granted /\ Recorded' = Recorded
  BY <1>1 DEF Granted, Recorded
<1>5. LimitsHold'
  BY <1>1, <1>4 DEF LimitsHold, SpendInv
<1>6. InFlightIsReserved'
  <2> SUFFICES ASSUME NEW b \in Analyses, analysis'[b].step = "calling"
               PROVE  row'[Call(b)'].status = "started" /\ row'[Call(b)'].cost = Reserve[analysis'[b].route]
    BY DEF InFlightIsReserved, At
  <2>1. analysis'[b] = analysis[b] /\ Call(b)' = Call(b) /\ At(b, "calling")
    BY <1>2 DEF Call, At
  <2> QED
    BY <1>1, <2>1 DEF SpendInv, InFlightIsReserved
<1>7. \A b \in Analyses : b # a => analysis'[b].step # "granted"
  BY <1>1, <1>2, SpendConstants DEF SpendInv, RoomIsLeft, At
<1>8. PICK day \in Nat, n \in Nat : day = analysis[a].day /\ n = Reserve[analysis[a].route]
  BY <1>1, SpendConstants DEF SpendTypes, Analysis
<1>9. /\ Total(SinceDay(day), Granted) + n <= DailyLimit
      /\ Total(SinceMonth(day), Granted) + n <= MonthlyLimit
  <2>1. /\ SinceDay(day) \in SUBSET Calls /\ SinceMonth(day) \in SUBSET Calls
        /\ Granted \in Amounts /\ Cost \in Amounts /\ \A c \in Calls : Granted[c] <= Cost[c]
    BY <1>1, GrantedFacts DEF SinceDay, SinceMonth, Recorded
  <2>2. /\ Total(SinceDay(day), Granted) <= Total(SinceDay(day), Cost)
        /\ Total(SinceMonth(day), Granted) <= Total(SinceMonth(day), Cost)
    BY <2>1, TotalIsMonotonic
  <2>3. /\ Total(SinceDay(day), Granted) \in Nat /\ Total(SinceDay(day), Cost) \in Nat
        /\ Total(SinceMonth(day), Granted) \in Nat /\ Total(SinceMonth(day), Cost) \in Nat
    BY <2>1, UnitsAreFinite
  <2>4. /\ Total(SinceDay(day), Cost) + n <= DailyLimit
        /\ Total(SinceMonth(day), Cost) + n <= MonthlyLimit
    BY <1>1, <1>8 DEF WithinLimits
  <2> QED
    BY <2>2, <2>3, <2>4, SpendConstants
<1>10. SinceDay(day)' = SinceDay(day) /\ SinceMonth(day)' = SinceMonth(day)
  BY <1>1, <1>4 DEF SinceDay, SinceMonth
<1>11. RoomIsLeft'
  <2> SUFFICES ASSUME NEW b \in Analyses, analysis'[b].step = "granted"
               PROVE  /\ lock' = b
                      /\ Total(SinceDay(analysis[b].day)', Granted') + Reserve[analysis'[b].route] <= DailyLimit
                      /\ Total(SinceMonth(analysis[b].day)', Granted') + Reserve[analysis'[b].route] <= MonthlyLimit
    BY DEF RoomIsLeft, At
  <2>1. b = a
    BY <1>7
  <2>2. analysis'[a].day = day /\ Reserve[analysis'[a].route] = n
    BY <1>2, <1>8
  <2> QED
    BY <1>1, <1>4, <1>9, <1>10, <2>1, <2>2
<1> QED
  BY <1>3, <1>5, <1>6, <1>11 DEF SpendInv

LEMMA ReservesSafe ==
  ASSUME SpendInv, NEW a \in Analyses, Reserves(a)
  PROVE  SpendInv'
<1> DEFINE x == Call(a)
<1>1. /\ At(a, "granted") /\ lock = a /\ lock' = Nobody /\ Goes(a, "calling")
      /\ today' = today /\ SpendTypes /\ RoomIsLeft /\ LimitsHold
  BY DEF Reserves, SpendInv, RoomIsLeft
<1>2. /\ analysis' \in [Analyses -> Analysis]
      /\ \A b \in Analyses \ {a} : analysis'[b] = analysis[b]
      /\ analysis'[a].step = "calling" /\ analysis'[a].route = analysis[a].route
      /\ analysis'[a].attempt = analysis[a].attempt /\ analysis'[a].day = analysis[a].day
  BY <1>1, AnalysisMoves
<1>3. PICK day \in Nat, n \in Nat : day = analysis[a].day /\ n = Reserve[analysis[a].route]
  BY <1>1, SpendConstants DEF SpendTypes, Analysis
<1>4. x \in Calls /\ x[1] = a /\ x[2] = analysis[a].route /\ Call(a)' = x
  BY <1>1, <1>2 DEF SpendTypes, Analysis, Call, Calls
<1>5. row' = [row EXCEPT ![x] = [status |-> "started", day |-> day, cost |-> n]]
  BY <1>3 DEF Reserves
<1> HIDE DEF x
<1>6. [status |-> "started", day |-> day, cost |-> n] \in CallRow
  BY DEF CallRow
<1>7. /\ row' \in [Calls -> CallRow]
      /\ row'[x].status = "started" /\ row'[x].day = day /\ row'[x].cost = n
      /\ \A c \in Calls \ {x} : row'[c] = row[c]
  BY <1>1, <1>4, <1>5, <1>6 DEF SpendTypes
<1>8. SpendTypes'
  BY <1>1, <1>2, <1>7 DEF SpendTypes
<1>9. InFlightIsReserved'
  <2> SUFFICES ASSUME NEW b \in Analyses, analysis'[b].step = "calling"
               PROVE  row'[Call(b)'].status = "started" /\ row'[Call(b)'].cost = Reserve[analysis'[b].route]
    BY DEF InFlightIsReserved, At
  <2>1. CASE b = a
    BY <1>2, <1>3, <1>4, <1>7, <2>1
  <2>2. CASE b # a
    <3>1. analysis'[b] = analysis[b] /\ Call(b)' = Call(b) /\ At(b, "calling")
      BY <1>2, <2>2 DEF Call, At
    <3>2. Call(b) \in Calls \ {x}
      BY <1>1, <1>4, <2>2 DEF SpendTypes, Analysis, Call, Calls
    <3> QED
      BY <1>7, <3>1, <3>2 DEF SpendInv, InFlightIsReserved
  <2> QED
    BY <2>1, <2>2
<1>10. RoomIsLeft'
  <2>1. \A b \in Analyses : analysis'[b].step # "granted"
    BY <1>1, <1>2 DEF RoomIsLeft, At
  <2> QED
    BY <2>1 DEF RoomIsLeft, At
<1>11. /\ Granted \in Amounts /\ Granted' \in Amounts /\ Granted'[x] <= n
       /\ \A c \in Calls \ {x} : Granted'[c] <= Granted[c]
       /\ Recorded \subseteq Calls /\ Recorded' \subseteq Recorded \cup {x}
  <2>1. /\ Granted \in Amounts /\ Granted' \in Amounts /\ Granted'[x] <= n
    BY <1>1, <1>3, <1>4, <1>8, GrantedFacts, GrantedLater
  <2>2. \A c \in Calls \ {x} : Granted'[c] = Granted[c]
    BY <1>7 DEF Granted
  <2>3. \A c \in Calls \ {x} : Granted[c] \in Nat
    BY <2>1 DEF Amounts
  <2> QED
    BY <1>7, <2>1, <2>2, <2>3 DEF Recorded
<1>12. /\ Total(SinceDay(day), Granted) + n <= DailyLimit
       /\ Total(SinceMonth(day), Granted) + n <= MonthlyLimit
  BY <1>1, <1>3 DEF RoomIsLeft
<1>13. \A c \in Calls : row[c].day \in Nat
  BY <1>1, GrantedFacts
<1>14. ASSUME NEW A \in SUBSET Calls, NEW B \in SUBSET Calls, A \subseteq B \cup {x}
       PROVE  Total(A, Granted') <= Total(B, Granted) + n
  <2>1. Granted'[x] <= n /\ \A c \in A \ {x} : Granted'[c] <= Granted[c]
    BY <1>11
  <2> QED
    BY <1>4, <1>11, <1>14, <2>1, TotalOfOneMore
<1>15. ASSUME NEW A \in SUBSET Calls, NEW B \in SUBSET Calls, A \subseteq B, x \notin A
       PROVE  Total(A, Granted') <= Total(B, Granted)
  BY <1>11, <1>15, TotalIsMonotonic
<1>16. ASSUME NEW A \in SUBSET Calls
       PROVE  Total(A, Granted) \in Nat /\ Total(A, Granted') \in Nat
  BY <1>11, UnitsAreFinite
<1>17. ASSUME NEW d \in Days
       PROVE  Total({c \in Recorded' : row'[c].day = d}, Granted') <= DailyLimit
  <2> DEFINE A == {c \in Recorded' : row'[c].day = d}
             B == {c \in Recorded : row[c].day = d}
             D == SinceDay(day)
  <2>1. A \in SUBSET Calls /\ B \in SUBSET Calls /\ D \in SUBSET Calls
    BY <1>4, <1>11 DEF SinceDay
  <2>2. Total(B, Granted) <= DailyLimit
    BY <1>1 DEF LimitsHold
  <2>3. d = day => A \subseteq D \cup {x}
    BY <1>7, <1>11, <1>13 DEF SinceDay
  <2>4. d # day => A \subseteq B /\ x \notin A
    BY <1>7, <1>11
  <2>5. Total(D, Granted) + n <= DailyLimit
    BY <1>12
  <2> HIDE DEF A, B, D
  <2>6. Total(A, Granted') \in Nat /\ Total(B, Granted) \in Nat /\ Total(D, Granted) \in Nat
    BY <1>16, <2>1
  <2>7. CASE d = day
    <3>1. Total(A, Granted') <= Total(D, Granted) + n
      BY <1>14, <2>1, <2>3, <2>7
    <3>2. Total(A, Granted') <= DailyLimit
      BY <2>5, <2>6, <3>1, SpendConstants
    <3> QED
      BY <3>2 DEF A
  <2>8. CASE d # day
    <3>1. Total(A, Granted') <= Total(B, Granted)
      BY <1>15, <2>1, <2>4, <2>8
    <3>2. Total(A, Granted') <= DailyLimit
      BY <2>2, <2>6, <3>1, SpendConstants
    <3> QED
      BY <3>2 DEF A
  <2> QED
    BY <2>7, <2>8
<1>18. ASSUME NEW d \in Days
       PROVE  Total({c \in Recorded' : Month(row'[c].day) = Month(d)}, Granted') <= MonthlyLimit
  <2> DEFINE A == {c \in Recorded' : Month(row'[c].day) = Month(d)}
             B == {c \in Recorded : Month(row[c].day) = Month(d)}
             D == SinceMonth(day)
  <2>1. A \in SUBSET Calls /\ B \in SUBSET Calls /\ D \in SUBSET Calls
    BY <1>4, <1>11 DEF SinceMonth
  <2>2. Total(B, Granted) <= MonthlyLimit
    BY <1>1 DEF LimitsHold
  <2>3. Month(d) = Month(day) => A \subseteq D \cup {x}
    BY <1>7, <1>11, <1>13, MonthsAreNumbers DEF SinceMonth
  <2>4. Month(d) # Month(day) => A \subseteq B /\ x \notin A
    BY <1>7, <1>11
  <2>5. Total(D, Granted) + n <= MonthlyLimit
    BY <1>12
  <2> HIDE DEF A, B, D
  <2>6. Total(A, Granted') \in Nat /\ Total(B, Granted) \in Nat /\ Total(D, Granted) \in Nat
    BY <1>16, <2>1
  <2>7. CASE Month(d) = Month(day)
    <3>1. Total(A, Granted') <= Total(D, Granted) + n
      BY <1>14, <2>1, <2>3, <2>7
    <3>2. Total(A, Granted') <= MonthlyLimit
      BY <2>5, <2>6, <3>1, SpendConstants
    <3> QED
      BY <3>2 DEF A
  <2>8. CASE Month(d) # Month(day)
    <3>1. Total(A, Granted') <= Total(B, Granted)
      BY <1>15, <2>1, <2>4, <2>8
    <3>2. Total(A, Granted') <= MonthlyLimit
      BY <2>2, <2>6, <3>1, SpendConstants
    <3> QED
      BY <3>2 DEF A
  <2> QED
    BY <2>7, <2>8
<1>19. LimitsHold'
  BY <1>17, <1>18 DEF LimitsHold
<1> QED
  BY <1>8, <1>9, <1>10, <1>19 DEF SpendInv

LEMMA NextSpend == SpendInv /\ [SpendNext]_spendVars => SpendInv'
<1> SUFFICES ASSUME SpendInv, [SpendNext]_spendVars PROVE SpendInv'
  OBVIOUS
<1>1. CASE NextDay
  BY <1>1, NextDaySafe
<1>2. ASSUME NEW a \in Analyses, Steps(a) \/ Dies(a) PROVE SpendInv'
  BY <1>2, BeginsSafe, PassesGuardSafe, RefusedSafe, ReservesSafe, FailsSafe, RaisesSafe,
     InvalidSafe, ValidSafe, DiesSafe DEF Steps
<1>3. CASE UNCHANGED spendVars
  BY <1>3 DEF spendVars, SpendInv, SpendTypes, InFlightIsReserved, RoomIsLeft, LimitsHold, At,
              Call, SinceDay, SinceMonth, Recorded, Granted
<1> QED
  BY <1>1, <1>2, <1>3 DEF SpendNext

(* AnalysisSpend.LimitsHold: what the calls of a day and of a month were granted stays within
   the limits, whoever reserves, finishes, dies or waits for the lock over midnight. *)
THEOREM LimitsAlwaysHold == SpendSpec => []LimitsHold
<1>1. SpendInit => SpendInv
  BY InitSpend
<1>2. SpendInv /\ [SpendNext]_spendVars => SpendInv'
  BY NextSpend
<1>3. SpendInv => LimitsHold
  BY DEF SpendInv
<1> QED
  BY <1>1, <1>2, <1>3, PTL DEF SpendSpec
=============================================================================
