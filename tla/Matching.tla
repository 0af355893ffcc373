------------------------------ MODULE Matching ------------------------------
(***************************************************************************)
(* Who is told about an opportunity.  A new opportunity is matched once    *)
(* with the profiles that are active (MatchingDeliveryJobProcessor), and a *)
(* profile that is activated is matched once with the opportunities that   *)
(* are there (ProfileRematchJobProcessor); each match becomes a delivery.  *)
(* Users activate, change and deactivate their profiles meanwhile, and     *)
(* opportunities are observed again.                                       *)
(***************************************************************************)
EXTENDS Naturals, FiniteSets

CONSTANTS
    Opportunities,
    Profiles,     \* confirmed ones: a draft is neither active nor matched
    Users,
    Owner,        \* Owner[p]: the user of profile p
    Old,          \* opportunities matched before there was any profile
    Relevant,     \* pairs <<o, p>> that the scores and filters accept, but for age
    MaxOpportunities,  \* PROFILE_REMATCH_MAX_OPPORTUNITIES
    MaximumAge,   \* matching_maximum_age_seconds, in units of the clock
    SuppressExpired,   \* matching_suppress_expired
    Workers,
    MaxRevision,  \* MaxRevision[p]: bound on the revisions of profile p
    MaxTime,      \* bound on the clock
    MaxFaults     \* bound on handlers that fail, matches not scheduled and changes of entitlement

ASSUME MatchingAssumption ==
    /\ Owner \in [Profiles -> Users]
    /\ Relevant \subseteq Opportunities \X Profiles
    /\ IsFiniteSet(Opportunities) /\ Old \subseteq Opportunities
    /\ {MaxOpportunities, MaximumAge} \subseteq Nat \ {0} /\ MaxTime \in Nat \ {0, 1}
    /\ MaxRevision \in [Profiles -> Nat \ {0}]
    /\ MaxFaults \in Nat /\ SuppressExpired \in BOOLEAN

Revisions == UNION {1..MaxRevision[p] : p \in Profiles}
MatchKey(o) == <<"match", o, 0>>
RematchKey(p, r) == <<"rematch", p, r>>
Keys == {MatchKey(o) : o \in Opportunities} \cup {RematchKey(p, r) : p \in Profiles, r \in Revisions}
Matches == Opportunities \X Profiles \X Revisions

VARIABLES
    now,
    profile,    \* the row of each profile
    entitled,   \* users that may receive deliveries
    seen,       \* last_seen_at of each opportunity, 0 while it does not exist
    job,        \* matching and rematch jobs by key
    activation, \* the transaction of each user that activates a profile
    worker,     \* the handler of each worker
    delivery,   \* delivery of each match: its status and the last_seen_at of its trace
    faults,     \* how many of the bounded failures and changes there have been
    read,       \* history: revisions of the active profiles an opportunity was matched with
    changed,    \* history: active profiles the settings of which changed
    leftOut,    \* history: matches a rematch left out, for the place of the opportunity in time
    unscheduled \* history: matches tried and not scheduled, for expiry, entitlement or a failure

vars == <<now, profile, entitled, seen, job, activation, worker, delivery, faults,
          read, changed, leftOut, unscheduled>>
history == <<read, changed, leftOut, unscheduled>>

ProfileRow == [active : BOOLEAN, revision : Revisions]
JobRow == [state : {"absent", "queued", "running", "completed"}, created : 0..MaxTime]
Activation == [of : Profiles \cup {"none"}, others : SUBSET Profiles, at : 0..MaxTime]
DeliveryRow == [status : {"absent", "pending", "sent", "stale", "ineligible", "unentitled"},
                seen : 0..MaxTime]
Handler == [pc : {"idle", "load", "generate", "schedule"}, key : Keys \cup {<<"none", "none", 0>>},
            opps : SUBSET Opportunities, profiles : SUBSET (Profiles \X Revisions),
            todo : SUBSET [match : Matches, seen : 1..MaxTime]]

NoActivation == [of |-> "none", others |-> {}, at |-> 0]
Idle == [pc |-> "idle", key |-> <<"none", "none", 0>>, opps |-> {}, profiles |-> {}, todo |-> {}]

Init == /\ now = 2
        /\ profile = [p \in Profiles |-> [active |-> FALSE, revision |-> 1]]
        /\ entitled = Users
        /\ seen = [o \in Opportunities |-> IF o \in Old THEN 1 ELSE 0]
        /\ job = [k \in Keys |-> IF k \in {MatchKey(o) : o \in Old}
                                THEN [state |-> "completed", created |-> 1]
                                ELSE [state |-> "absent", created |-> 0]]
        /\ activation = [u \in Users |-> NoActivation]
        /\ worker = [w \in Workers |-> Idle]
        /\ delivery = [m \in Matches |-> [status |-> "absent", seen |-> 0]]
        /\ faults = 0
        /\ read = [o \in Opportunities |-> {}]
        /\ changed = {} /\ leftOut = {} /\ unscheduled = {}

Enqueued(k, at) == IF job[k].state = "absent"
                   THEN [job EXCEPT ![k] = [state |-> "queued", created |-> at]] ELSE job

Active(p) == profile[p].active
Locked(p) == LET a == activation[Owner[p]] IN p = a.of \/ p \in a.others
Bumped(p) == [profile[p] EXCEPT !.revision = @ + 1]

-----------------------------------------------------------------------------
(* Profiles                                                                *)

UpdateFree(p) == ~Locked(p) /\ profile[p].revision < MaxRevision[p]

(* update_preferences: a new revision of an active profile gets no rematch. *)
UpdatePreferences(p) ==
    /\ UpdateFree(p)
    /\ profile' = [profile EXCEPT ![p] = Bumped(p)]
    /\ changed' = IF Active(p) THEN changed \cup {p} ELSE changed
    /\ UNCHANGED <<now, entitled, seen, job, activation, worker, delivery, faults,
                   read, leftOut, unscheduled>>

Deactivate(p) ==
    /\ UpdateFree(p) /\ profile[p].active
    /\ profile' = [profile EXCEPT ![p] = [Bumped(p) EXCEPT !.active = FALSE]]
    /\ UNCHANGED <<now, entitled, seen, job, activation, worker, delivery, faults, history>>

OthersKept(p) == {}  \* the other profiles stay active
OthersActive(p) == {q \in Profiles \ {p} : Owner[q] = Owner[p] /\ profile[q].active}

(* activate_primary locks the user and the profile; the rows of the other  *)
(* active profiles are locked by their update.                             *)
BeginActivation(p) ==
    /\ activation[Owner[p]].of = "none"
    /\ \A q \in OthersActive(p) \cup {p} : profile[q].revision < MaxRevision[q]
    /\ activation' = [activation EXCEPT ![Owner[p]] =
                        [of |-> p, others |-> OthersActive(p), at |-> now]]
    /\ UNCHANGED <<now, profile, entitled, seen, job, worker, delivery, faults, history>>

Activated(p) == IF Active(p) THEN profile[p] ELSE [Bumped(p) EXCEPT !.active = TRUE]
ActivationKeyOld(p) == RematchKey(p, profile[p].revision)  \* of the revision before
ActivationKey(p) == RematchKey(p, Activated(p).revision)

(* The others are deactivated, the profile is activated unless it was, and *)
(* its rematch is enqueued; created_at is the start of the transaction.    *)
CommitActivation(u) ==
    LET p == activation[u].of
    IN  /\ p # "none"
        /\ profile' = [q \in Profiles |->
                         IF q = p THEN Activated(p)
                         ELSE IF q \in activation[u].others
                         THEN [Bumped(q) EXCEPT !.active = FALSE] ELSE profile[q]]
        /\ job' = Enqueued(ActivationKey(p), activation[u].at)
        /\ activation' = [activation EXCEPT ![u] = NoActivation]
        /\ changed' = changed \ {p}
        /\ UNCHANGED <<now, entitled, seen, worker, delivery, faults, read, leftOut, unscheduled>>

EntitlementChanges(u) ==
    /\ faults < MaxFaults /\ faults' = faults + 1
    /\ entitled' = IF u \in entitled THEN entitled \ {u} ELSE entitled \cup {u}
    /\ UNCHANGED <<now, profile, seen, job, activation, worker, delivery, history>>

-----------------------------------------------------------------------------
(* Opportunities, and time                                                 *)

(* A message of the opportunity is linked, the first one or a later one;   *)
(* created_at of its job is the start of the transaction.                  *)
Observed(o, at) ==
    /\ at \in seen[o] + 1..now
    /\ seen' = [seen EXCEPT ![o] = at]
    /\ \E began \in at..now : job' = Enqueued(MatchKey(o), began)
    /\ UNCHANGED <<now, profile, entitled, activation, worker, delivery, faults, history>>

Tick == /\ now < MaxTime /\ now' = now + 1
        /\ UNCHANGED <<profile, entitled, seen, job, activation, worker, delivery, faults,
                       history>>

-----------------------------------------------------------------------------
(* The two handlers                                                        *)

Claim(w, k) ==
    /\ worker[w].pc = "idle" /\ job[k].state = "queued"
    /\ job' = [job EXCEPT ![k].state = "running"]
    /\ worker' = [worker EXCEPT ![w] = [Idle EXCEPT !.pc = "load", !.key = k]]
    /\ UNCHANGED <<now, profile, entitled, seen, activation, delivery, faults, history>>

Completes(w) == /\ job' = [job EXCEPT ![worker[w].key].state = "completed"]
                /\ worker' = [worker EXCEPT ![w] = Idle]

(* An exception or the end of the process: the job is tried again.         *)
HandlerFails(w) ==
    /\ worker[w].pc # "idle" /\ faults < MaxFaults /\ faults' = faults + 1
    /\ job' = [job EXCEPT ![worker[w].key].state = "queued"]
    /\ worker' = [worker EXCEPT ![w] = Idle]
    /\ UNCHANGED <<now, profile, entitled, seen, activation, delivery, history>>

ActiveRevisions == {<<p, profile[p].revision>> : p \in {q \in Profiles : Active(q)}}

(* generate_matches reads the active profiles first (list_active).         *)
ReadProfiles(w) ==
    LET o == worker[w].key[2]
    IN  /\ worker[w].pc = "load" /\ worker[w].key[1] = "match"
        /\ worker' = [worker EXCEPT ![w].pc = "generate", ![w].opps = {o},
                                    ![w].profiles = ActiveRevisions]
        /\ read' = [read EXCEPT ![o] = @ \cup ActiveRevisions]
        /\ UNCHANGED <<now, profile, entitled, seen, job, activation, delivery, faults,
                       changed, leftOut, unscheduled>>

AgedWithin(o, at) == seen[o] + MaximumAge >= at

RecentBefore(at) == {o \in Opportunities : seen[o] \in 1..at - 1 /\ AgedWithin(o, at)}  \* not the last instant
(* What may be matched again as of the creation of the job; nothing in the *)
(* program closes, retracts or suppresses an opportunity.                  *)
Recent(at) == {o \in Opportunities : seen[o] \in 1..at /\ AgedWithin(o, at)}

(* list_recent_for_matching: the latest of them, up to the limit; ties are *)
(* broken by the random ids.                                               *)
Listings(at) ==
    {L \in SUBSET Recent(at) :
        \/ L = Recent(at) /\ Cardinality(L) <= MaxOpportunities
        \/ /\ Cardinality(L) = MaxOpportunities
           /\ \A q \in L, o \in Recent(at) \ L : seen[q] >= seen[o]}

(* Why a rematch may leave an opportunity out: it was observed after the   *)
(* job was created, it is too old, or enough others are as late as it is.  *)
TooLate(o, at) == seen[o] > at
TooOld(o, at) == seen[o] # 0 /\ seen[o] + MaximumAge < at
Crowded(o, at) ==
    Cardinality({q \in Opportunities \ {o} : seen[q] \in seen[o]..at}) >= MaxOpportunities
LeavesOut(opps, at) == {o \in Opportunities \ opps : TooLate(o, at) \/ TooOld(o, at) \/ Crowded(o, at)}

(* A rematch of a revision that is not current is skipped; else the recent *)
(* opportunities are listed.                                               *)
Load(w) ==
    LET k == worker[w].key
        p == k[2]
        r == k[3]
        at == job[k].created
    IN  /\ worker[w].pc = "load" /\ k[1] = "rematch"
        /\ \/ /\ <<p, r>> \notin ActiveRevisions
              /\ Completes(w)
              /\ UNCHANGED history
           \/ /\ <<p, r>> \in ActiveRevisions
              /\ \E opps \in Listings(at) :
                   /\ IF opps = {} THEN Completes(w) ELSE
                      /\ worker' = [worker EXCEPT ![w].pc = "generate", ![w].opps = opps,
                                                  ![w].profiles = {<<p, r>>}]
                      /\ UNCHANGED job
                   /\ leftOut' = leftOut \cup {<<o, p, r>> : o \in LeavesOut(opps, at)}
              /\ UNCHANGED <<read, changed, unscheduled>>
        /\ UNCHANGED <<now, profile, entitled, seen, activation, delivery, faults>>

(* suppress_expired; the evaluation is as of the creation of the job.      *)
Expired(o, k) == SuppressExpired /\ seen[o] + MaximumAge <= job[k].created

(* The pairs of a handler that fit, and the traces that are eligible.      *)
Fitting(w) == {y \in worker[w].opps \X worker[w].profiles : <<y[1], y[2][1]>> \in Relevant}
MatchOf(y) == <<y[1], y[2][1], y[2][2]>>
TraceOf(y) == [match |-> MatchOf(y), seen |-> seen[y[1]]]

(* The run and its traces are stored, or the run of an earlier try with    *)
(* the same inputs is taken.  A rematch reads its profile once more.       *)
Generate(w) ==
    LET k == worker[w].key
        expired == {y \in Fitting(w) : Expired(y[1], k)}
    IN  /\ worker[w].pc = "generate"
        /\ IF k[1] = "rematch" /\ ~worker[w].profiles \subseteq ActiveRevisions
           THEN Completes(w) /\ UNCHANGED unscheduled
           ELSE /\ worker' = [worker EXCEPT ![w].pc = "schedule",
                                            ![w].todo = {TraceOf(y) : y \in Fitting(w) \ expired}]
                /\ unscheduled' = unscheduled \cup {MatchOf(y) : y \in expired}
                /\ UNCHANGED job
        /\ UNCHANGED <<now, profile, entitled, seen, activation, delivery, faults, read, changed, leftOut>>

(* ensure: the delivery of a match exists once, whichever trace made it.   *)
Ensured(t) == IF delivery[t.match].status = "absent"
              THEN [delivery EXCEPT ![t.match] = [status |-> "pending", seen |-> t.seen]]
              ELSE delivery

(* schedule_trace, the failures of which are only reported.                *)
Schedule(w, t) ==
    LET p == t.match[2]
        current == Active(p) /\ profile[p].revision = t.match[3]
    IN  /\ worker[w].pc = "schedule" /\ t \in worker[w].todo
        /\ worker' = [worker EXCEPT ![w].todo = @ \ {t}]
        /\ IF current /\ Owner[p] \in entitled
           THEN /\ delivery' = Ensured(t)
                /\ UNCHANGED unscheduled
           ELSE /\ unscheduled' = IF current THEN unscheduled \cup {t.match} ELSE unscheduled
                /\ UNCHANGED delivery
        /\ UNCHANGED <<now, profile, entitled, seen, job, activation, faults, read, changed, leftOut>>

ScheduleFails(w, t) ==
    /\ worker[w].pc = "schedule" /\ t \in worker[w].todo
    /\ faults < MaxFaults /\ faults' = faults + 1
    /\ worker' = [worker EXCEPT ![w].todo = @ \ {t}]
    /\ unscheduled' = unscheduled \cup {t.match}
    /\ UNCHANGED <<now, profile, entitled, seen, job, activation, delivery, read, changed, leftOut>>

Complete(w) ==
    /\ worker[w].pc = "schedule" /\ worker[w].todo = {}
    /\ Completes(w)
    /\ UNCHANGED <<now, profile, entitled, seen, activation, delivery, faults, history>>

(* The delivery job: prepare_attempt suppresses it or it is sent.          *)
Deliver(m) ==
    LET o == m[1]
        p == m[2]
    IN  /\ delivery[m].status = "pending"
        /\ delivery' = [delivery EXCEPT ![m].status =
             IF Owner[p] \notin entitled THEN "unentitled"
             ELSE IF ~Active(p) \/ profile[p].revision # m[3] THEN "ineligible"
             ELSE IF seen[o] # delivery[m].seen THEN "stale" ELSE "sent"]
        /\ UNCHANGED <<now, profile, entitled, seen, job, activation, worker, faults, history>>

Next ==
    \/ \E p \in Profiles : UpdatePreferences(p) \/ Deactivate(p) \/ BeginActivation(p)
    \/ \E u \in Users : CommitActivation(u) \/ EntitlementChanges(u)
    \/ \E o \in Opportunities, at \in 1..MaxTime : Observed(o, at)
    \/ \E w \in Workers :
         \/ \E k \in Keys : Claim(w, k)
         \/ HandlerFails(w) \/ ReadProfiles(w) \/ Load(w) \/ Generate(w) \/ Complete(w)
         \/ \E t \in worker[w].todo : Schedule(w, t) \/ ScheduleFails(w, t)
    \/ \E m \in Matches : Deliver(m)
    \/ Tick

Spec == Init /\ [][Next]_vars

-----------------------------------------------------------------------------
(* The rows are those the tables allow; an activation locks profiles of    *)
(* its own user.                                                           *)
TypeOK ==
    /\ now \in 1..MaxTime
    /\ profile \in [Profiles -> ProfileRow]
    /\ entitled \subseteq Users
    /\ seen \in [Opportunities -> 0..MaxTime]
    /\ job \in [Keys -> JobRow]
    /\ activation \in [Users -> Activation]
    /\ \A u \in Users : \A p \in activation[u].others \cup ({activation[u].of} \ {"none"}) :
          Owner[p] = u
    /\ worker \in [Workers -> Handler]
    /\ delivery \in [Matches -> DeliveryRow]
    /\ faults \in 0..MaxFaults
    /\ read \in [Opportunities -> SUBSET (Profiles \X Revisions)]
    /\ changed \subseteq Profiles /\ leftOut \subseteq Matches /\ unscheduled \subseteq Matches

(* A user has at most one active profile, whatever activations,            *)
(* deactivations and changes of settings meet (activate_primary).          *)
OneActiveProfile ==
    \A p, q \in Profiles : Owner[p] = Owner[q] /\ profile[p].active /\ profile[q].active => p = q

(* An active profile and an opportunity it fits, both matched, have a      *)
(* delivery that is to be sent or was.  The only other ends are these: the *)
(* opportunity was observed again before it was sent; it was matched       *)
(* before the profile was active and the rematch left it out, because it   *)
(* was observed after the rematch was created, or was older than the       *)
(* maximum age, or had MaxOpportunities others as late beside it; it had   *)
(* expired when it was matched with the profile; it could not be           *)
(* scheduled; the user was not entitled.                                   *)
NobodyIsLeftOut ==
    \A m \in Matches :
        LET o == m[1]
            p == m[2]
            r == m[3]
        IN  /\ Active(p) /\ profile[p].revision = r /\ <<o, p>> \in Relevant
            /\ job[MatchKey(o)].state = "completed"
            /\ job[RematchKey(p, r)].state = "completed"
            => \/ delivery[m].status \in {"pending", "sent", "stale", "unentitled"}
               \/ m \in unscheduled
               \/ m \in leftOut /\ <<p, r>> \notin read[o]

(* An active profile has a rematch of its revision, unless its settings    *)
(* changed after its user last asked to activate it (activate, for one     *)
(* that is active already too).                                            *)
ActivationIsMatched ==
    \A p \in Profiles :
        Active(p) /\ p \notin changed
        => job[RematchKey(p, profile[p].revision)].state # "absent"
=============================================================================
