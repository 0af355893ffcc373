--------------------------- MODULE ChatDiscovery ---------------------------
(***************************************************************************)
(* TelegramChatDiscoveryService and its repository: topics are searched in *)
(* Telegram's global index once per refresh bucket, the chats (peers) a    *)
(* search meets are stored, and a chat no source stands for is screened    *)
(* and made a source candidate if it is worth watching.                    *)
(*                                                                         *)
(* Searches and screens are durable jobs.  A handler may run beside its    *)
(* successor when its heartbeat comes too late, be cancelled, or die.      *)
(***************************************************************************)
EXTENDS Naturals, FiniteSets

CONSTANTS
    Workers,      \* processes with a worker for the jobs
    HasProvider,  \* those with an AI provider for screens
    Topics,
    Peers,        \* chats by their canonical identity
    JobTries,     \* max_attempts of a job
    ScreenLimit,  \* telegram_chat_discovery_max_pending_screens
    MaxBucket,    \* bound on the refresh buckets
    MaxScreens,   \* bound on the screens of one chat
    MaxFaults     \* bound on deaths, cancellations, late heartbeats and failed searches

ASSUME ChatAssumption ==
    /\ IsFiniteSet(Workers) /\ HasProvider \subseteq Workers
    /\ {JobTries, ScreenLimit, MaxBucket, MaxScreens} \subseteq Nat \ {0}
    /\ MaxFaults \in Nat

SearchKey(t, b) == [kind |-> "search", of |-> t, n |-> b]
ScreenKey(p, n) == [kind |-> "screen", of |-> p, n |-> n]
Searches == {SearchKey(t, b) : t \in Topics, b \in 1..MaxBucket}
Keys == Searches \cup {ScreenKey(p, n) : p \in Peers, n \in 1..MaxScreens}
NoKey == [kind |-> "none", of |-> "none", n |-> 0]

VARIABLES
    bucket,    \* now, in units of the refresh interval
    topic,     \* topic[t]: the bucket it is due in (0 when a search failed) and its status
    run,       \* run[k]: the row of search k, "absent", "running", "completed" or "failed"
    peer,      \* the row of each chat
    source,    \* source[p]: a source with a reference of chat p exists
    job,       \* job[k]: its state and tries
    worker,    \* the handler each process runs
    faults,    \* how many there were
    early,     \* history: chats a search found waiting for their next screen, at this count
    contested  \* history: chats whose screen lost its claim to another one

TopicRow == [due : 0..MaxBucket + 1, status : {"queued", "running", "completed", "failed"}]
RunStatus == {"absent", "running", "completed", "failed"}
PeerRow == [bucket : {"absent", "new", "known"}, by : {"none", "search", "screen"},
            private : BOOLEAN, count : 0..MaxScreens, wait : BOOLEAN,
            status : {"pending", "running", "watch", "skip", "unclear", "failed"}]
JobRow == [state : {"absent", "queued", "running", "completed", "failed"}, tries : 0..JobTries]
Handler == [pc : {"idle", "begin", "request", "screen", "return", "raise", "released"},
            key : Keys \cup {NoKey}, try : 0..JobTries, beside : BOOLEAN]

chatVars == <<bucket, topic, run, peer, source, job, worker, faults, early, contested>>

Idle == [pc |-> "idle", key |-> NoKey, try |-> 0, beside |-> FALSE]

ChatInit ==
    /\ bucket = 1
    /\ topic = [t \in Topics |-> [due |-> 0, status |-> "queued"]]
    /\ run = [k \in Searches |-> "absent"]
    /\ peer = [p \in Peers |-> [bucket |-> "absent", by |-> "none", private |-> FALSE,
                                status |-> "pending", count |-> 0, wait |-> FALSE]]
    /\ source = [p \in Peers |-> FALSE]
    /\ job = [k \in Keys |-> [state |-> "absent", tries |-> 0]]
    /\ worker = [w \in Workers |-> Idle]
    /\ faults = 0
    /\ early = {}
    /\ contested = {}

-----------------------------------------------------------------------------
(* The durable queue, as far as the handlers notice it.                    *)

Enqueued(jobs, ks) == [k \in Keys |-> IF k \in ks /\ jobs[k].state = "absent"
                                      THEN [jobs[k] EXCEPT !.state = "queued"] ELSE jobs[k]]

Owns(w) == LET k == worker[w].key
           IN  job[k].state = "running" /\ job[k].tries = worker[w].try

Goes(w, pc) == worker' = [worker EXCEPT ![w].pc = pc]

(* A worker claims a queued job, or one whose lease ran out: that of a dead *)
(* process or of a handler that does not know yet.                          *)
ClaimJob(w, k) ==
    /\ worker[w].pc = "idle"
    /\ job[k].state \in {"queued", "running"} /\ job[k].tries < JobTries
    /\ LET others == {v \in Workers : worker[v].key = k}
       IN  worker' = [v \in Workers |->
             IF v = w THEN [pc |-> "begin", key |-> k, try |-> job[k].tries + 1,
                            beside |-> others # {}]
             ELSE [worker[v] EXCEPT !.beside = @ \/ v \in others]]
           /\ faults' = faults + Cardinality(others)
           /\ faults' <= MaxFaults
    /\ job' = [job EXCEPT ![k] = [state |-> "running", tries |-> @.tries + 1]]
    /\ UNCHANGED <<bucket, topic, run, peer, source, early, contested>>

(* A lease that runs out on the last try fails the job.                    *)
LeaseExpires(k) ==
    /\ job[k].state = "running" /\ job[k].tries = JobTries
    /\ job' = [job EXCEPT ![k].state = "failed"]
    /\ UNCHANGED <<bucket, topic, run, peer, source, worker, faults, early, contested>>

(* The handler returned, raised or was cancelled: the job is settled if    *)
(* the claim still stands.                                                 *)
SettleJob(w) ==
    /\ worker[w].pc \in {"return", "raise", "released"}
    /\ LET again == IF job[worker[w].key].tries < JobTries THEN "queued" ELSE "failed"
       IN  job' = IF Owns(w)
                  THEN [job EXCEPT ![worker[w].key].state =
                          IF worker[w].pc = "return" THEN "completed" ELSE again]
                  ELSE job
    /\ worker' = [worker EXCEPT ![w] = Idle]
    /\ UNCHANGED <<bucket, topic, run, peer, source, faults, early, contested>>

Dies(w) ==
    /\ faults < MaxFaults /\ faults' = faults + 1
    /\ worker[w].pc # "idle"
    /\ worker' = [worker EXCEPT ![w] = Idle]
    /\ UNCHANGED <<bucket, topic, run, peer, source, job, early, contested>>

-----------------------------------------------------------------------------
(* Searches                                                                *)

(* Chats that wait for a screen or are in one, whatever became of them.    *)
Backlog == Cardinality({p \in Peers : /\ peer[p].bucket # "absent"
                                      /\ peer[p].status \in {"pending", "running"}})

(* schedule_due_searches, for each of its topics; the runtime calls it     *)
(* once per interval and the operator at will.                             *)
ScheduleSearch(t) ==
    /\ Backlog < ScreenLimit
    /\ topic[t].due <= bucket
    /\ job' = Enqueued(job, {SearchKey(t, bucket)})
    /\ UNCHANGED <<bucket, topic, run, peer, source, worker, faults, early, contested>>

StartSearchAnyway(w) ==  \* a completed run is not returned
    /\ worker[w].pc = "begin" /\ worker[w].key.kind = "search"
    /\ run' = [run EXCEPT ![worker[w].key] = IF @ = "completed" THEN @ ELSE "running"]
    /\ Goes(w, "request")
    /\ UNCHANGED <<bucket, topic, peer, source, job, faults, early, contested>>

(* start_search: a completed run is returned, an unfinished or failed one  *)
(* is taken up again, and only a new one marks the topic.                  *)
StartSearch(w) ==
    /\ worker[w].pc = "begin" /\ worker[w].key.kind = "search"
    /\ LET k == worker[w].key
       IN  /\ run' = [run EXCEPT ![k] = IF @ = "completed" THEN @ ELSE "running"]
           /\ topic' = IF run[k] = "absent" THEN [topic EXCEPT ![k.of].status = "running"]
                       ELSE topic
           /\ Goes(w, IF run[k] = "completed" THEN "return" ELSE "request")
    /\ UNCHANGED <<bucket, peer, source, job, faults, early, contested>>

(* finish_search: the run only if it is still running, the topic always.   *)
FinishSearch(k, outcome, when) ==
    /\ run' = [run EXCEPT ![k] = IF @ = "running" THEN outcome ELSE @]
    /\ topic' = [topic EXCEPT ![k.of] = [due |-> when, status |-> outcome]]

(* upsert_peer: the row of a chat a search met; a source found by its      *)
(* references is attached once.                                            *)
Upserted(p, private) ==
    IF peer[p].bucket = "absent"
    THEN [peer[p] EXCEPT !.bucket = IF source[p] THEN "known" ELSE "new", !.private = private]
    ELSE IF source[p] /\ peer[p].bucket = "new"
    THEN [peer[p] EXCEPT !.bucket = "known", !.by = "search"] ELSE peer[p]

NextScreenReused(p) == ScreenKey(p, IF peer[p].count = 0 THEN 1 ELSE peer[p].count)
NextScreen(p) == ScreenKey(p, peer[p].count + 1)

Screenable(entry) == entry.bucket = "new" /\ entry.status \in {"pending", "unclear", "failed"}

(* The search answered: its chats are stored, those to be screened get a   *)
(* job whether their next screen is due or not, and the run is finished.   *)
StoreSearch(w, met, private) ==
    /\ worker[w].pc = "request"
    /\ LET new == [p \in Peers |-> IF p \in met THEN Upserted(p, p \in private) ELSE peer[p]]
           todo == {p \in met : Screenable(new[p])}
       IN  /\ peer' = new
           /\ job' = Enqueued(job, {NextScreen(p) : p \in todo})
           /\ early' = early \cup {p \in todo : new[p].status # "pending" /\ new[p].wait}
    /\ FinishSearch(worker[w].key, "completed", bucket + 1)
    /\ Goes(w, "return")
    /\ UNCHANGED <<bucket, source, faults, contested>>

(* The request, a flood wait or the store failed.  Bound: a fault, unless  *)
(* another handler of the search is there.                                 *)
FailSearch(w) ==
    /\ worker[w].pc = "request"
    /\ faults' = IF worker[w].beside THEN faults ELSE faults + 1
    /\ faults' <= MaxFaults
    /\ FinishSearch(worker[w].key, "failed", 0)
    /\ Goes(w, "raise")
    /\ UNCHANGED <<bucket, peer, source, job, early, contested>>

-----------------------------------------------------------------------------
(* Screens                                                                 *)

InScreen(p) == {w \in Workers : worker[w].pc = "screen" /\ worker[w].key.of = p}

Claimable(entry) == /\ entry.bucket = "new"
                    /\ entry.status \notin {"watch", "skip"}
                    /\ ~(entry.status \in {"unclear", "failed"} /\ entry.wait)

(* claim_screen, under the lock of the row; without a claim the job is done. *)
ClaimScreen(w) ==
    /\ worker[w].pc = "begin" /\ worker[w].key.kind = "screen"
    /\ LET p == worker[w].key.of
       IN  \/ /\ ~Claimable(peer[p])
              /\ Goes(w, "return")
              /\ UNCHANGED <<peer, early, contested>>
           \/ /\ Claimable(peer[p]) /\ peer[p].count < MaxScreens
              /\ peer' = [peer EXCEPT ![p].status = "running", ![p].count = @ + 1]
              /\ Goes(w, "screen")
              /\ early' = early \ {p}
              /\ contested' = IF InScreen(p) = {} THEN contested ELSE contested \cup {p}
    /\ UNCHANGED <<bucket, topic, run, source, job, faults>>

(* finish_screen: the chat only while it is in a screen, be it another one. *)
Finished(p, outcome) ==
    IF peer[p].status = "running"
    THEN [peer[p] EXCEPT !.status = outcome, !.wait = outcome \in {"unclear", "failed"}]
    ELSE peer[p]

EndScreen(w, outcome, pc) ==
    /\ peer' = [peer EXCEPT ![worker[w].key.of] = Finished(worker[w].key.of, outcome)]
    /\ Goes(w, pc)
    /\ UNCHANGED <<bucket, topic, run, source, job, faults, early, contested>>

SkipPrivate(w) == /\ worker[w].pc = "screen" /\ peer[worker[w].key.of].private
                  /\ EndScreen(w, "skip", "return")

NoProvider(w) == /\ worker[w].pc = "screen" /\ ~peer[worker[w].key.of].private
                 /\ w \notin HasProvider
                 /\ EndScreen(w, "failed", "return")

(* Its recent history is read and classified.                              *)
Screens(w) == /\ worker[w].pc = "screen" /\ ~peer[worker[w].key.of].private
              /\ w \in HasProvider

Decide(w) == Screens(w) /\ \E s \in {"skip", "unclear"} : EndScreen(w, s, "return")

(* A chat worth watching is made a source in the transaction of the        *)
(* decision, whatever became of the chat's row.                            *)
Watch(w) ==
    /\ Screens(w)
    /\ LET p == worker[w].key.of
       IN  /\ peer' = [peer EXCEPT ![p] =
                         [Finished(p, "watch") EXCEPT !.bucket = "known", !.by = "screen"]]
           /\ source' = [source EXCEPT ![p] = TRUE]
    /\ Goes(w, "return")
    /\ UNCHANGED <<bucket, topic, run, job, faults, early, contested>>

(* The history, the provider or the store failed.                          *)
FailScreen(w) == Screens(w) /\ EndScreen(w, "failed", "raise")

ReleasedAlways(p) == [peer[p] EXCEPT !.status = "pending"]  \* whatever the status

(* release_screen_claim, reclaim_orphaned_screens: a claim is withdrawn.   *)
Released(p) == IF peer[p].status = "running"
               THEN [peer[p] EXCEPT !.status = "pending", !.wait = FALSE] ELSE peer[p]

(* The handler is cancelled, by the shutdown or when its claim is lost.  A *)
(* search leaves its run as it is; a screen releases the chat.             *)
Cancel(w) ==
    /\ faults < MaxFaults /\ faults' = faults + 1
    /\ worker[w].pc \in {"begin", "request", "screen", "return"}
    /\ LET p == worker[w].key.of
       IN  IF worker[w].key.kind = "screen"
           THEN /\ peer' = [peer EXCEPT ![p] = Released(p)]
                /\ contested' = IF InScreen(p) \subseteq {w} THEN contested
                                ELSE contested \cup {p}
           ELSE UNCHANGED <<peer, contested>>
    /\ Goes(w, "released")
    /\ UNCHANGED <<bucket, topic, run, source, job, early>>

(* enqueue_pending_screens, an operator's command: claims without a        *)
(* running job of their count are withdrawn, then what is due is enqueued. *)
ScreenPending ==
    LET orphaned == {p \in Peers : /\ peer[p].status = "running"
                                   /\ job[ScreenKey(p, peer[p].count)].state # "running"}
        new == [p \in Peers |-> IF p \in orphaned THEN Released(p) ELSE peer[p]]
        ready == {p \in Peers : /\ Screenable(new[p])
                                /\ new[p].status = "pending" \/ ~new[p].wait}
    IN  /\ peer' = new
        /\ job' = Enqueued(job, {NextScreen(p) : p \in ready})
        /\ contested' = contested \cup {p \in orphaned : InScreen(p) # {}}
        /\ UNCHANGED <<bucket, topic, run, source, worker, faults, early>>

-----------------------------------------------------------------------------
(* Time passes, and other discoveries create sources.                      *)
NextBucket == /\ bucket < MaxBucket /\ bucket' = bucket + 1
              /\ UNCHANGED <<topic, run, peer, source, job, worker, faults, early, contested>>

ScreenDue(p) == /\ peer[p].wait /\ peer' = [peer EXCEPT ![p].wait = FALSE]
                /\ UNCHANGED <<bucket, topic, run, source, job, worker, faults, early, contested>>

SourceAppears(p) == /\ ~source[p] /\ source' = [source EXCEPT ![p] = TRUE]
                    /\ UNCHANGED <<bucket, topic, run, peer, job, worker, faults, early, contested>>

ChatNext ==
    \/ \E w \in Workers :
         \/ \E k \in Keys : ClaimJob(w, k)
         \/ SettleJob(w) \/ Dies(w) \/ Cancel(w)
         \/ StartSearch(w) \/ FailSearch(w)
         \/ \E met, private \in SUBSET Peers : StoreSearch(w, met, private)
         \/ ClaimScreen(w) \/ SkipPrivate(w) \/ NoProvider(w)
         \/ Decide(w) \/ Watch(w) \/ FailScreen(w)
    \/ \E k \in Keys : LeaseExpires(k)
    \/ \E t \in Topics : ScheduleSearch(t)
    \/ \E p \in Peers : ScreenDue(p) \/ SourceAppears(p)
    \/ ScreenPending \/ NextBucket

ChatSpec == ChatInit /\ [][ChatNext]_chatVars

-----------------------------------------------------------------------------
(* The rows are those the tables allow, and a handler is in a step of the  *)
(* kind of its job.                                                        *)
ChatTypeOK ==
    /\ bucket \in 1..MaxBucket
    /\ topic \in [Topics -> TopicRow]
    /\ run \in [Searches -> RunStatus]
    /\ peer \in [Peers -> PeerRow]
    /\ source \in [Peers -> BOOLEAN]
    /\ job \in [Keys -> JobRow]
    /\ worker \in [Workers -> Handler]
    /\ \A w \in Workers :
         /\ worker[w].pc # "idle" => worker[w].key \in Keys
         /\ worker[w].pc = "request" => worker[w].key.kind = "search"
         /\ worker[w].pc = "screen" => worker[w].key.kind = "screen"
    /\ faults \in 0..MaxFaults
    /\ early \subseteq Peers /\ contested \subseteq Peers

(* A chat that screening made a source ends as watched: another outcome    *)
(* stays on its row only if two screens of it ran at once or the claim of  *)
(* one was withdrawn under it (finish_screen, attach_source).              *)
WatchedUnlessContested ==
    \A p \in Peers : peer[p].by = "screen" => peer[p].status = "watch" \/ p \in contested

(* A chat that still is to be screened can be: the job of its next screen  *)
(* is not used up, unless a search met the chat while it waited for its    *)
(* retry or the job failed before it claimed the chat (enqueue of          *)
(* peer:attempt:n returns the finished job).                               *)
NextScreenIsLeft ==
    \A p \in Peers :
        /\ Screenable(peer[p]) /\ peer[p].count < MaxScreens
        /\ job[NextScreen(p)].state = "completed"
        => p \in early

(* Telegram is not asked again for a search that is completed, unless two  *)
(* handlers of the search ran side by side (start_search, finish_search).  *)
CompletedSearchIsOver ==
    \A w \in Workers :
        worker[w].pc = "request" /\ run[worker[w].key] = "completed" => worker[w].beside
=============================================================================
