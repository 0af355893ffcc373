------------------------------ MODULE Pipeline ------------------------------
(***************************************************************************)
(* From a Telegram message to a canonical opportunity: the ingestor of     *)
(* persistence/raw_messages.py, the prefilter with its exact dedup         *)
(* (message_prefilter.py), the analysis with its cache                     *)
(* (opportunity_classifier.py) and the deduplication of opportunities      *)
(* (persistence/opportunities.py).  The stages are handlers of durable     *)
(* jobs: a job is tried again when a try fails or loses its lease, and a   *)
(* try that lost it goes on until it ends (DurableWorker has the details). *)
(* An opportunity is named by the cache entry it was created for.          *)
(***************************************************************************)
EXTENDS Integers, FiniteSets

CONSTANTS
  Messages,        \* (source, external_message_id) pairs
  Content,         \* normalized content of each message; None is empty or a service event
  ReplyTo,         \* the message each one replies to, or None
  Near,            \* pairs of different texts above the near-duplicate threshold
  Answers,         \* analyses an analyzer may give: tasks, and NoDemand
  NoDemand,        \* is_opportunity is false
  Handlers,        \* handler tasks, in any number of processes
  MaxTries,        \* max_attempts of each job
  DedupWindow,     \* ExactDedupPolicy.window
  OpportunityWindow,  \* OpportunityDedupPolicy.window
  MaxTime,         \* bound of the clock
  None

\* Exact text, and text of the direct parent: the compatibility key of dedup and cache.
KeyOf(m, parent) == <<Content[m], IF parent = None THEN "no parent" ELSE Content[parent]>>
Keys == LET texts == {m \in Messages : Content[m] # None}
        IN  {KeyOf(m, None) : m \in texts} \cup {KeyOf(m, ReplyTo[m]) : m \in texts}
Time == 0..MaxTime
Jobs == {"raw", "analysis"} \X Messages  \* an analysis job is keyed by a raw message
PrefilterResult == [parent : Messages \cup {None}, canonical : Messages \cup {None}, at : Time]
Opportunity == [first : Time, last : Time, answer : Answers \ {NoDemand}]

ASSUME PipelineAssumption ==
  /\ ReplyTo \in [Messages -> Messages \cup {None}]
  /\ \A m \in Messages : ReplyTo[m] # m
  /\ None \notin Messages \cup Answers /\ None \notin Keys /\ None \notin Jobs
  /\ None \notin Time /\ None \notin PrefilterResult /\ None \notin Opportunity
  /\ \A p \in Near : <<p[2], p[1]>> \in Near
  /\ MaxTries \in [Jobs -> Nat \ {0}]
  /\ {DedupWindow, OpportunityWindow} \subseteq Nat \ {0}
  /\ MaxTime \in Nat

VARIABLES
  now,          \* the clock
  raw,          \* raw_messages: observed_at by message
  result,       \* message_prefilter_results by message
  cache,        \* opportunity_analysis_cache by key
  link,         \* opportunity_analysis_links: the opportunity of a cache entry
  opp,          \* opportunities by the key they were created for
  source,       \* opportunity_source_messages: the opportunity of a message
  matching,     \* opportunities whose matching job has been enqueued
  job,          \* status and number of tries of each job
  handler,      \* the handler tasks
  overtaken,    \* history: keys two handlers have analysed at once
  late          \* history: duplicates routed after their text had been analysed, or an
                \* analysis had listed what is routed to its message

stored == <<raw, result, cache, link, opp, source, matching>>
history == <<overtaken, late>>
vars == <<now, stored, job, handler, history>>

Idle == [job |-> None, try |-> 0, step |-> "idle", began |-> 0, parent |-> None,
         answer |-> None, miss |-> FALSE, messages |-> {}]

Init ==
  /\ now = 0
  /\ raw = [m \in Messages |-> None]
  /\ result = [m \in Messages |-> None]
  /\ cache = [k \in Keys |-> None]
  /\ link = [k \in Keys |-> None]
  /\ opp = [k \in Keys |-> None]
  /\ source = [m \in Messages |-> None]
  /\ matching = {}
  /\ job = [j \in Jobs |-> [status |-> "absent", tries |-> 0]]
  /\ handler = [h \in Handlers |-> Idle]
  /\ overtaken = {} /\ late = {}

-----------------------------------------------------------------------------
(* Jobs and their handlers *)

SubmittedRawOnly(j) ==  \* the prefilter does not enqueue an analysis
  IF job[j].status = "absent" /\ j[1] = "raw" THEN [job EXCEPT ![j].status = "open"] ELSE job
Submitted(j) == IF job[j].status = "absent" THEN [job EXCEPT ![j].status = "open"] ELSE job

KeyOfResult(m) == KeyOf(m, result[m].parent)
Passed(m) == result[m] # None /\ result[m].canonical # None
Canonical(m) == Passed(m) /\ result[m].canonical = m

Runs(h, type, step) == handler[h].step = step /\ handler[h].job[1] = type
MessageOf(h) == handler[h].job[2]

Analyses(h, k) ==
  /\ handler[h].job # None /\ handler[h].job[1] = "analysis"
  /\ handler[h].step # "idle" /\ KeyOfResult(MessageOf(h)) = k

\* A worker claims a job that is pending, or whose last try failed or lost its lease.
Starts(h, j) ==
  /\ handler[h] = Idle
  /\ job[j].status = "open" /\ job[j].tries < MaxTries[j]
  /\ job' = [job EXCEPT ![j].tries = @ + 1]
  /\ handler' = [handler EXCEPT ![h] = [Idle EXCEPT !.job = j, !.step = "started",
                                                    !.try = job[j].tries + 1]]
  /\ overtaken' =
       IF j[1] = "analysis" /\ \E g \in Handlers : Analyses(g, KeyOfResult(j[2]))
       THEN overtaken \cup {KeyOfResult(j[2])} ELSE overtaken
  /\ UNCHANGED <<now, stored, late>>

\* The last try has failed or lost its lease.
GivesUp(j) ==
  /\ job[j].status = "open" /\ job[j].tries = MaxTries[j]
  /\ job' = [job EXCEPT ![j].status = "given up"]
  /\ UNCHANGED <<now, stored, handler, history>>

\* The handler returns; the worker then completes the job, if the claim is still its own.
Returns(h) ==
  handler' = [handler EXCEPT ![h] = [Idle EXCEPT !.job = handler[h].job, !.try = handler[h].try,
                                                 !.step = "returned"]]

Completes(h) ==
  LET j == handler[h].job IN
  /\ handler[h].step = "returned"
  /\ job' = IF job[j] = [status |-> "open", tries |-> handler[h].try]
            THEN [job EXCEPT ![j].status = "done"] ELSE job
  /\ handler' = [handler EXCEPT ![h] = Idle]
  /\ UNCHANGED <<now, stored, history>>

\* The handler raises, its transaction rolls back, or its process dies.
Raises(h) ==
  /\ handler' = [handler EXCEPT ![h] = Idle]
  /\ UNCHANGED <<now, stored, job, history>>

Fails(h) == handler[h].step # "idle" /\ Raises(h)

Goes(h, step) == handler' = [handler EXCEPT ![h].step = step]

-----------------------------------------------------------------------------
(* Ingestion and prefilter *)

\* Live event or catch-up: the row and its job in one transaction; a message that is
\* there already is returned as it is.
Ingests(m) ==
  /\ raw[m] = None
  /\ raw' = [raw EXCEPT ![m] = now]
  /\ job' = Submitted(<<"raw", m>>)
  /\ UNCHANGED <<now, result, cache, link, opp, source, matching, handler, history>>

Parent(m) ==
  IF ReplyTo[m] # None /\ raw[ReplyTo[m]] # None THEN ReplyTo[m] ELSE None

Rejected == [parent |-> None, canonical |-> None, at |-> 0]

Prefilters(h) ==
  LET m == MessageOf(h) IN
  /\ Runs(h, "raw", "started")
  /\ IF result[m] # None \/ Content[m] = None
     THEN /\ result' = [result EXCEPT ![m] = IF @ = None THEN Rejected ELSE @]
          /\ Returns(h)
     ELSE /\ handler' = [handler EXCEPT ![h].step = "routing", ![h].began = now,
                                        ![h].parent = Parent(m)]
          /\ UNCHANGED result
  /\ UNCHANGED <<now, raw, cache, link, opp, source, matching, job, history>>

NoneIsRecent(k, began) == {}  \* lock_exact_key dropped: nothing uncommitted is found

Recent(k, began) ==
  {c \in Messages : Canonical(c) /\ KeyOfResult(c) = k /\ result[c].at >= began - DedupWindow}

Latest(messages) == CHOOSE c \in messages : \A d \in messages : result[c].at >= result[d].at

UnroutedOnce(m) == TRUE  \* the result is not looked for again under the lock
Unrouted(m) == result[m] = None

Listed(c) == \E g \in Handlers : Runs(g, "analysis", "linking") /\ MessageOf(g) = c

\* _route_exact_content and record, under the advisory lock of the exact key up to the
\* commit; created_at is the start of the transaction.
Routes(h) ==
  LET m == MessageOf(h)
      parent == handler[h].parent
      recent == Recent(KeyOf(m, parent), handler[h].began)
      canonical == IF recent = {} THEN m ELSE Latest(recent)
  IN
  /\ Runs(h, "raw", "routing") /\ Unrouted(m)
  /\ result' = [result EXCEPT ![m] = [parent |-> parent, canonical |-> canonical,
                                      at |-> handler[h].began]]
  /\ job' = IF canonical = m THEN Submitted(<<"analysis", m>>) ELSE job
  /\ late' = IF canonical # m /\ (cache[KeyOf(m, parent)] # None \/ Listed(canonical))
             THEN late \cup {m} ELSE late
  /\ Returns(h)
  /\ UNCHANGED <<now, raw, cache, link, opp, source, matching, overtaken>>

\* Another handler has routed the message meanwhile: its result is taken, or contradicts
\* this one's (PrefilterResultConflict) when the parent came in between.
FindsResult(h) ==
  LET m == MessageOf(h) IN
  /\ Runs(h, "raw", "routing") /\ ~Unrouted(m)
  /\ IF result[m].parent = handler[h].parent
     THEN Returns(h) /\ UNCHANGED <<now, stored, job, history>>
     ELSE Raises(h)

-----------------------------------------------------------------------------
(* Analysis *)

KeyOfJob(h) == KeyOfResult(MessageOf(h))

LoadsAlwaysMissing(h) ==  \* _load_state does not look into the cache
  /\ Runs(h, "analysis", "started")
  /\ Goes(h, "asking")
  /\ UNCHANGED <<now, stored, job, history>>

Loads(h) ==
  /\ Runs(h, "analysis", "started")
  /\ handler' = IF cache[KeyOfJob(h)] # None
                THEN [handler EXCEPT ![h].step = "persisting",
                                     ![h].answer = cache[KeyOfJob(h)]]
                ELSE [handler EXCEPT ![h].step = "asking"]
  /\ UNCHANGED <<now, stored, job, history>>

\* The analyzer answers, and the transaction that follows looks into the cache again.
GetsAnswer(h) ==
  /\ Runs(h, "analysis", "asking")
  /\ \E answer \in Answers :
       handler' = [handler EXCEPT ![h].step = "persisting", ![h].answer = answer,
                                  ![h].miss = cache[KeyOfJob(h)] = None]
  /\ UNCHANGED <<now, stored, job, history>>

\* store_for_prefilter_result waits for an insert of the key that is not committed, and
\* finds another result under the key (AnalysisCacheConflict).
MayStore(h) ==
  handler[h].miss => ~\E g \in Handlers \ {h} : /\ Runs(g, "analysis", "linking") /\ handler[g].miss
                                                /\ KeyOfJob(g) = KeyOfJob(h)
StoreConflicts(h) ==
  handler[h].miss /\ cache[KeyOfJob(h)] \notin {None, handler[h].answer}
Settles(h) == Runs(h, "analysis", "persisting") /\ MayStore(h)

StoredNever(h) == cache  \* the result is not cached
Stored(h) ==
  IF handler[h].miss THEN [cache EXCEPT ![KeyOfJob(h)] = handler[h].answer] ELSE cache

FindsConflict(h) == Settles(h) /\ StoreConflicts(h) /\ Raises(h)

PersistsNoDemand(h) ==
  /\ Settles(h) /\ ~StoreConflicts(h) /\ handler[h].answer = NoDemand
  /\ cache' = Stored(h)
  /\ Returns(h)
  /\ UNCHANGED <<now, raw, result, link, opp, source, matching, job, history>>

-----------------------------------------------------------------------------
(* The canonical opportunity: ensure_from_analysis under its advisory lock *)

\* list_for_analysis_job
RoutedToSelf(m) == {m}  \* the duplicates are not linked
RoutedTo(m) == {x \in Messages : Passed(x) /\ result[x].canonical = m}

\* The messages are listed before the rows and the lock that the rest of the transaction
\* waits for; the cache entry is inserted, and not committed.
ListsMessages(h) ==
  /\ Settles(h) /\ ~StoreConflicts(h) /\ handler[h].answer # NoDemand
  /\ handler' = [handler EXCEPT ![h].step = "linking", ![h].messages = RoutedTo(MessageOf(h)),
                                ![h].miss = @ /\ cache[KeyOfJob(h)] = None]
  /\ UNCHANGED <<now, stored, job, history>>

FirstSeen(messages) == CHOOSE t \in {raw[m] : m \in messages} : \A m \in messages : t <= raw[m]
LastSeen(messages) == CHOOSE t \in {raw[m] : m \in messages} : \A m \in messages : t >= raw[m]

InWindow(o, messages) ==
  /\ opp[o].first >= FirstSeen(messages) - OpportunityWindow
  /\ opp[o].first <= LastSeen(messages) + OpportunityWindow

Linked(k, messages) ==
  {l \in Keys \ {k} : link[l] # None /\ InWindow(link[l], messages)}

\* _find_duplicate: equal text first and of these the earliest opportunity, then near
\* text, then the same task; similarities are not compared, any of the candidates may
\* be the best.
Duplicates(k, messages, answer) ==
  LET linked == Linked(k, messages)
      exact == {l \in linked : l[1] = k[1]}
      near == {l \in linked : <<l[1], k[1]>> \in Near}
      structured == {l \in linked : opp[link[l]].answer = answer}
  IN  IF exact # {}
      THEN {link[l] : l \in {e \in exact : \A f \in exact :
                               opp[link[e]].first <= opp[link[f]].first}}
      ELSE {link[l] : l \in IF near # {} THEN near ELSE structured}

\* The opportunity the analysis belongs to; k itself is one to be created.
Homes(k, messages, answer) ==
  LET duplicates == Duplicates(k, messages, answer)
  IN  IF link[k] # None THEN {link[k]}
      ELSE IF duplicates = {} THEN {k} ELSE duplicates

Observed(o, messages) ==
  [opp[o] EXCEPT !.first = IF @ < FirstSeen(messages) THEN @ ELSE FirstSeen(messages),
                 !.last = IF @ > LastSeen(messages) THEN @ ELSE LastSeen(messages)]

Created(messages, answer) ==
  [first |-> FirstSeen(messages), last |-> LastSeen(messages), answer |-> answer]

Enqueued(o) == matching \cup {o}

\* From the rows and the lock to the commit.
PersistsDemand(h) ==
  LET k == KeyOfJob(h)
      messages == handler[h].messages
      unlinked == {m \in messages : source[m] = None}
      answer == handler[h].answer
  IN
  /\ Runs(h, "analysis", "linking")
  /\ \E o \in Homes(k, messages, answer) :
       IF \A m \in messages : source[m] \in {None, o}
       THEN /\ cache' = Stored(h)
            /\ link' = [link EXCEPT ![k] = o]
            /\ opp' = [opp EXCEPT ![o] =
                         IF @ = None THEN Created(messages, answer)
                         ELSE IF unlinked # {} THEN Observed(o, messages) ELSE @]
            /\ source' = [m \in Messages |-> IF m \in messages THEN o ELSE source[m]]
            /\ matching' = Enqueued(o)
            /\ Returns(h)
            /\ UNCHANGED <<now, raw, result, job, history>>
       ELSE Raises(h)   \* OpportunityLinkConflict

Tick ==
  /\ now < MaxTime
  /\ now' = now + 1
  /\ UNCHANGED <<stored, job, handler, history>>

HandlerStep(h) ==
  \/ Completes(h) \/ Fails(h) \/ Prefilters(h) \/ Routes(h) \/ FindsResult(h)
  \/ Loads(h) \/ GetsAnswer(h) \/ FindsConflict(h) \/ PersistsNoDemand(h)
  \/ ListsMessages(h) \/ PersistsDemand(h)

Next ==
  \/ Tick
  \/ \E m \in Messages : Ingests(m)
  \/ \E j \in Jobs : GivesUp(j) \/ \E h \in Handlers : Starts(h, j)
  \/ \E h \in Handlers : HandlerStep(h)

Spec == Init /\ [][Next]_vars

-----------------------------------------------------------------------------
(* What the tables hold: their columns, foreign keys and check constraints *)

\* Every message has the job that processes it (processing_job_id, unique).
RawMessages ==
  /\ raw \in [Messages -> Time \cup {None}]
  /\ \A m \in Messages : raw[m] # None <=> job[<<"raw", m>>].status # "absent"

\* outcome_consistent and parent_differs: what passed has a canonical result with an
\* analysis job, what was rejected has neither of them nor a parent.
PrefilterResults ==
  /\ result \in [Messages -> {None, Rejected}
                     \cup [parent : Messages \cup {None}, canonical : Messages, at : Time]]
  /\ \A m \in Messages : result[m] # None => raw[m] # None /\ result[m].parent # m
  /\ \A m \in Messages : Passed(m) =>
       /\ Canonical(result[m].canonical)
       /\ job[<<"analysis", result[m].canonical>>].status # "absent"
       /\ result[m].parent # None => raw[result[m].parent] # None

AnalysisCache == cache \in [Keys -> Answers \cup {None}]

\* seen_window_valid, and a demand in each of them
Opportunities ==
  opp \in [Keys -> {None} \cup {o \in Opportunity : o.first <= o.last}]

AnalysisLinks ==
  /\ link \in [Keys -> Keys \cup {None}]
  /\ \A k \in Keys : link[k] # None => cache[k] # None /\ opp[link[k]] # None

SourceMessages ==
  /\ source \in [Messages -> Keys \cup {None}]
  /\ \A m \in Messages : source[m] # None => raw[m] # None /\ opp[source[m]] # None

MatchingJobs == matching = {k \in Keys : opp[k] # None}

TypeOK ==
  /\ now \in Time
  /\ RawMessages /\ PrefilterResults /\ AnalysisCache
  /\ Opportunities /\ AnalysisLinks /\ SourceMessages /\ MatchingJobs
  /\ job \in [Jobs -> [status : {"absent", "open", "done", "given up"}, tries : Nat]]
  /\ \A h \in Handlers : handler[h].job # None =>
       handler[h].try \in 1..MaxTries[handler[h].job] /\ handler[h].messages \subseteq Messages
  /\ overtaken \subseteq Keys /\ late \subseteq Messages

-----------------------------------------------------------------------------
(* Properties *)

\* However many handlers prefilter at once, and whatever transactions overlap: canonical
\* results of one text and parent lie further apart than the window, and a duplicate
\* refers to a canonical result of the same text and parent, no older than the window, that
\* has an analysis job.
OneCanonicalPerWindow ==
  /\ \A m \in Messages : Passed(m) =>
       LET c == result[m].canonical
       IN  Canonical(c) /\ KeyOfResult(c) = KeyOfResult(m) /\ job[<<"analysis", c>>].status # "absent"
  /\ \A m, c \in Messages : Passed(m) /\ Canonical(c) /\ KeyOfResult(m) = KeyOfResult(c) =>
    /\ m # c /\ Canonical(m) =>
         result[m].at - result[c].at > DedupWindow \/ result[c].at - result[m].at > DedupWindow
    /\ result[m].canonical = c => result[m].at - result[c].at <= DedupWindow

\* A message belongs to the opportunity of its analysis, so a retry, a stale handler or a
\* second canonical of the text never finds it linked elsewhere: OpportunityLinkConflict
\* cannot happen.
SourcesFollowLinks ==
  /\ \A m \in Messages : source[m] # None => Passed(m) /\ source[m] = link[KeyOfResult(m)]
  /\ \A k \in Keys : link[k] # None => cache[k] # None /\ opp[link[k]] # None
                                       /\ link[link[k]] = link[k]

\* An opportunity contradicts the cache entry it stands for only where two handlers have
\* analysed the text at once: the later one keeps its own answer and the other's entry.
CacheContradictedOnlyIfOvertaken ==
  \A k \in Keys : link[k] # None /\ cache[k] = NoDemand => k \in overtaken

\* A message whose analysis is done and found demand belongs to the opportunity, unless it
\* came after the analysis, or while one waited with its list of messages for the rows and
\* the lock: such a duplicate is never linked, and never seen by matching.
UnlinkedOnlyIfLate ==
  \A m \in Messages :
    /\ Passed(m) /\ KeyOfResult(m) \notin overtaken
    /\ job[<<"analysis", result[m].canonical>>].status = "done"
    /\ link[KeyOfResult(m)] # None /\ source[m] = None
    => m \in late

Quiet ==
  /\ \A h \in Handlers : handler[h] = Idle
  /\ \A j \in Jobs : job[j].status # "open"

\* When the queue has come to rest, every message that was ingested is rejected, or its text
\* is analysed, or its own job or the one of its canonical message was given up: retries,
\* takeovers and the results of other handlers lose none of them.  The tries are bounded, so
\* a queue that is served does come to rest.
MessagesAreAnswered ==
  Quiet => \A m \in Messages : raw[m] # None =>
    \/ job[<<"raw", m>>].status = "given up"
    \/ result[m] # None /\ result[m].canonical = None
    \/ /\ Passed(m)
       /\ \/ cache[KeyOfResult(m)] # None
          \/ job[<<"analysis", result[m].canonical>>].status = "given up"
=============================================================================
