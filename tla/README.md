# Verification of freelancer_bot

TLA+ specifications of the concurrent and persistent core of freelancer_bot (a Telegram bot that collects freelance
opportunities, analyses and matches them and delivers them to subscribers), the TLC models that check them, and TLAPS
proofs. The program is asyncio Python over PostgreSQL (READ COMMITTED, one transaction per `database.transaction()`
block, `now()` is the start of the transaction).

## 1. The system

State lives in PostgreSQL; several processes (pipeline worker, bot, operator CLI, background services) act on it. They
talk through tables, and above all through the durable job queue.

| Component | State | Operations | What is hard |
|---|---|---|---|
| Durable job queue (`persistence/jobs.py`) and worker (`worker.py`) | `durable_jobs` rows: state, attempts, availability, lease | enqueue, claim_next, complete, fail, release_for_shutdown, renew_lease; poll loop, handler, heartbeat, drain | leases that lapse under a running handler, stale workers, crashes, stops, cancellation |
| Personalized delivery (`delivery.py`, `persistence/deliveries.py`), its buttons (`persistence/delivery_actions.py`, `persistence/feedback.py`) | `personalized_deliveries`, action and feedback events | schedule, prepare_attempt, Telegram send, mark_sent, mark_attempt_failed, record an action | the send is outside the transaction; two attempts in flight; buttons of a card whose row is still `sending` |
| Ingestion (`persistence/raw_messages.py`, `message_prefilter.py`, `persistence/message_prefilter.py`) | raw messages, prefilter results, analysis cache | ingest, prefilter, exact dedup | duplicates in flight, jobs shared by duplicates |
| Opportunity analysis (`opportunity_classifier.py`, `persistence/opportunities.py`) | opportunities, links, source messages | analyse, persist, find duplicates | at-least-once analysis, re-observation |
| Matching (`matching_delivery.py`, `profile_rematch.py`, `matching_service.py`, `match_decisions.py`, `matching.py`, `persistence/matches.py`) | match runs and traces | match one opportunity, rematch one profile | revisions that move under a match, swallowed failures |
| Search profiles (`persistence/search_profiles.py`, `profile_confirmation.py`) | profiles, revisions | settings, confirm, activate, deactivate | one active profile, rematch on activation |
| Profile onboarding (`telegram_onboarding.py`, `profile_onboarding*.py`) | drafts, analysis cache, open prompt | describe, edit, confirm, cancel | two messages of one user at once, buttons of old revisions |
| Subscriptions and payments (`persistence/subscriptions.py`, `persistence/payments.py`, `billing.py`, `persistence/entitlements.py`) | subscription state, events, periods, payment events | reconcile, pause, resume, cancel, record_verified_event | time read before the lock, repeated and conflicting webhooks |
| Telegram request governor (`telegram_request_governor.py`, `persistence/telegram_operation_state.py`) | one operation state per collector account | reserve, run, finish | lease without heartbeat, late answers, FloodWait |
| AI spend guard (`ai_telemetry.py`, `persistence/ai_telemetry.py`) | AI call records | begin (reserve), finish | concurrent reservations against a limit |
| Sources (`persistence/source_repository.py`, `source_audit.py`, `source_reaudit.py`, `source_discovery_runtime.py`) | lifecycle, audits, monitored catalog | audit, re-audit, override, reload | two audits of one source, wake lost, decision over stale reads |
| Discovery (`discovery_runner.py`, `persistence/discovery.py`, three providers) | runs, results, sources, reference aliases | run, record, fail | two transactions of runs that meet on unique indexes |
| Telegram chat discovery (`telegram_chat_discovery.py`) | topics, search runs, chats, screens and their jobs | search, screen, approve, reclaim | jobs re-planned, lost leases, withdrawal |
| Global source library (`global_source_library.py`, `source_bootstrap.py`, `persistence/discovery_campaigns.py`, `telegram_source_validation.py`) | campaigns, queries, reservations; references, validations and evidence of sources | plan, run a batch, pause, resume, reserve a paid request; record evidence, validate a source, rank candidates, count | batches claimed at once, pause against a batch in progress; what is known of one chat under several references |
| Web providers (`web_discovery.py`, `web_provider_chain.py`, `web_page_extraction.py`, `global_web_discovery.py`, `persistence/web_provider_health.py`) | provider health | fallback, reservation, search, backoff, restart | last write wins; one failure of several ends a run |
| Runtime (`app.py`, `ingestion_runtime.py`, `collector_only.py`, `telegram_collector.py`) | processes | start, stop, catch-up | order of start and stop |
| Legacy pipeline (`storage.py`, SQLite) | leads | reserve, deliver | sequential |
| Bot menus, tooling (`operator_cli.py`, `evaluation_*.py`, metrics, `config.py`, migrations) | - | - | not concurrent |

What makes each part correct (the names are the properties of section 3):

* Durable jobs and worker: attempts fence off stale workers (`AttemptsAreUnique`), a worker that renews in time keeps its claim
  (`HeartbeatKeepsClaim`) and so is the only one to run the job, the queue keeps the contract producers rely on
  (`ImplementsContract`), every job ends (`EveryJobSettles`).
* Delivery: a job never completes with its delivery open (`CompletedJobSettledDelivery`), a row that says sent, and feedback on
  it, name a message that went out (`SentAttemptWasDelivered`), a worker with a fresh heartbeat owns the row it sends for
  (`FreshAttemptOwnsRow`).
* Subscriptions and payments: evidence and history are not rewritten (`HistoryIsImmutable`), access needs grounds and follows from
  them (`AccessFollowsEvidence`), pause and cancel hold until a resume (`StoppedUntilResumed`), repeated webhooks do not
  deadlock (`DuplicatesDoNotDeadlock`).
* Request governor: overlap needs an overrun (`OverlapNeedsOverrun`), waits Telegram asked for bind everyone (`FloodWaitHonoured`,
  `PacingHonoured`), the gate reopens (`GateReopens`).
* AI spend: limits hold under concurrency (`LimitsHold`). Paid Web requests likewise (`BudgetHolds`).
* Ingestion and analysis: one canonical message per text and window (`OneCanonicalPerWindow`), sources follow the link of their analysis
  (`SourcesFollowLinks`), every message is answered (`MessagesAreAnswered`), and races leave no
  other trace than the two named ones (`CacheContradictedOnlyIfOvertaken`, `UnlinkedOnlyIfLate`).
* Profiles and matching: one active profile (`OneActiveProfile`), an activation is followed by a rematch (`ActivationIsMatched`), a
  pair of profile and opportunity that fits gets its delivery except for the named ends (`NobodyIsLeftOut`).
* Onboarding: no accepted edit is overwritten (`EditsAreNotLost`), what was confirmed is what was shown (`ConfirmedAsShown`), drafts
  carry the analysis of their description (`DraftKeepsItsAnalysis`), a prompt is not closed by another message
  (`PromptStaysOpen`).
* Discovery: a source has one creator (`EverySourceHasOneCreator`) that owns its references (`NewSourceOwnsItsReferences`,
  `AliasesMoveOnlyInOverlap`). Chat discovery: outcomes stay (`WatchedUnlessContested`), another screen follows
  (`NextScreenIsLeft`), a search that is completed is over (`CompletedSearchIsOver`).
* Sources: an override stands until the next re-audit reads it (`OverridesStand`), health follows the audit that counts
  (`HealthFollowsReaudit`), approved sources are monitored in the end (`ApprovedIsMonitored`).
* Campaigns: a campaign goes on until it is done or stopped (`CampaignGoesOn`), a pause holds (`PauseHolds`).
* Library and Web providers: what was found of a source stays, is stored once and is counted once; a backend that refused is left alone
  until its time, across restarts (the ASSUMEs of `MCCampaign`, section 3).

Code conventions the models rely on. A `database.transaction()` block is one action where nothing else can be observed
between its statements (a row or advisory lock is held to the commit), and several actions where something can.
`now()` inside a transaction is its start, so modules with several steps per transaction carry that time along. Deadlines are
kept as the time left until them where that suffices, which keeps the clocks of the models finite.

## 2. Modules

| Module | Models | Composes |
|---|---|---|
| `DurableJobs` | the table `durable_jobs` and the operations of `persistence/jobs.py` as relations on its rows | - |
| `DurableWorker` | the processes of `worker.py`: loop, handler, heartbeat, stop, drain, cancellation, crash, restart | extends `DurableJobs`, implements `JobContract` |
| `JobContract` | what a producer of jobs may rely on, without workers, leases or clocks | - |
| `Delivery` | `personalized_deliveries`, the delivery processor as the handler of a job, the buttons of the card | extends `DurableWorker` |
| `Subscription` | trial, payment events, paid periods and the subscription row of one user; transactions that overlap | - |
| `RequestGovernor` | the gate in front of the Telegram requests of one collector account | - |
| `AnalysisSpend` | AI calls of several analyses: spend guard, record, retries, fallback | - |
| `Pipeline` | raw message, exact dedup, analysis cache, canonical opportunity, matching job | jobs as `JobContract` promises them |
| `MatchRules` | the pure rules of matching: narrowing, hard filters, scores, threshold, ranking | evaluated in `MCMatching` |
| `Matching` | profiles and revisions, activation, matching and rematching jobs, traces, deliveries | takes the pairs `MatchRules` accepts |
| `Onboarding` | drafts of one user: description, analysis cache, edits, settings, confirmation, prompts | - |
| `Discovery` | discovery runs, sources, references: two transactions per run, unique indexes | - |
| `ChatDiscovery` | topics, search runs, chats, screens and their jobs | jobs as `JobContract` promises them |
| `Sources` | lifecycle, audits, re-audits, overrides, discovery loop, collector reload | - |
| `SourceRules` | the pure rules of sources: sampling, evidence, decision, re-audit schedule, activity, catalog | evaluated in `MCSources` |
| `OpportunityRules` | the pure rules of opportunities: near and structured duplicates, lifecycle, preferred source, lists | evaluated in `MCPipeline` |
| `AnalysisRules` | the answers of an analyzer: contract, contacts, budgets, routes, models, compatibility of stored answers, reports | evaluated in `MCAnalysisSpend` |
| `RelevanceRules` | intents of a profile and the relevance of a source to them, from what is known of the source | evaluated in `MCDiscovery` |
| `SearchRules` | the plan of a web search, the pages it reads, candidates and their links, Telegram's search | evaluated in `MCDiscovery` |
| `Campaign` | one campaign: queries, batches, jobs, pause and resume, budget of the paid backend | - |
| `WebRules` | the governor of the Web backends and its table, the answers of the backends, the queries and candidates of a run | evaluated in `MCCampaign` |
| `LibraryRules` | keys and plans of campaigns, pages, what a batch finds, priorities, the canary | extends `WebRules`, evaluated in `MCCampaign` |
| `EvidenceRules` | references, validation and evidence of a source, turns of monitoring, backpressure, statistics | extends `LibraryRules`, evaluated in `MCCampaign` |
| `DeliveryProofs`, `SubscriptionProofs`, `CampaignProofs` | theorems about the module of that name (`DeliveryProofs` also about `DurableWorker` and `JobContract`) | extend it |
| `MatchingProofs` | theorems about `Matching` and `AnalysisSpend` | extends both |
| `OnboardingProofs` | theorems about `Onboarding` and `Discovery` | extends both |
| `PipelineProofs` | theorems about `Pipeline` and about the rules of opportunities, analyses, relevance and matching | extends these |
| `SourcesProofs` | theorems about `Sources` and `SourceRules` | extends both |
| `TelegramProofs` | theorems about `RequestGovernor`, `ChatDiscovery` and `WebRules` | extends these |
| `MC*` | instances for TLC | - |

How state and actions correspond to the code:

* **DurableJobs / DurableWorker.** `job[j]` is the row of a job (state, attempts, time until it is available, time left of the
  lease, owner). `ClaimJob`, `CompleteJob`, `FailJob`, `ReleaseJob`, `RenewLease` are the repository methods;
  `Terminalized` is the update that fails jobs whose last lease is over, part of every `claim_next`. `claim_next` skips
  rows other transactions have locked, so `LockedSets` lets a claim overlook any rows. `phase`, `claim` and `handler`
  of a process are the places where `run` and `_execute_claim` await; `beat` is the age of the last renewal. The heartbeat may be
  late by `MaxBeatDelay` because the event loop may be busy. A crash loses everything but the table. `succeeded[j]`
  is a history variable: the attempts whose handler has returned.
* **Delivery.** `step[p]` is where the handler of process p stands: prepare, send, confirm or reject. Handler actions are joined to the
  worker's, so that a handler is cancelled, abandoned, drained or killed at each of its steps. `obstacles` are the reasons for
  which `prepare_attempt` suppresses a delivery; `deliveredBy` records the attempts whose message went out. `RecordAction` is
  a press of a button, which the code refuses until the row is marked sent: a card that is out while its row is still sending, or
  whose row failed after the message went out, refuses its buttons.
* **Subscription.** A transaction `tx[t]` remembers the start time it projects at and the evidence it has inserted and not
  committed. `WaitsFor` is the wait on a unique index or on the user row (a foreign key takes a share of it, and
  `SELECT .. FOR UPDATE` wants it alone); a cycle is broken by aborting one transaction. `NaturalProjection` is
  `_natural_projection`, `Evaluate` the decision of `billing.py`.
* **RequestGovernor.** `status, token, lease, next, cooldown` are the columns of the account's row, `at[t]` the place of a task
  in `run`. `barred` and `pace` say what Telegram and the pacing demand; `lost` that an answer never reached the row.
* **AnalysisSpend.** `row` is `ai_call_telemetry`. The guard (`PassesGuard`) and the insert (`Reserves`) are two steps under the
  advisory lock, so that calls of others finish between them.
* **Pipeline.** One variable per table; `handler[h]` is the local state a handler carries from one transaction to the next: the parent it
  read before the advisory lock, the analyzer's answer, whether it saw the cache empty. An opportunity is named by the
  cache entry it was created for. A handler that lost its claim goes on, and its completion is ignored. The last transaction of an
  analysis is two steps: `ListsMessages` reads the duplicates routed to it (and inserts the cache entry, which another insert of the key waits
  for), `PersistsDemand` is what follows the wait for the rows and the version-wide advisory lock, up to the commit. What is routed in between is
  not in the list; `late` remembers it, with what is routed after the analysis.
* **MatchRules.** `RunFilters`, `Narrowed`, the component scores, `Combine`, `Decision` and the sort key of `matching.py` and
  `match_decisions.py`, over records of terms and numbers. Decimals are counted in units of 0.0001 with half-even rounding, as
  the code quantizes them; the similarity of two labels or texts is given.
* **SourceRules.** `source_audit_sampling.py`, `source_metrics.py` and `source_audit.py` without their rows: which messages of a window a
  sample takes, what they say of a source, what is decided of it, and when it is due again; the order of the due sources and of
  the collector's catalog.
* **OpportunityRules.** The measure of two texts and of two structured demands (`opportunity_dedup.py`), the duplicate that is taken
  when several agree, the events of the lifecycle, the source that is shown, the lists of `persistence/opportunities.py`. The ratio of two
  word sequences is given by a constant.
* **AnalysisRules.** `opportunity_classifier.py` and `ai_telemetry.py` without their calls: which answers the contract admits, what of a
  message grounds a contact, which route is taken when the first is unsure or out of budget, when a stored answer is
  still one of the configuration, what the report adds up.
* **RelevanceRules, SearchRules.** `profile_discovery.py` and the rules of `web_discovery.py` and
  `telegram_profile_discovery.py` over sets of terms: which intents a profile has, which texts of a source count for which of them, how
  the score and the class follow, which queries and pages fit a budget, which chats a scan reads.
* **WebRules, LibraryRules, EvidenceRules.** An operation is a function of the state it finds: `Searched` takes a world of the memory of a governor,
  the table and the time to the next one, `Restored` is a restart; `Discovered` and the batch of `LibraryRules` fold it over the
  queries of a run, with what a result, a page or a failure does on the way. The tables of the library are sets of records with the
  keys of their unique constraints, and recording evidence, a reference or a validation takes them to the next ones. Words, pages and
  replies are small values; how alike two texts are is a constant.
* **Matching.** A profile is its current revision with the terms it had then; an activation is one transaction (the user row is locked) that
  deactivates the others and enqueues the rematch; a handler reads candidates in one transaction and records traces and
  deliveries in the next; jobs carry the time they were created at, because a rematch leaves out what was seen later. `Listings` is
  `list_recent_for_matching`: of what was seen within `MaximumAge` of that time the latest `MaxOpportunities`, with ties broken either way.
  `leftOut` and `unscheduled` record what a rematch left out and what was tried and not scheduled, expired ones included.
* **Onboarding.** `pending` is the open prompt of the dialog, `handler[h]` a message or a button on its way through `await`s, `cache` the
  shared analysis cache, `profile[p]` the row, and the revision it was read at is compared again by each write.
  `written[f]` records which edit a field has its value from.
* **Discovery.** `cycle[c]` is a discovery cycle with its open transaction `tx`; each look-up and each insert is a step. `Holders` are the
  open transactions it must wait for on the unique indexes of identities, usernames and references; `InDeadlock` a cycle of such
  waits, broken by an error in one run. The look-up of a canonical peer id is left out, because no provider fills it in.
* **ChatDiscovery.** Topics with their bucket and search run, peers with their screen state, jobs with their attempts, and two handlers; a
  search that is beside its lease goes on and its writes meet the state another has left.
* **Sources.** A source has its status and the audits made of it; an audit reads the source twice (before the sample and at the decision);
  `pc` is the loop of the discovery runtime, `wake` its event, `catalog` what the collector monitors since its last reload.
* **Campaign.** A query is open, claimed by a batch, or settled; a job runs batches and puts the campaign back to active or to done. A claim
  goes by a time read before its transaction, and skips rows that are `Locked`; the transaction that settles a batch counts the other
  queries (`CountsRest`) before it waits for the row of the campaign (`RecordsCompletion`). A reservation counts the charges of its window under the advisory lock with the time its transaction began.

The tables' CHECK and unique constraints are written out as predicates named for the tables (`RawMessages`, `SubscriptionPeriods`,
`DiscoveryRuns`, ...), and together they are the `TypeOK` of the module. They hold on the instances of section 3 when
they are named in the `.cfg`; for the modules with proofs they are theorems.

## 3. Runs

| Run | Instance | Shows |
|---|---|---|
| `worker` | one job, two attempts, two processes with one worker_id, lease 2, heartbeats up to a lease late | attempts are a fencing token; only a heartbeat that is a lease old can lose its claim; every step is one of `JobContract`; every job settles |
| `delivery` | one delivery, three attempts, late heartbeats, symmetric processes, two buttons | a completed job has settled its delivery; a sent row names an attempt that was sent; a worker with a fresh heartbeat owns the row it sends for |
| `subscription` | two connections, four webhook contents (repeated, conflicting id, conflicting period, unpaid), two commands, three instants | access is granted exactly on grounds in the evidence and as the row says; evidence, periods and history stay; a stop holds until a resume; repetitions of one event never deadlock |
| `governor` | three tasks in two processes, lease 4, operations up to 6 | two requests overlap only after one outlived its lease; pacing and FloodWait bind all processes; the gate opens again |
| `spend` | two analyses, two routes, two attempts each, three days in two months | the daily and monthly limits hold for what was reserved |
| `pipeline` | two messages of one text, the second a reply to the first, the prefilter of the second tried twice, two handlers, three instants | one canonical message per window; sources follow the link of their analysis; what may differ after a race is exactly what `overtaken` and `late` name; no message stays without an answer |
| `discovery` | three cycles, four run keys, one chat known by two identities and a username, a second chat | sources have one creator; references move only between runs that overlap |
| `chat` | two workers (one with AI), one topic, one chat, two buckets, two screens of two tries, one failure | outcomes stay unless contested; the next screen is left behind unless a named end was met; a completed search is not repeated |
| `sources` | two sources, bot and command line, two buckets, one override, one failure | overrides stand; health is that of the last re-audit; approved sources reach the collector |
| `matching` | one user, two profiles (one that `MatchRules` accepts, one rejected for its minimum budget), one opportunity and an older one that may take the one place of a rematch, a maximum age of 1 over instants to 3, two workers, three revisions, one failure | one active profile; an activation is matched; nobody is left out but by the named ends |
| `onboarding` | one profile, one description with two answers, two fields of terms and a budget, two handlers, revisions to 3 | edits, confirmations, drafts and prompts under two messages at once |
| `campaign` | two queries in batches of one, two runners, daily limit 1, campaign limit 2, one operator run, one pause, one failure | who takes the campaign up again; what a pause is worth; the budget |

Why the bounds are enough. Two processes are needed for every race of the code; a third only repeats one, since the
operations compare one claim with one row (three cycles are taken where two may wait for a third, three tasks where two share a
process). Two attempts reach first, last, lost and reclaimed tries; three are used where
the delivery's last attempt differs from a middle one. In `pipeline` only the prefilter of one message has two tries: a second try of an
analysis more takes the run beyond its time, and the theorems of section 4 hold for any number. Lease 2 with heartbeat 1 distinguishes punctual, late and lapsed.
Windows of 1 over instants 0 to 2 lie inside, on and outside the boundary. Three days over two months cross both limits.
Revisions to 3 allow a button of an old, the current and the next revision. `MaxCommands`, `MaxFaults` and the like bound
commands and failures (`campaign` has two queries and a campaign limit of two, so that only the theorem says something of that
limit), `MaxTime`/`MaxDay`/`MaxClock` the clocks. A failure may fall on any step; one is enough to leave each
partial state.

Fairness, which only `worker` and `governor` need. Weak fairness of the loop steps of a process: the event loop runs what is
ready. Strong fairness of claiming: a worker that is up again and again gets to poll. Restarts are fair because the deployment
restarts the service. Handlers end: every external call has a timeout. Nothing is assumed of crashes, cancellations, lateness or failures,
which may always happen. In `RequestGovernor` tasks poll and clocks advance. Elsewhere, what must eventually happen is
stated of the states in which nothing is left to do (`MessagesAreAnswered`, `ApprovedIsMonitored`, `CampaignGoesOn`,
`NobodyIsLeftOut`): the queue is quiet, and yet the work is done.

Deadlock checking is off where the modelled system rests when its bounded inputs are used up.
The modules of pure rules have no behaviour: their checks are ASSUMEs of the MC modules, which TLC evaluates over all inputs of a small
set. In `MCMatching` the relation `Relevant` of the instance is what `MatchRules` decides. In `MCSources` samples are right (no
message twice, inside the window, of the size asked for), decisions are those of a table written beside them, and due sources and
catalog come in order. In `MCPipeline` near texts are those of a list, budgets agree both ways, one duplicate is taken whatever the
order, and the preferred source is the one observed first. In `MCAnalysisSpend` an analyzer reads back what it has stored, queued jobs
belong to one configuration, contacts are grounded by mentions, known budgets have bounds, and reports add up. In
`MCDiscovery` intents are bounded and stored once, scores are monotone in the terms found, queries count as meaning (section 6), plans
leave room for buyer habitats, a reading of pages ends, candidates are new chats, and a scan keeps its budget. In
`MCCampaign` a refusal outlives a restart of the process and is undone only by another process (section 6), replies are bounded, queries that
are near each other are asked once, a run stops at its first unanswered query, the campaigns for a gap are one whoever has it, plans have
each text once, a batch accounts for all it found, priorities grow with their signs, the canary keeps its limits and stops at a flood
wait, a peer that was found stays and validations may be premature (section 6), evidence is stored once however
often a run repeats, the turns of monitoring are fair, and the statistics count each source once and add up.

## 4. Proofs

For all values of the constants, from the assumptions named in the modules:

* `DeliveryProofs`, on the workers: `TypeCorrect`; `FencingToken` (`AttemptsAreUnique`), from the fact that only a claim changes the
  attempt count, and raises it by one; `RowsStayConsistent` (`JobRowsConsistent`), row by row over the repository operations;
  `HeartbeatKeepsClaimAlways` and `HandlersNeverOverlap`. `HeartbeatKeepsClaim` is not inductive: a valid claim says
  nothing of how long it stays valid. The strengthening `LeasesCover` is that a worker whose last renewal is less than a lease old
  owns its row, and that the time left of the lease and the time since the renewal together reach the lease duration. A tick takes
  one from the former and adds one to the latter; the steps of others leave the row alone, because its lease has not run out and
  attempts are unique. `WorkersImplementTheContract` (`ImplementsContract`) is the refinement: Init maps to Init, and each step
  of the workers, of the table's clock and of the producers to one of `JobContract` or to none. Only completion needs an
  invariant for it, `ReturnedHasWorked`: a worker that completes an attempt has had its handler return in that attempt.
* `DeliveryProofs`, on the deliveries: `DeliveriesAreWorkers`: every behaviour of `Delivery` is one of `DurableWorker`, so that all of the above holds of
  it. `CompletedJobsAreSettled`, `SentAttemptsWereDelivered` and `FreshAttemptsOwnTheirRows` follow from `DeliveryInv`, on the rows
  and the processors: a row never names a later attempt than its job has (`RowsBehind`); a processor past `prepare` that
  has the latest attempt owns the row, because all its rivals have earlier attempts, which the row refuses (`ServingOwns`); one
  that has returned with the latest attempt has left the row settled (`ReturnedSettled`); and who confirms has had its message
  go out (`ConfirmedDelivered`). Fresh workers have the latest attempt by `LeasesCover`.
* `SubscriptionProofs`: `DuplicatesNeverDeadlock`: a transaction of a deadlock has inserted evidence another one waits for, events are inserted
  before periods, and a key is held once (`KeysAreHeldOnce`), so that two deliveries of one event are not both in it.
  `HistoryStaysImmutable` and `AccessAlwaysFollowsEvidence` from `EvidenceInv` (stored evidence stays, what an open transaction
  has inserted is stored by nobody else) and `RowInv` (the last event names the state and version of the row): what a projection has read
  is still so when it writes. `StoppedStayUntilResumed`: a projection leaves a stopped row as it is, and each operation decides
  while it holds the user row. There is a latest period among those that cover a time: one with the fewest that end later.
* `SourcesProofs`: `OverridesAlwaysStand`; `HealthAlwaysFollowsReaudit`; `ApprovedAreAlwaysMonitored`. An audit
  stores only after it has read, for the second time, a status its kind accepts (`AuditsAreAccepted`), which is the
  operator's choice unless that was written since (`OperatorsChoose`, `SeenUnlessRaced`). What the bot has approved is monitored
  (`OwedAreMonitored`) and active in the collector, or the loop still has the reload that will list it before it (`OwedAreReloaded`).
* `SourcesProofs`, on the rules: `SamplesFitTheBound`; `CappedReaderHidesVolume` (section 6); `ApprovalNeedsEvidence`: an approval names evidence that
  passes every threshold; `WorseNumbersDecideNoBetter`: a source with less relevance and more noise is never decided better;
  `EveryApprovedSourceComesUp`: each approved source is due at the end of its cadence; `CatalogsAgree`.
* `TelegramProofs`, on the governor: `OverlapOnlyAfterOverrun` from the invariant `ActiveOwnsLease` (a request younger than the
  lease holds the token, and lease and age add up); `OneRequestAtATime`: no overlap at all when operations are shorter than
  the lease; `FloodWaitIsHonoured` and `PacingIsHonoured` from `AnswersKept` (an answer that is not lost is in the
  row, or is carried by the task that will record it, with a deadline that covers the wait); `ReservationsAreNotStolen`.
* `TelegramProofs`, on chat discovery: `WatchedAlwaysUnlessContested`, `NextScreenIsAlwaysLeft` and `CompletedSearchIsAlwaysOver`. Two handlers of one
  job are known as such from the claim of the second on (`SideBySide`); a chat that is not contested has one
  screen, which holds the claim on the row (`ScreensAreAlone`); jobs of screens are numbered by the count in the row and never run
  ahead of it by more than one (`JobsFollowCount`); and the next job ends without a claim only if there was nothing to claim
  (`NextIsUnclaimed`, `NextEndsEmpty`).
* `TelegramProofs`, on the Web backends, for every history of a governor and every table: a restart refuses a backend for the reason it
  was refused for before, and as long (`RestartsRefuseTheSame`, because a backend waits only while it is refused,
  `HealthStaysRefusedOrIdle`); and one that is UNAVAILABLE is left out by every search and after every restart
  (`SearchesLeaveItOut`, `RestartsLeaveItOut`; section 6).
* `MatchingProofs`: `TypeCorrect` with the holders of jobs and locks; `OneActiveProfileAlways`; `ActivationIsAlwaysMatched`;
  `NobodyIsEverLeftOut`. The last one rests on two invariants: whatever names a revision names one that has been current, and a
  revision that has stopped being current never is again (`ValidInv`); and each pair that is current is owed its delivery by
  the matching job that read the revision, or by the rematch if that job has read an older one (`GoodInv`). What a rematch lists and
  leaves out is counted once (`ListingFacts`): an opportunity that is not listed is too late, too old, or crowded out.
* `MatchingProofs`, on the spend guard: `LimitsAlwaysHold`. Who has passed the guard holds the lock, and the reserve it is about to record still
  fits (`RoomIsLeft`): nobody else records one meanwhile, and a call that ends only lowers the sum. A call in flight is on record with its
  whole reserve (`InFlightIsReserved`). A sum is stated as the number of units the calls of a window have, so that it is counted and
  not computed by recursion.
* `OnboardingProofs`, on discovery: `SourcesHaveOneCreator`, `NewSourcesOwnTheirReferences` and `AliasesOnlyMoveInOverlap` from `DiscoveryInv`. Two open
  transactions know of each other and have made different sources, because an insert waits for the other's (`Apart`); what a
  transaction has made is new and is what its results count (`MadeAreNew`, `MadeAreCounted`); what it has looked up stands while no
  other transaction is open (`LookupsStand`); and a reference it is about to write has no other owner than one of a run that was
  stored beside it (`OwnersYield`). A commit keeps the invariant of the others because they all know of it.
  `DiscoveryTypeCorrect`, the constraints of its tables, from `TablesInv`: what a transaction names it can see (`Named`), and the
  usernames of the sources it has made belong to nobody else (`Unshared`, `UnsharedBy`), because an insert waits for the open ones and
  refuses the stored ones.
* `OnboardingProofs`, on the dialog: `TypeCorrect`; `EditsAreNeverLost` and `ConfirmedAlwaysAsShown` from `EditInv`: while the row has the revision it
  was read at, what was read is what it has; `DraftsKeepTheirAnalyses` from `AnalysisInv`; `PromptAlwaysStaysOpen`.
* `CampaignProofs`: `TypeCorrect`; `PauseAlwaysHolds` from `PauseInv`: who is about to write the campaign's status holds a batch, and nobody
  holds one when the pause counts; `BudgetAlwaysHolds`: a reservation counts the window its own charge will lie in, because
  count and charge use the start of one transaction and reservations are serialized.
  `CampaignAlwaysGoesOn` from `GoesOnInv`: jobs are held once (`JobsAreHeldOnce`), and until the campaign is upset whoever settles a
  batch is alone with it and writes the campaign's own count (`BatchesAreAlone`), no job is planned for a higher count
  (`KeysFollowCount`), a completed campaign has completed its queries (`CompletedAreDone`), and while there is something to do a job
  is going to do it, and what a run has counted before it waited for the campaign is what is left (`CountsAreCurrent`, `SomeJobGoes`): the job is the one of the batch, which plans its successor under a key that is new, because the count has grown.
* `PipelineProofs`, on the pipeline: `PipelineTypeCorrect` and all five invariants of the run: `CanonicalsStayApart`, `SourcesAlwaysFollowLinks`,
  `ContradictionsAreOvertaken`, `OnlyLateMessagesStayUnlinked`, `NoMessageIsLost`. None of them is inductive: what a handler writes depends
  on what it carried from an earlier transaction. `PipelineInv` adds what it carries: the parent it read has been ingested and is
  the one of the message (`HandlersInStep`); an answer it took from the cache is still the entry, or the text was analysed
  twice at once (`AnswersAreKnown`); two handlers at one text are known as such (`OvertakersAreNoted`); each opportunity is the one of
  the entry it was created for, and an entry is linked to such a one (`LinkedRows`); and a job that is done, or whose handler has returned,
  has done its work (`JobsDoTheirWork`): its message has a result, or its text an entry and each message routed there a link,
  unless it came later. What is routed to a message whose analysis has its list already is in the list or late (`OthersAreLate`), and
  an entry that was inserted stays with its answer up to the commit, because no other insert of the key gets past it (`EntriesAreInserted`). `NothingIsTakenBack` (rows, entries and links stay as they are) is what most steps rest on.
* `PipelineProofs`, on the rules of matching, for every opportunity, profile and policy: `NarrowingIsConservative` (narrowing and the hard filters
  are one test: narrowing only drops what a filter would fail), `FiltersFixComponents`, `ScoresAreFractions`
  (`n <= m * d` bounds the rounded quotient by m, so that parts rounded one by one still sum to at most 1),
  `MatchNeedsALabelOrText`, `ExpiryIsLateByLessThanABucket`, `RanksFollowTheKey` (a rank is the number of matches before it plus one).
  On opportunities: structured duplicates agree in contacts and budgets (`StructuredDuplicatesAgree`, `BudgetRelationIsMutual`), at most
  one duplicate is taken (`AtMostOneDuplicate`), the events of an opportunity tell its status (`EventsTellTheStatus`), and the preferred
  source does not depend on the order of the rows (`PreferenceIgnoresTheOrder`). On analyses and relevance: `ContractBudgetsHaveBounds`,
  `OwnAnswersAreReadBack` (what an analyzer stores for a job it takes, it accepts from the cache later), `ChangedRoutesRefuseQueuedJobs`
  and `QueriesCountAsMeaning` (section 6), `StrongMeansDirect`.

What the proofs assume of the constants is named in the modules: windows, leases and bounds are numbers, `None` is neither a
message nor a key, a time or a row, and the sets that are counted are finite (`Sources`, `Offers`, `Analyses`, the `Workers` of `ChatDiscovery`).

Every invariant and action property of a run is a theorem. Only model-checked: liveness under fairness (`EveryJobSettles`, `GateReopens`),
which is out of the prover's reach. The pure rules that TLC evaluates are proved where `PipelineProofs`, `SourcesProofs` and `TelegramProofs` name them; what their recursive parts compute is induction over data.

## 5. Not modelled

* Bot menus, rendering and wording; of the tooling evaluations, metrics, configuration and most of the command line: sequential code that
  calls or reports the components above.
* The legacy pipeline: one process with one SQLite connection, beside the PostgreSQL pipeline that replaces it.
* Text algorithms character by character (normalization, word ratios, parsing of pages and references): free text and floating point.
  The rules take their result as given; where a modelled component uses them without the rules, any outcome may occur.
* The catch-up cursor and the start and stop order of the collector; the links of profiles to campaigns. The health of Web backends is no state of
  `Campaign`, where any backend may refuse at any time; what it does over time is in `WebRules`.
* Lifecycle transitions of opportunities as steps of `Pipeline`: they have no caller in the program, and with them the reactivation of
  stale opportunities has none (their rules are in `OpportunityRules`). The governor's status `paused`, which is never written. `resume` of a campaign that is not paused.

## 6. Where code and documents disagree, and known ends

Met while modelling, each visible in the module:

* `docs/legacy-collector-migration.md:151` promises bounded retry of handler failures and, for a shutdown, drained or requeued work. A handler
  that raises while its worker drains escapes from `_drain_or_release` (`worker.py:277`): the failure is not recorded, the
  claim is not released, and the job waits for its lease to expire.
* `telegram_request_governor.py:33-38` says that commands using one collector account cannot issue active requests
  concurrently. An operation that takes longer than the lease of its reservation, which nothing renews, overlaps
  the next one, and its own outcome (a FloodWait, too) is then refused.
* `tests/test_opportunity_repository.py:330` expects the same text to be a new opportunity after the window; it uses two cache
  entries for one text, which the program never creates. A text that is posted again after the window finds the old cache entry, and
  through its link the old opportunity, before the window is looked at.
* `source_discovery_runtime.py:74-78` says that the run keys of a bucket make retries converge on the idempotency of `DiscoveryRunner`. A
  cycle that is woken within the bucket of the previous one repeats its key; when its seeds have changed since, it has another request and
  ends in a conflict (`:142`).
* `KNOWN_LIMITATIONS.md:13` and `:49` say that new profiles see future opportunities only; the activation enqueues a rematch of past
  ones (`profile_confirmation.py:254-297`). Settings changed later are not rematched, in either document or code.
* A chat stored under another identity with the same username makes the insert of `create_candidate` raise
  (`uq_sources_platform_handle`; only the identity conflict is handled): the discovery run fails with everything it found
  (`discovery_runner.py:163`), and the screening of such a chat (`telegram_chat_discovery.py:1126`), which names it by username,
  cannot store it.
* A pause of a campaign is overwritten by a batch that was in progress, and a resume while a batch is in progress is unheard. Two batches that
  are settled at once each count the other's queries as running (`source_bootstrap.py:306`, before the campaign is locked), so that both leave it
  `planned` with nothing to do. `CampaignGoesOn` exempts all that follows two batches at once.
* Three failures in a row make a Web backend UNAVAILABLE. Every governor of the program stores that in the database
  (`source_discovery_runtime.py:102`, `source_bootstrap.py:245`, `operator_cli.py:1363`, `:1684`) and `restore` keeps it
  (`web_discovery.py:486-493`), so that the backend stays out, across restarts, until its row is edited or another process, which
  remembers an earlier state, overwrites it (`AnotherProcessMayRevive`).
* A Web run ends at the first query that no backend answers, and a batch of the library loses what it had found when one of
  its queries fails on all backends or a page does not come in time: `SafeWebPageFetcher.fetch` lets a bare `TimeoutError` out. The budget
  is charged for the paid backend before the governor may refuse to ask it.
* `_failure_code` stores a `TimeoutError` as `timeout_error`, and `_is_reusable_validation` asks again after `timeout`
  (`telegram_source_validation.py:393-414`): a source that timed out once is unavailable for good. So is one that was not permitted to the collector
  account when it was first validated (`access_not_permitted`), and one with a reference that belongs to a source nobody has validated.
* Two sources of one chat, neither with a reference on record, are each rejected as the duplicate of the other once two accounts have validated them: `source_for_canonical_peer`
  takes the least id of any validation, rejected ones included (`persistence/discovery_campaigns.py:310-317`).
* `assign_monitoring`, `WeightedMonitoringScheduler` and `decide_backpressure` have no caller outside the tests.
* An analysis job names the models, fallback, threshold and routing version it was created for (`opportunity_classifier.py:208`). After a change of
  any of them the queued jobs fail instead of being analysed by the new configuration (`ChangedRoutesRefuseQueuedJobs`).
* `_relevance_corpora` says that search text is provenance and no meaning of a source (`profile_discovery.py:1289-1294`). Telegram's
  search stores the text of its query as the snippet of each result (`telegram_profile_discovery.py:898-902`), and snippets count: every
  source found by a query with a role of a profile is strong for it, also for profiles that did not search, since only lineages of
  `web_search` are scoped to a profile (`:795-827`). Three such sources end the gap campaign (`QueriesCountAsMeaning`).
* Invite links that differ in the case of their letters are one source for `normalize_telegram_reference` (`telegram_references.py:103`) and two
  nodes of the link graph (`LinksOfAChatHaveOneKey` holds up to case).
* Every reader of a source in production is given `max_messages_per_pass = source_audit_sample_size`
  (`source_discovery_runtime.py:492`, `operator_cli.py:733`, `:1550`). A capped reader never returns more than the sample, so that
  `high_volume` and the sample spread over the window never occur (`CappedReaderHidesVolume`).
* `record_activity`, `resolve_source_access` and `list_due_for_reaudit` have no caller outside the tests: `messages_per_day` stays
  empty, and of the cadences of re-audits only those for degraded and for other sources apply.
* A cycle audits the first `audit_limit` candidates (`source_discovery_runtime.py:146-198`). Sources that are discovered again and
  candidates whose audits fail each time keep their places, and those behind them wait.
* An edit that is sent before the previous prompt is answered may be lost (the exception `EditsAreNotLost` names).

Known and held by the properties: an opportunity may contradict the cache entry it stands for when two tries analysed the text at once
(`CacheContradictedOnlyIfOvertaken`); a duplicate that is routed after the analysis, or while its last transaction waits with the list it has read
(`opportunity_classifier.py:191`, `persistence/opportunities.py:277` and `:290`), is never linked to the opportunity
(`UnlinkedOnlyIfLate`); an opportunity matched before a profile was active and crowded out of its rematch by 500 later ones, or too
old for it, is never matched with it (`NobodyIsLeftOut`); a job that fails by an expired lease leaves its delivery in `sending` (`CompletedJobSettledDelivery` speaks of completed jobs); a schedule that fails while
matching is swallowed, and a delivery whose trace went stale is suppressed for good (`NobodyIsLeftOut`); the next screen of a
chat is lost when its job cannot be planned again (`NextScreenIsLeft`).

## 7. What is left

Theorems about the rules of the library and of its evidence; the collector's catch-up cursor.
