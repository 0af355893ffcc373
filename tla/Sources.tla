------------------------------ MODULE Sources ------------------------------
(***************************************************************************)
(* The life of a source: AutonomousSourceDiscoveryRuntime finds candidates *)
(* and audits them in cycles, re-audits approved sources, and LeadBot      *)
(* reloads the sources it monitors when a cycle changed them.  Beside the  *)
(* bot an operator audits sources and overrides their status from the      *)
(* command line, and Telegram chat discovery adds candidates and wakes the *)
(* loop.                                                                   *)
(***************************************************************************)
EXTENDS Naturals, FiniteSets

CONSTANTS
    Sources,
    Clis,          \* runs of the operator's audit commands
    WebSearch,     \* a web search backend is configured
    AuditLimit,    \* telegram_max_audits_per_batch
    MaxBucket,     \* bound on the discovery intervals
    MaxClock,      \* bound on the cycles and command line audits together
    MaxOverrides,  \* bound on the operator's overrides
    MaxFaults      \* bound on restarts, failed cycles and unresolved sources

ASSUME SourcesAssumption ==
    /\ "bot" \notin Clis /\ IsFiniteSet(Sources)
    /\ WebSearch \in BOOLEAN
    /\ {MaxOverrides, MaxFaults} \subseteq Nat
    /\ {AuditLimit, MaxBucket, MaxClock} \subseteq Nat \ {0}

Auditors == Clis \cup {"bot"}

SourceStatus == {"candidate", "needs_review", "review_required", "approved", "active",
                 "degraded", "paused", "rejected", "retired"}
Monitored == {"approved", "active", "degraded"}  \* _collector_eligibility
Audited == {"candidate", "needs_review"}

\* _VALID_TRANSITIONS, as far as an audit's decision is the target.
ValidFrom(target) ==
    CASE target = "approved" -> SourceStatus \ {"approved", "rejected", "retired"}
      [] target = "rejected" -> {"candidate", "needs_review", "review_required", "paused"}
      [] target = "needs_review" -> {"candidate", "rejected"}
      [] target = "paused" -> Monitored

OverrideTargets == {"approved", "active", "degraded", "paused", "rejected",
                    "review_required", "retired"}

VARIABLES
    status,     \* lifecycle_status of each source, or "absent"
    health,     \* its health, and the date of the audit that wrote it
    audit,      \* what each auditor is doing
    loop,       \* the source discovery loop of the bot
    wake,       \* its event
    active,     \* the sources the bot monitors
    ran,        \* discovery runs by provider and bucket
    bucket, clock, overrides, faults,
    by,         \* history: what wrote the status last
    overtaken,  \* history: sources whose re-audits did not follow one another
    owed        \* history: sources the bot approved, and no fault since

vars == <<status, health, audit, loop, wake, active, ran, bucket, clock, overrides, faults,
          by, overtaken, owed>>
rows == <<status, health, by, overtaken>>

HealthRow == [is : {"unknown", "healthy", "degraded"}, at : 0..MaxClock]
Audit == [pc : {"idle", "classify", "store"}, of : Sources \cup {"none"},
          kind : {"initial", "reaudit"}, at : 0..MaxClock,
          seen : SourceStatus, overridden : BOOLEAN, raced : BOOLEAN]
Loop == [pc : {"begin", "discover", "audit", "reaudit", "list", "register", "wait"},
         first : BOOLEAN, bucket : 0..MaxBucket, at : 0..MaxClock, seeds : BOOLEAN,
         todo : SUBSET Sources, done : SUBSET Sources, due : SUBSET Sources,
         reload : BOOLEAN, listed : SUBSET Sources]

Idle == [pc |-> "idle", of |-> "none", kind |-> "initial", at |-> 0, seen |-> "candidate",
         overridden |-> FALSE, raced |-> FALSE]

\* app.run: the sources are listed and their handlers registered, then the loop begins.
Started == [pc |-> "list", first |-> TRUE, bucket |-> 0, at |-> 0, seeds |-> FALSE, todo |-> {},
            done |-> {}, due |-> {}, reload |-> FALSE, listed |-> {}]

Init == /\ status \in [Sources -> {"absent", "candidate", "approved"}]
        /\ health = [s \in Sources |-> [is |-> "unknown", at |-> 0]]
        /\ audit = [a \in Auditors |-> Idle]
        /\ loop = Started
        /\ wake = FALSE /\ active = {} /\ ran = {} /\ bucket = 1
        /\ clock = 0 /\ overrides = 0 /\ faults = 0
        /\ by = [s \in Sources |-> "none"] /\ overtaken = {} /\ owed = {}

With(statuses) == {s \in Sources : status[s] \in statuses}

-----------------------------------------------------------------------------
(* An audit reads the status, samples the history and has it classified,   *)
(* then reads the status again in the transaction that stores the result.  *)

Accepts(kind) == IF kind = "initial" THEN Audited ELSE {"approved"}
Decisions(kind) == IF kind = "initial" THEN {"approved", "rejected", "needs_review"}
                   ELSE {"approved", "paused"}

Begun(s, kind, at) ==
    [pc |-> "classify", of |-> s, kind |-> kind, at |-> at, seen |-> status[s],
     overridden |-> FALSE, raced |-> FALSE]

(* The cycle asks for a reload when one of its own audits changed what is  *)
(* monitored, and after each re-audit, failed or not.                      *)
ReloadsPaused(kind, seen, target) ==
    kind = "reaudit" \/ (seen # target /\ target \in {"paused", "rejected"})
Reloads(kind, seen, target) ==
    kind = "reaudit" \/ (seen # target /\ target \in {"approved", "paused", "rejected"})

(* The auditor is done: target is the decision, or "failed" without one.   *)
EndAudit(a, target) ==
    /\ audit' = [audit EXCEPT ![a] = Idle]
    /\ loop' = IF a # "bot" THEN loop ELSE
               [loop EXCEPT !.done = IF target = "failed" THEN @ ELSE @ \cup {audit[a].of},
                            !.reload = @ \/ IF target = "failed" THEN audit[a].kind = "reaudit"
                                            ELSE Reloads(audit[a].kind, audit[a].seen, target)]

AuditFails(a) ==
    /\ audit[a].pc # "idle"
    /\ EndAudit(a, "failed")
    /\ UNCHANGED <<rows, wake, active, ran, bucket, clock, overrides, faults, owed>>

RereadUnchecked(a) ==  \* the status is not checked again
    /\ audit[a].pc = "classify"
    /\ audit' = [audit EXCEPT ![a].pc = "store", ![a].seen = status[audit[a].of]]
    /\ UNCHANGED <<rows, loop, wake, active, ran, bucket, clock, overrides, faults, owed>>

(* _require_source_state in the transaction, without the lock of the row.  *)
Reread(a) ==
    /\ audit[a].pc = "classify"
    /\ status[audit[a].of] \in Accepts(audit[a].kind)
    /\ audit' = [audit EXCEPT ![a].pc = "store", ![a].seen = status[audit[a].of]]
    /\ UNCHANGED <<rows, loop, wake, active, ran, bucket, clock, overrides, faults, owed>>

HealthKept(s, at, is) == IF is = "healthy" THEN [is |-> is, at |-> at] ELSE health[s]
(* set_health_status, unless a later audit wrote it.                       *)
HealthSet(s, at, is) == IF at >= health[s].at THEN [is |-> is, at |-> at] ELSE health[s]

(* The result is stored; a new status must be a valid transition from the  *)
(* one the row has by now, else all is rolled back.                        *)
StoreAudit(a, target) ==
    /\ audit[a].pc = "store" /\ target \in Decisions(audit[a].kind)
    /\ LET s == audit[a].of
           re == audit[a].kind = "reaudit"
       IN  /\ audit[a].seen = target \/ status[s] \in ValidFrom(target)
           /\ health' = IF re THEN [health EXCEPT ![s] = HealthSet(s, audit[a].at,
                              IF target = "approved" THEN "healthy" ELSE "degraded")]
                        ELSE health
           /\ status' = IF audit[a].seen = target THEN status ELSE [status EXCEPT ![s] = target]
           /\ by' = IF audit[a].seen = target THEN by ELSE [by EXCEPT ![s] = audit[a].kind]
           /\ overtaken' = IF re /\ (audit[a].at < health[s].at \/ status[s] # audit[a].seen)
                           THEN overtaken \cup {s} ELSE overtaken
           /\ owed' = IF target # "approved" THEN owed \ {s}
                      ELSE IF a = "bot" /\ ~re /\ audit[a].seen # target THEN owed \cup {s}
                      ELSE owed
    /\ EndAudit(a, target)
    /\ UNCHANGED <<wake, active, ran, bucket, clock, overrides, faults>>

(* The operator's audit run and audit re-audit commands.                   *)
CliAudit(a, s, kind) ==
    /\ a # "bot" /\ audit[a].pc = "idle" /\ clock < MaxClock
    /\ status[s] \in Accepts(kind)
    /\ clock' = clock + 1
    /\ audit' = [audit EXCEPT ![a] = Begun(s, kind, clock + 1)]
    /\ UNCHANGED <<rows, loop, wake, active, ran, bucket, overrides, faults, owed>>

(* The operator's sources transition command.                              *)
Override(s, target) ==
    /\ overrides < MaxOverrides /\ overrides' = overrides + 1
    /\ target \in OverrideTargets /\ status[s] \notin {"absent", target}
    /\ status' = [status EXCEPT ![s] = target]
    /\ by' = [by EXCEPT ![s] = "operator"]
    /\ audit' = [a \in Auditors |->
                   IF audit[a].of # s THEN audit[a]
                   ELSE [audit[a] EXCEPT !.overridden = TRUE, !.raced = @ \/ audit[a].pc = "store"]]
    /\ owed' = owed \ {s}
    /\ UNCHANGED <<health, overtaken, loop, wake, active, ran, bucket, clock, faults>>

-----------------------------------------------------------------------------
(* The loop of the bot and its cycle, run_once.                            *)

(* The wait ends with the event, or after an interval.                     *)
WakeUp ==
    /\ loop.pc = "wait" /\ (wake \/ bucket # loop.bucket)
    /\ loop' = [loop EXCEPT !.pc = "begin"] /\ wake' = FALSE
    /\ UNCHANGED <<rows, audit, active, ran, bucket, clock, overrides, faults, owed>>

BeginCycle ==
    /\ loop.pc = "begin" /\ clock < MaxClock
    /\ clock' = clock + 1
    /\ loop' = [Started EXCEPT !.pc = "discover", !.first = FALSE, !.bucket = bucket,
                               !.at = clock + 1, !.seeds = With(Monitored) # {}]
    /\ wake' = FALSE
    /\ UNCHANGED <<rows, audit, active, ran, bucket, overrides, faults, owed>>

Keys == {<<p, loop.bucket>> : p \in (IF loop.seeds THEN {"graph"} ELSE {})
                                    \cup (IF WebSearch THEN {"web"} ELSE {})}

(* A provider already ran in this bucket: the date of the cycle is part of *)
(* its request, so the run is in conflict and the cycle ends.              *)
Conflict ==
    /\ loop.pc = "discover" /\ Keys \cap ran # {}
    /\ ran' = IF <<"graph", loop.bucket>> \in ran /\ loop.seeds THEN ran ELSE ran \cup Keys
    /\ loop' = [loop EXCEPT !.pc = "wait"]
    /\ UNCHANGED <<rows, audit, wake, active, bucket, clock, overrides, faults, owed>>

(* Sources are found, and the cycle takes its first places: those found,   *)
(* known ones among them, come before those that wait for an audit.        *)
Discover(found, todo) ==
    /\ loop.pc = "discover" /\ Keys \cap ran = {}
    /\ ran' = ran \cup Keys
    /\ found # {} => Keys # {}
    /\ status' = [s \in Sources |-> IF s \in found /\ status[s] = "absent" THEN "candidate"
                                    ELSE status[s]]
    /\ todo \subseteq With(Audited) \cup found /\ Cardinality(todo) <= AuditLimit
    /\ found \subseteq todo \/ (todo \subseteq found /\ Cardinality(todo) = AuditLimit)
    /\ With(Audited) \subseteq todo \/ Cardinality(todo) = AuditLimit
    /\ loop' = [loop EXCEPT !.pc = "audit", !.todo = todo]
    /\ UNCHANGED <<health, by, overtaken, audit, wake, active, bucket, clock, overrides,
                   faults, owed>>

(* _audit_candidate: one the status of which changed is passed over.       *)
AuditCandidate(s) ==
    /\ loop.pc = "audit" /\ s \in loop.todo /\ audit["bot"].pc = "idle"
    /\ loop' = [loop EXCEPT !.todo = @ \ {s}]
    /\ audit' = IF status[s] \in Audited
                THEN [audit EXCEPT !["bot"] = Begun(s, "initial", loop.at)] ELSE audit
    /\ UNCHANGED <<rows, wake, active, ran, bucket, clock, overrides, faults, owed>>

(* The re-audits that are due, none when they cannot be listed.            *)
ListDue(due) ==
    /\ loop.pc = "audit" /\ loop.todo = {} /\ audit["bot"].pc = "idle"
    /\ due \subseteq With({"approved"}) \ loop.done
    /\ \A s \in due : health[s].at < loop.at
    /\ Cardinality(due) <= AuditLimit
    /\ loop' = [loop EXCEPT !.pc = "reaudit", !.due = due]
    /\ UNCHANGED <<rows, audit, wake, active, ran, bucket, clock, overrides, faults, owed>>

Reaudit(s) ==
    /\ loop.pc = "reaudit" /\ s \in loop.due /\ audit["bot"].pc = "idle"
    /\ IF status[s] = "approved"
       THEN /\ audit' = [audit EXCEPT !["bot"] = Begun(s, "reaudit", loop.at)]
            /\ loop' = [loop EXCEPT !.due = @ \ {s}]
       ELSE /\ loop' = [loop EXCEPT !.due = @ \ {s}, !.reload = TRUE]
            /\ UNCHANGED audit
    /\ UNCHANGED <<rows, wake, active, ran, bucket, clock, overrides, faults, owed>>

EndCycle ==
    /\ loop.pc = "reaudit" /\ loop.due = {} /\ audit["bot"].pc = "idle"
    /\ loop' = [loop EXCEPT !.pc = IF loop.reload THEN "list" ELSE "wait"]
    /\ UNCHANGED <<rows, audit, wake, active, ran, bucket, clock, overrides, faults, owed>>

(* _reload_approved_sources, and the start of the bot: the sources are     *)
(* listed, then resolved one by one; one that is not resolved is left out. *)
ListSources ==
    /\ loop.pc = "list"
    /\ loop' = [loop EXCEPT !.pc = "register", !.listed = With(Monitored)]
    /\ UNCHANGED <<rows, audit, wake, active, ran, bucket, clock, overrides, faults, owed>>

RegisterHandlers(unresolved) ==
    /\ loop.pc = "register"
    /\ unresolved \subseteq loop.listed
    /\ faults' = faults + Cardinality(unresolved) /\ faults' <= MaxFaults
    /\ active' = loop.listed \ unresolved
    /\ owed' = owed \ unresolved
    /\ loop' = [loop EXCEPT !.pc = IF loop.first THEN "begin" ELSE "wait", !.listed = {}]
    /\ UNCHANGED <<rows, audit, wake, ran, bucket, clock, overrides>>

(* An exception the loop logs: the cycle, or its reload, is given up.      *)
CycleFails ==
    /\ faults < MaxFaults /\ faults' = faults + 1
    /\ ~loop.first /\ loop.pc \notin {"begin", "wait"} /\ audit["bot"].pc = "idle"
    /\ loop' = [loop EXCEPT !.pc = "wait", !.listed = {}]
    /\ owed' = {}
    /\ UNCHANGED <<rows, audit, wake, active, ran, bucket, clock, overrides>>

(* The process dies, or cannot list its sources at its start, and starts.  *)
Restart ==
    /\ faults < MaxFaults /\ faults' = faults + 1
    /\ audit' = [audit EXCEPT !["bot"] = Idle]
    /\ loop' = Started /\ wake' = FALSE /\ active' = {} /\ owed' = {}
    /\ UNCHANGED <<rows, ran, bucket, clock, overrides>>

(* A chat that is worth watching becomes a candidate and wakes the loop.   *)
WatchCandidate(s) ==
    /\ status[s] = "absent" /\ ~loop.first
    /\ status' = [status EXCEPT ![s] = "candidate"]
    /\ wake' = TRUE
    /\ UNCHANGED <<health, by, overtaken, audit, loop, active, ran, bucket, clock, overrides,
                   faults, owed>>

NextBucket ==
    /\ bucket < MaxBucket /\ bucket' = bucket + 1
    /\ UNCHANGED <<rows, audit, loop, wake, active, ran, clock, overrides, faults, owed>>

Next ==
    \/ \E a \in Auditors :
         \/ Reread(a) \/ AuditFails(a)
         \/ \E target \in SourceStatus : StoreAudit(a, target)
    \/ \E a \in Clis, s \in Sources, kind \in {"initial", "reaudit"} : CliAudit(a, s, kind)
    \/ \E s \in Sources :
         \/ AuditCandidate(s) \/ Reaudit(s) \/ WatchCandidate(s)
         \/ \E target \in OverrideTargets : Override(s, target)
    \/ \E found, todo \in SUBSET Sources : Discover(found, todo)
    \/ \E due \in SUBSET Sources : ListDue(due)
    \/ \E unresolved \in SUBSET Sources : RegisterHandlers(unresolved)
    \/ WakeUp \/ BeginCycle \/ Conflict \/ EndCycle \/ ListSources
    \/ CycleFails \/ Restart \/ NextBucket

Spec == Init /\ [][Next]_vars

-----------------------------------------------------------------------------
(* The rows are those the tables allow; only the bot's own audit runs      *)
(* while its loop is auditing.                                             *)
TypeOK ==
    /\ status \in [Sources -> SourceStatus \cup {"absent"}]
    /\ health \in [Sources -> HealthRow]
    /\ audit \in [Auditors -> Audit]
    /\ \A a \in Auditors : audit[a].pc # "idle" => audit[a].of \in Sources
    /\ audit["bot"].pc # "idle" => loop.pc \in {"audit", "reaudit"}
    /\ loop \in Loop
    /\ wake \in BOOLEAN /\ active \subseteq Sources
    /\ ran \subseteq {"graph", "web"} \X (0..MaxBucket)
    /\ bucket \in 1..MaxBucket /\ clock \in 0..MaxClock
    /\ overrides \in 0..MaxOverrides /\ faults \in 0..MaxFaults
    /\ by \in [Sources -> {"none", "initial", "reaudit", "operator"}]
    /\ overtaken \subseteq Sources /\ owed \subseteq Sources

(* An initial audit that began before an operator's decision does not      *)
(* replace it, and a re-audit replaces only an approval, unless the        *)
(* decision came between the read and the write of the transaction that    *)
(* stores the audit (_require_source_state reads without a lock).          *)
OverridesStand ==
    [][\A a \in Auditors :
         LET s == audit[a].of
         IN  /\ audit[a].pc = "store" /\ audit'[a].pc = "idle"
             /\ audit[a].overridden /\ by[s] = "operator" /\ status'[s] # status[s]
             => \/ audit[a].raced
                \/ (audit[a].kind = "reaudit" /\ status[s] = "approved")]_vars

(* A source that a re-audit paused has degraded health, so that once it is *)
(* approved again it is re-audited early, unless its re-audits did not     *)
(* follow one another: one was stored after one of a later date, or their  *)
(* transactions met (set_health_status, transition).                       *)
HealthFollowsReaudit ==
    \A s \in Sources :
        status[s] = "paused" /\ by[s] = "reaudit"
        => health[s].is = "degraded" \/ s \in overtaken

(* A source the bot approved is monitored once the loop waits, if nothing  *)
(* failed since: no cycle, no reload, and its chat was resolved.           *)
ApprovedIsMonitored ==
    loop.pc = "wait" => \A s \in owed : s \in active
=============================================================================
