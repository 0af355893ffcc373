---------------------------- MODULE SourceRules ----------------------------
(***************************************************************************)
(* The rules by which sources are audited and collected: the sample of the *)
(* history an audit reads (source_audit_sampler.py), what a classification *)
(* of it must satisfy and what is decided from it (source_audit.py), which *)
(* approved sources are due for another audit (source_metrics.py), and     *)
(* which collector accounts may read a source (source_repository.py,       *)
(* collector_accounts.py).  Times are integers; the ratios of the policy   *)
(* are counted in hundredths and compared without division.                *)
(***************************************************************************)
EXTENDS Integers, FiniteSets

CONSTANTS
    InitialWindow,   \* initial_window_days
    ExpandedWindow,  \* expanded_window_days
    SampleFloor,     \* minimum_evidence_messages of the sampler
    SampleSize,      \* sample_size
    Buckets,         \* distribution_buckets
    MaxPerPass,      \* max_messages_per_pass of the reader
    None             \* NULL in a column, null in an answer

ASSUME SourceRulesAssumption ==
    /\ {SampleFloor, SampleSize, MaxPerPass, Buckets, InitialWindow} \subseteq Nat \ {0}
    /\ ExpandedWindow \in Nat /\ InitialWindow < ExpandedWindow
    /\ SampleFloor <= SampleSize
    /\ 2 <= Buckets /\ Buckets <= SampleSize
    /\ None \notin Int

-----------------------------------------------------------------------------
(* The sample: h is the history of the source, a finite set of messages.   *)

Message == [id : Nat, at : Int]

Later(m, n) == m.at > n.at \/ (m.at = n.at /\ m.id > n.id)

Newest(n, S) == {m \in S : Cardinality({x \in S : Later(x, m)}) < n}
Oldest(n, S) == {m \in S : Cardinality({x \in S : Later(m, x)}) < n}

Within(h, from, to) == {m \in h : from <= m.at /\ m.at < to}

(* The reader takes the newest messages before the end of the window and   *)
(* keeps those inside it.                                                  *)
FetchWindow(h, from, to, limit) ==
    {m \in Newest(IF limit <= MaxPerPass THEN limit ELSE MaxPerPass, {x \in h : x.at < to}) :
        from <= m.at}

InitialProbe(h, at) == FetchWindow(h, at - InitialWindow, at, SampleSize + 1)

Expanded(h, at) == Cardinality(InitialProbe(h, at)) < SampleFloor

WindowStart(h, at) == at - (IF Expanded(h, at) THEN ExpandedWindow ELSE InitialWindow)

Probe(h, at) == FetchWindow(h, WindowStart(h, at), at, SampleSize + 1)

HighVolume(h, at) == Cardinality(Probe(h, at)) > SampleSize

(* _distributed_sample: a quota of each bucket of the window, filled up    *)
(* with the oldest messages of the probe.                                  *)
Quota(i) == SampleSize \div Buckets + (IF i < SampleSize % Buckets THEN 1 ELSE 0)

BucketEdge(from, to, i) == from + ((to - from) * i) \div Buckets

Drawn(h, from, to) ==
    UNION {FetchWindow(h, BucketEdge(from, to, i), BucketEdge(from, to, i + 1), Quota(i)) :
              i \in 0..(Buckets - 1)}

Distributed(h, from, to, probe) ==
    LET drawn == Drawn(h, from, to)
        missing == SampleSize - Cardinality(drawn)
    IN  IF missing > 0 THEN drawn \cup Oldest(missing, probe \ drawn)
        ELSE Oldest(SampleSize, drawn)

Sample(h, at) ==
    IF HighVolume(h, at) THEN Distributed(h, WindowStart(h, at), at, Probe(h, at))
    ELSE Probe(h, at)

(* _unique_sorted: a message that was edited between two fetches ends the  *)
(* audit.                                                                  *)
IsUnchanged(fetched) == \A m, n \in fetched : m.id = n.id => m = n

-----------------------------------------------------------------------------
(* The classification of a sample and the decision                         *)

Percentage == 0..100
Counts == {"commercial", "buyer", "seller", "spam", "duplicate"}

Classification ==
    [analyzed : Nat, count : [Counts -> Nat], mix : {"empty", "whole", "other"},
     language : STRING \cup {None}, languages : SUBSET STRING, categories : SUBSET STRING]

(* validate_strict_result, and the check of the count against the sample.  *)
IsValid(c, sampled) ==
    /\ \A k \in Counts : c.count[k] <= c.analyzed
    /\ c.language # None => c.language \in c.languages
    /\ c.mix = IF c.analyzed = 0 THEN "empty" ELSE "whole"
    /\ c.analyzed = sampled

(* SourceAuditDecisionPolicy; the thresholds of an approval and those of a *)
(* rejection are not compared with each other.                             *)
DecisionPolicy ==
    {p \in [evidence : Nat \ {0}, rejection_evidence : Nat \ {0}, yield : Percentage,
            seller : Percentage, spam : Percentage, duplicate : Percentage,
            rejection_spam : Percentage, rejection_seller : Percentage] :
        p.evidence <= p.rejection_evidence}

Reaches(c, k, share) == 100 * c.count[k] >= share * c.analyzed
Exceeds(c, k, share) == 100 * c.count[k] > share * c.analyzed

Rejections(c, p) ==
    (IF Reaches(c, "spam", p.rejection_spam) THEN {"spam_ratio"} ELSE {})
    \cup (IF Reaches(c, "seller", p.rejection_seller) THEN {"seller_ratio"} ELSE {})
    \cup (IF c.analyzed >= p.rejection_evidence /\ c.count["commercial"] = 0
          THEN {"no_commercial_opportunities"} ELSE {})

Doubts(c, p) ==
    (IF c.languages = {} \/ c.language = None THEN {"language_unresolved"} ELSE {})
    \cup (IF c.categories = {} THEN {"category_unresolved"} ELSE {})
    \cup (IF ~Reaches(c, "commercial", p.yield) THEN {"low_opportunity_yield"} ELSE {})
    \cup (IF Exceeds(c, "seller", p.seller) THEN {"elevated_seller_ratio"} ELSE {})
    \cup (IF Exceeds(c, "spam", p.spam) THEN {"elevated_spam_ratio"} ELSE {})
    \cup (IF Exceeds(c, "duplicate", p.duplicate) THEN {"elevated_duplicate_ratio"} ELSE {})

Decide(c, p) ==
    IF c.analyzed < p.evidence THEN "needs_review"
    ELSE IF Rejections(c, p) # {} THEN "rejected"
    ELSE IF Doubts(c, p) # {} THEN "needs_review"
    ELSE "approved"

(* The status an audit moves its source to.                                *)
Target(kind, decision) ==
    IF kind = "initial" THEN decision
    ELSE IF decision = "approved" THEN "approved" ELSE "paused"

-----------------------------------------------------------------------------
(* The periodic re-audit: a source has its status, its health, when it was *)
(* last audited and the messages it has in a day, where these are known.   *)

Band(s, high, quiet) ==
    CASE s.health = "degraded" -> "degraded"
      [] s.health # "degraded" /\ s.rate = None -> "normal"
      [] s.health # "degraded" /\ s.rate # None /\ s.rate >= high -> "high_activity"
      [] s.health # "degraded" /\ s.rate # None /\ s.rate < high /\ s.rate <= quiet -> "quiet"
      [] OTHER -> "normal"

IsStale(s, now, cadence) == s.audited = None \/ s.audited <= now - cadence

IsDue(s, now, cadence, high, quiet) ==
    s.status = "approved" /\ IsStale(s, now, cadence[Band(s, high, quiet)])

Priority(s, high, quiet) ==
    LET band == Band(s, high, quiet)
    IN  IF band = "degraded" THEN 0
        ELSE IF s.audited = None THEN 1
        ELSE IF band = "high_activity" THEN 2
        ELSE IF band = "normal" THEN 3
        ELSE 4

(* The order of the list; a date that is missing sorts last.               *)
Precedes(s, t, high, quiet) ==
    LET p == Priority(s, high, quiet)
        q == Priority(t, high, quiet)
    IN  \/ p < q
        \/ p = q /\ s.audited # None /\ (t.audited = None \/ s.audited < t.audited)
        \/ p = q /\ s.audited = t.audited /\ s.id < t.id

(* list_due_for_periodic_reaudit                                           *)
DueSources(sources, now, cadence, high, quiet, limit) ==
    LET due == {s \in sources : IsDue(s, now, cadence, high, quiet)}
    IN  {s \in due : Cardinality({t \in due : Precedes(t, s, high, quiet)}) < limit}

(* _record_last_audit, record_activity: the latest date stays; an activity *)
(* of the same date replaces the one before.                               *)
LastAudit(audited, at) == IF audited = None \/ at > audited THEN at ELSE audited

Activity(row, new) ==
    IF row.observed # None /\ new.observed < row.observed THEN row
    ELSE [observed |-> new.observed, rate |-> new.rate,
          message |-> IF new.message = None THEN row.message
                      ELSE LastAudit(row.message, new.message)]

-----------------------------------------------------------------------------
(* Accounts: a source has its platform, access type and status; permitted  *)
(* are the pairs of account and source with a record of permitted access.  *)

(* record_source_access accepts a record for these only.                   *)
TakesRecord(a, s) == s.access = "private" /\ s.platform = a.platform

IsCompatible(a, s) == a.is_active /\ a.platform = s.platform

(* is_accessible_to_collector                                              *)
IsAccessible(a, s, permitted) ==
    /\ IsCompatible(a, s)
    /\ s.access = "public" \/ (s.access = "private" /\ <<a.id, s.id>> \in permitted)

(* _collector_eligibility: what list_for_collector and get_for_collector   *)
(* answer.                                                                 *)
IsCollected(a, s, permitted) ==
    s.status \in {"approved", "active", "degraded"} /\ IsAccessible(a, s, permitted)

(* resolve_source_access                                                   *)
Resolved(s, accounts, permitted) ==
    IF s.status # "approved" THEN {}
    ELSE {a \in accounts : /\ IsCompatible(a, s)
                           /\ s.access = "private" => <<a.id, s.id>> \in permitted}
=============================================================================
