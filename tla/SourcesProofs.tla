--------------------------- MODULE SourcesProofs ---------------------------
(***************************************************************************)
(* What the life of a source promises for every number of sources, runs of *)
(* the operator's commands, cycles and faults; and what the rules of the   *)
(* audits promise for every history of a source, and every classification  *)
(* and policy.                                                             *)
(***************************************************************************)
EXTENDS Sources, SourceRules, FiniteSetTheorems, TLAPS

-----------------------------------------------------------------------------
(* The newest and the oldest of a set of messages                          *)

LEMMA LaterIsAnOrder ==
  /\ \A m \in Message : ~Later(m, m)
  /\ \A l, m, n \in Message : Later(l, m) /\ Later(m, n) => Later(l, n)
  /\ \A m, n \in Message : m # n => Later(m, n) \/ Later(n, m)
<1>1. \A m \in Message : m.id \in Int /\ m.at \in Int
  BY DEF Message
<1>2. \A m, n \in Message : m.id = n.id /\ m.at = n.at => m = n
  BY DEF Message
<1> QED
  BY <1>1, <1>2 DEF Later

(* In a strict total order of a finite set, given by the elements before   *)
(* each one, at most n elements have fewer than n before them.             *)
LEMMA FewComeFirst ==
  ASSUME NEW S, IsFiniteSet(S), NEW n \in Nat, NEW before \in [S -> SUBSET S],
         \A l \in S : l \notin before[l],
         \A l \in S : \A m \in before[l] : before[m] \subseteq before[l],
         \A l \in S : \A m \in S : l # m => l \in before[m] \/ m \in before[l]
  PROVE  Cardinality({m \in S : Cardinality(before[m]) < n}) <= n
<1> DEFINE N == {m \in S : Cardinality(before[m]) < n}
           rank == [m \in N |-> Cardinality(before[m])]
<1>1. \A m \in S : IsFiniteSet(before[m]) /\ Cardinality(before[m]) \in Nat
  BY FS_Subset, FS_CardinalityType
<1>2. ASSUME NEW l \in S, NEW m \in S, l \in before[m]
      PROVE  Cardinality(before[l]) < Cardinality(before[m])
  <2>1. before[l] \in SUBSET before[m] /\ before[l] # before[m]
    BY <1>2
  <2> QED
    BY <1>1, <2>1, FS_Subset
<1>3. rank \in Injection(N, 0..(n - 1))
  <2>1. rank \in [N -> 0..(n - 1)]
    BY <1>1
  <2>2. \A l, m \in N : l # m => rank[l] # rank[m]
    BY <1>1, <1>2
  <2> HIDE DEF rank
  <2> QED
    BY <2>1, <2>2 DEF Injection, IsInjective
<1>4. IsFiniteSet(0..(n - 1)) /\ Cardinality(0..(n - 1)) = n
  <2>1. 0 \in Int /\ n - 1 \in Int
    OBVIOUS
  <2> QED
    BY <2>1, FS_Interval
<1> HIDE DEF rank
<1> QED
  BY <1>3, <1>4, FS_Injection

LEMMA NewestAreFew ==
  ASSUME NEW S, IsFiniteSet(S), S \subseteq Message, NEW n \in Nat
  PROVE  /\ Newest(n, S) \subseteq S /\ IsFiniteSet(Newest(n, S))
         /\ Cardinality(Newest(n, S)) <= n
<1> DEFINE before == [m \in S |-> {x \in S : Later(x, m)}]
<1>1. /\ before \in [S -> SUBSET S]
      /\ \A l \in S : l \notin before[l]
      /\ \A l \in S : \A m \in before[l] : before[m] \subseteq before[l]
      /\ \A l \in S : \A m \in S : l # m => l \in before[m] \/ m \in before[l]
  BY LaterIsAnOrder
<1>2. Newest(n, S) = {m \in S : Cardinality(before[m]) < n}
  BY DEF Newest
<1>3. Newest(n, S) \in SUBSET S
  BY DEF Newest
<1> HIDE DEF before
<1> QED
  BY <1>1, <1>2, <1>3, FewComeFirst, FS_Subset

LEMMA OldestAreFew ==
  ASSUME NEW S, IsFiniteSet(S), S \subseteq Message, NEW n \in Nat
  PROVE  /\ Oldest(n, S) \subseteq S /\ IsFiniteSet(Oldest(n, S))
         /\ Cardinality(Oldest(n, S)) <= n
<1> DEFINE before == [m \in S |-> {x \in S : Later(m, x)}]
<1>1. /\ before \in [S -> SUBSET S]
      /\ \A l \in S : l \notin before[l]
      /\ \A l \in S : \A m \in before[l] : before[m] \subseteq before[l]
      /\ \A l \in S : \A m \in S : l # m => l \in before[m] \/ m \in before[l]
  BY LaterIsAnOrder
<1>2. Oldest(n, S) = {m \in S : Cardinality(before[m]) < n}
  BY DEF Oldest
<1>3. Oldest(n, S) \in SUBSET S
  BY DEF Oldest
<1> HIDE DEF before
<1> QED
  BY <1>1, <1>2, <1>3, FewComeFirst, FS_Subset

LEMMA FetchesAreBounded ==
  ASSUME NEW h, IsFiniteSet(h), h \subseteq Message, NEW from \in Int, NEW to \in Int,
         NEW limit \in Nat
  PROVE  /\ FetchWindow(h, from, to, limit) \subseteq Within(h, from, to)
         /\ IsFiniteSet(FetchWindow(h, from, to, limit))
         /\ Cardinality(FetchWindow(h, from, to, limit)) <= limit
         /\ Cardinality(FetchWindow(h, from, to, limit)) <= MaxPerPass
<1> DEFINE S == {x \in h : x.at < to}
           n == IF limit <= MaxPerPass THEN limit ELSE MaxPerPass
           F == FetchWindow(h, from, to, limit)
<1>1. S \subseteq Message /\ S \in SUBSET h
  OBVIOUS
<1>2. IsFiniteSet(S)
  BY <1>1, FS_Subset
<1>3. n \in Nat /\ n <= limit /\ n <= MaxPerPass
  BY SourceRulesAssumption
<1>4. F = {m \in Newest(n, S) : from <= m.at}
  BY DEF FetchWindow
<1>5. F \subseteq Within(h, from, to)
  BY <1>4 DEF Newest, Within
<1> HIDE DEF S, n
<1>6. /\ IsFiniteSet(Newest(n, S)) /\ Cardinality(Newest(n, S)) <= n
      /\ Cardinality(Newest(n, S)) \in Nat
  BY <1>1, <1>2, <1>3, NewestAreFew, FS_CardinalityType
<1>7. F \in SUBSET Newest(n, S)
  BY <1>4
<1>8. IsFiniteSet(F) /\ Cardinality(F) <= Cardinality(Newest(n, S)) /\ Cardinality(F) \in Nat
  BY <1>6, <1>7, FS_Subset, FS_CardinalityType
<1> QED
  BY <1>3, <1>5, <1>6, <1>8, SourceRulesAssumption DEF F

LEMMA WindowStartIsBefore ==
  ASSUME NEW h, NEW at \in Int
  PROVE  WindowStart(h, at) \in Int /\ WindowStart(h, at) < at
BY SourceRulesAssumption DEF WindowStart

LEMMA EdgesAreInside ==
  ASSUME NEW from \in Int, NEW to \in Int, from < to, NEW i \in 0..Buckets
  PROVE  /\ BucketEdge(from, to, i) \in Int
         /\ from <= BucketEdge(from, to, i) /\ BucketEdge(from, to, i) <= to
<1> DEFINE d == to - from
           q == (d * i) \div Buckets
           r == (d * i) % Buckets
<1>1. Buckets \in Int /\ Buckets > 0 /\ d \in Int /\ d > 0 /\ i \in Int /\ 0 <= i /\ i <= Buckets
  BY SourceRulesAssumption
<1>2. d * i \in Int /\ 0 <= d * i /\ d * i <= d * Buckets
  BY <1>1
<1> HIDE DEF d
<1>3. q \in Int /\ r \in Int /\ 0 <= r /\ r < Buckets /\ d * i = Buckets * q + r
  BY <1>1, <1>2
<1> HIDE DEF q, r
<1>4. 0 <= q
  <2>1. SUFFICES ASSUME q < 0  PROVE FALSE
    BY <1>3
  <2>2. Buckets * q <= Buckets * (-1)
    BY <1>1, <1>3, <2>1
  <2> QED
    BY <1>1, <1>2, <1>3, <2>2
<1>5. q <= d
  <2>1. SUFFICES ASSUME q >= d + 1  PROVE FALSE
    BY <1>1, <1>3
  <2>2. Buckets * q >= Buckets * (d + 1)
    BY <1>1, <1>3, <2>1
  <2>3. Buckets * (d + 1) = d * Buckets + Buckets
    BY <1>1
  <2> QED
    BY <1>1, <1>2, <1>3, <2>2, <2>3
<1> QED
  BY <1>1, <1>3, <1>4, <1>5 DEF BucketEdge, q, d

LEMMA ProbesAreBounded ==
  ASSUME NEW h, IsFiniteSet(h), h \subseteq Message, NEW at \in Int
  PROVE  /\ Probe(h, at) \subseteq Within(h, WindowStart(h, at), at)
         /\ IsFiniteSet(Probe(h, at))
         /\ Cardinality(Probe(h, at)) \in Nat
         /\ Cardinality(Probe(h, at)) <= SampleSize + 1
         /\ Cardinality(Probe(h, at)) <= MaxPerPass
<1>1. SampleSize + 1 \in Nat
  BY SourceRulesAssumption
<1> QED
  BY <1>1, FetchesAreBounded, WindowStartIsBefore, FS_CardinalityType DEF Probe

LEMMA DrawnIsInside ==
  ASSUME NEW h, IsFiniteSet(h), h \subseteq Message,
         NEW from \in Int, NEW to \in Int, from < to
  PROVE  Drawn(h, from, to) \subseteq Within(h, from, to)
<1>1. SUFFICES ASSUME NEW i \in 0..(Buckets - 1), NEW limit \in Nat
               PROVE  FetchWindow(h, BucketEdge(from, to, i), BucketEdge(from, to, i + 1), limit)
                        \subseteq Within(h, from, to)
  <2>1. \A i \in 0..(Buckets - 1) : Quota(i) \in Nat
    BY SourceRulesAssumption DEF Quota
  <2> QED
    BY <1>1, <2>1 DEF Drawn
<1>2. i \in 0..Buckets /\ i + 1 \in 0..Buckets
  BY SourceRulesAssumption
<1>3. /\ BucketEdge(from, to, i) \in Int /\ BucketEdge(from, to, i + 1) \in Int
      /\ from <= BucketEdge(from, to, i) /\ BucketEdge(from, to, i + 1) <= to
  BY <1>2, EdgesAreInside
<1>4. FetchWindow(h, BucketEdge(from, to, i), BucketEdge(from, to, i + 1), limit)
        \subseteq Within(h, BucketEdge(from, to, i), BucketEdge(from, to, i + 1))
  BY <1>3, FetchesAreBounded
<1>5. \A m \in h : m.at \in Int
  BY DEF Message
<1> QED
  BY <1>3, <1>4, <1>5 DEF Within

(* The distributed sample never exceeds its size, although the quotas of   *)
(* its buckets and the messages it is filled up with are drawn apart.      *)
LEMMA DistributedIsBounded ==
  ASSUME NEW h, IsFiniteSet(h), h \subseteq Message,
         NEW from \in Int, NEW to \in Int, from < to,
         NEW probe, IsFiniteSet(probe), probe \subseteq Within(h, from, to)
  PROVE  LET taken == Distributed(h, from, to, probe)
         IN  /\ taken \subseteq Within(h, from, to)
             /\ IsFiniteSet(taken) /\ Cardinality(taken) <= SampleSize
<1> DEFINE drawn == Drawn(h, from, to)
           missing == SampleSize - Cardinality(drawn)
           rest == probe \ drawn
           fill == Oldest(missing, rest)
<1>1. drawn \subseteq Within(h, from, to) /\ Within(h, from, to) \subseteq h
  BY DrawnIsInside DEF Within
<1>2. /\ IsFiniteSet(drawn) /\ Cardinality(drawn) \in Nat /\ drawn \subseteq Message
      /\ IsFiniteSet(rest) /\ rest \subseteq Message /\ rest \subseteq Within(h, from, to)
  BY <1>1, FS_Subset, FS_CardinalityType
<1>3. SampleSize \in Nat /\ missing \in Int
  BY <1>2, SourceRulesAssumption
<1> HIDE DEF drawn, rest
<1>4. CASE missing > 0
  <2>1. /\ fill \subseteq rest /\ IsFiniteSet(fill) /\ Cardinality(fill) <= missing
        /\ Cardinality(fill) \in Nat
    <3>1. missing \in Nat
      BY <1>3, <1>4
    <3> HIDE DEF missing
    <3> QED
      BY <1>2, <3>1, OldestAreFew, FS_CardinalityType
  <2>2. Distributed(h, from, to, probe) = drawn \cup fill
    BY <1>4 DEF Distributed, drawn, rest
  <2>3. IsFiniteSet(drawn \cup fill) /\ Cardinality(drawn \cup fill) <= Cardinality(drawn) + Cardinality(fill)
    <3>1. /\ IsFiniteSet(drawn \cup fill)
          /\ Cardinality(drawn \cup fill)
               = Cardinality(drawn) + Cardinality(fill) - Cardinality(drawn \cap fill)
      BY <1>2, <2>1, FS_Union
    <3>2. Cardinality(drawn \cap fill) \in Nat
      <4>1. drawn \cap fill \in SUBSET drawn
        OBVIOUS
      <4> QED
        BY <1>2, <4>1, FS_Subset, FS_CardinalityType
    <3> QED
      BY <1>2, <2>1, <3>1, <3>2
  <2>4. IsFiniteSet(drawn \cup fill) /\ Cardinality(drawn \cup fill) \in Nat
    BY <2>3, FS_CardinalityType
  <2> QED
    BY <1>1, <1>2, <1>3, <2>1, <2>2, <2>3, <2>4
<1>5. CASE ~(missing > 0)
  <2>1. Distributed(h, from, to, probe) = Oldest(SampleSize, drawn)
    BY <1>5 DEF Distributed, drawn
  <2>2. /\ Oldest(SampleSize, drawn) \subseteq drawn /\ IsFiniteSet(Oldest(SampleSize, drawn))
        /\ Cardinality(Oldest(SampleSize, drawn)) <= SampleSize
    BY <1>2, <1>3, OldestAreFew
  <2> QED
    BY <1>1, <2>1, <2>2
<1> QED
  BY <1>4, <1>5

-----------------------------------------------------------------------------
(* The sample                                                              *)

(* However busy a source is, an audit reads messages of its window only,   *)
(* and no more of them than the sample holds (sample).                     *)
THEOREM SamplesFitTheBound ==
  ASSUME NEW h, IsFiniteSet(h), h \subseteq Message, NEW at \in Int
  PROVE  /\ Sample(h, at) \subseteq Within(h, WindowStart(h, at), at)
         /\ Cardinality(Sample(h, at)) <= SampleSize
<1>1. SampleSize \in Nat
  BY SourceRulesAssumption
<1>2. CASE HighVolume(h, at)
  BY <1>2, ProbesAreBounded, WindowStartIsBefore, DistributedIsBounded DEF Sample
<1>3. CASE ~HighVolume(h, at)
  BY <1>1, <1>3, ProbesAreBounded DEF Sample, HighVolume
<1> QED
  BY <1>2, <1>3

(* A reader whose pass holds no more than the sample, as the bot and the   *)
(* command line configure it, never shows that a source is busy: its       *)
(* newest messages are audited, and none is drawn from the whole window.   *)
THEOREM CappedReaderHidesVolume ==
  ASSUME NEW h, IsFiniteSet(h), h \subseteq Message, NEW at \in Int, MaxPerPass <= SampleSize
  PROVE  ~HighVolume(h, at) /\ Sample(h, at) = Probe(h, at)
<1>1. SampleSize \in Nat /\ MaxPerPass \in Nat
  BY SourceRulesAssumption
<1> QED
  BY <1>1, ProbesAreBounded DEF Sample, HighVolume

-----------------------------------------------------------------------------
(* The decision                                                            *)

(* No source is approved without evidence: a valid classification that a   *)
(* policy approves has the messages the policy asks for, at least one of   *)
(* them commercial when a yield is asked for, a known language among those *)
(* that were found, and a category (decide, validate_strict_result).       *)
THEOREM ApprovalNeedsEvidence ==
  ASSUME NEW c \in Classification, NEW p \in DecisionPolicy, NEW n \in Nat,
         IsValid(c, n), p.yield > 0, Decide(c, p) = "approved"
  PROVE  /\ n >= p.evidence /\ c.count["commercial"] > 0
         /\ c.language \in c.languages /\ c.categories # {}
<1>1. /\ c.analyzed \in Nat /\ c.count["commercial"] \in Nat /\ p.evidence \in Nat \ {0}
      /\ p.yield \in Int
  BY DEF Classification, DecisionPolicy, Counts, Percentage
<1>2. ~(c.analyzed < p.evidence) /\ Rejections(c, p) = {} /\ Doubts(c, p) = {}
  BY DEF Decide
<1>3. c.categories # {} /\ c.language # None /\ Reaches(c, "commercial", p.yield)
  BY <1>2 DEF Doubts
<1>4. 100 * c.count["commercial"] >= p.yield * c.analyzed
  BY <1>3 DEF Reaches
<1>5. c.analyzed > 0 /\ p.yield * c.analyzed > 0
  BY <1>1, <1>2
<1> QED
  BY <1>1, <1>2, <1>3, <1>4, <1>5 DEF IsValid

(* d is no better than c: as many messages, no fewer bad ones and no more  *)
(* commercial ones.                                                        *)
Worse(d, c) ==
    /\ d.analyzed = c.analyzed /\ d.language = c.language
    /\ d.languages = c.languages /\ d.categories = c.categories
    /\ d.count["commercial"] <= c.count["commercial"]
    /\ \A k \in {"spam", "seller", "duplicate"} : c.count[k] <= d.count[k]

(* Worse numbers never earn an approval, and never undo a rejection: the   *)
(* decision is monotone in every count, for every policy (decide).         *)
THEOREM WorseNumbersDecideNoBetter ==
  ASSUME NEW c \in Classification, NEW d \in Classification, NEW p \in DecisionPolicy,
         Worse(d, c)
  PROVE  /\ Decide(d, p) = "approved" => Decide(c, p) = "approved"
         /\ Decide(c, p) = "rejected" => Decide(d, p) = "rejected"
<1>1. /\ \A k \in Counts : c.count[k] \in Nat /\ d.count[k] \in Nat
      /\ c.analyzed \in Nat /\ d.analyzed = c.analyzed
  BY DEF Classification, Worse
<1>2. /\ p.rejection_evidence \in Nat
      /\ {p.yield, p.seller, p.spam, p.duplicate, p.rejection_spam, p.rejection_seller} \subseteq Int
  BY DEF DecisionPolicy, Percentage
<1>3. ASSUME NEW k \in {"spam", "seller", "duplicate"}, NEW share \in Int
      PROVE  /\ Reaches(c, k, share) => Reaches(d, k, share)
             /\ Exceeds(c, k, share) => Exceeds(d, k, share)
  <2>1. /\ c.count[k] \in Nat /\ d.count[k] \in Nat /\ c.count[k] <= d.count[k]
        /\ d.analyzed = c.analyzed
    BY <1>1 DEF Worse, Counts
  <2>2. share * c.analyzed \in Int /\ share * d.analyzed = share * c.analyzed
    BY <1>1, <2>1
  <2> QED
    BY <2>1, <2>2 DEF Reaches, Exceeds
<1>4. Reaches(d, "commercial", p.yield) => Reaches(c, "commercial", p.yield)
  <2>1. /\ c.count["commercial"] \in Nat /\ d.count["commercial"] \in Nat
        /\ d.count["commercial"] <= c.count["commercial"] /\ d.analyzed = c.analyzed
    BY <1>1 DEF Worse, Counts
  <2>2. p.yield * c.analyzed \in Int /\ p.yield * d.analyzed = p.yield * c.analyzed
    BY <1>1, <1>2, <2>1
  <2> QED
    BY <2>1, <2>2 DEF Reaches
<1>5. Rejections(c, p) \subseteq Rejections(d, p)
  <2>1. /\ Reaches(c, "spam", p.rejection_spam) => Reaches(d, "spam", p.rejection_spam)
        /\ Reaches(c, "seller", p.rejection_seller) => Reaches(d, "seller", p.rejection_seller)
    BY <1>2, <1>3
  <2>2. c.count["commercial"] = 0 => d.count["commercial"] = 0
    BY <1>1 DEF Worse, Counts
  <2> QED
    BY <1>1, <2>1, <2>2 DEF Rejections
<1>6. Doubts(c, p) \subseteq Doubts(d, p)
  <2>1. /\ Exceeds(c, "seller", p.seller) => Exceeds(d, "seller", p.seller)
        /\ Exceeds(c, "spam", p.spam) => Exceeds(d, "spam", p.spam)
        /\ Exceeds(c, "duplicate", p.duplicate) => Exceeds(d, "duplicate", p.duplicate)
    BY <1>2, <1>3
  <2> QED
    BY <1>4, <2>1 DEF Doubts, Worse
<1> QED
  BY <1>1, <1>5, <1>6 DEF Decide

-----------------------------------------------------------------------------
(* The re-audit and the accounts                                           *)

(* No approved source escapes the periodic re-audit: whatever its health   *)
(* and its volume are, it is due when the longest of the cadences has      *)
(* passed since its last audit, or when it was never audited               *)
(* (list_due_for_periodic_reaudit).                                        *)
THEOREM EveryApprovedSourceComesUp ==
  ASSUME NEW s, s.status = "approved", NEW now \in Int, NEW high, NEW quiet,
         NEW cadence, NEW longest \in Nat,
         \A band \in {"degraded", "normal", "high_activity", "quiet"} :
             cadence[band] \in Nat /\ cadence[band] <= longest,
         s.audited = None \/ (s.audited \in Int /\ s.audited <= now - longest)
  PROVE  IsDue(s, now, cadence, high, quiet)
<1>1. Band(s, high, quiet) \in {"degraded", "normal", "high_activity", "quiet"}
  BY DEF Band
<1>2. cadence[Band(s, high, quiet)] \in Nat /\ cadence[Band(s, high, quiet)] <= longest
  BY <1>1
<1>3. s.audited \in Int /\ s.audited <= now - longest
        => s.audited <= now - cadence[Band(s, high, quiet)]
  BY <1>2
<1> QED
  BY <1>3 DEF IsDue, IsStale

(* The two answers to which account may read a source agree for public and *)
(* private sources: an account that source access resolves to is one that  *)
(* collects the source, while it is approved (resolve_source_access,       *)
(* list_for_collector).                                                    *)
THEOREM CatalogsAgree ==
  ASSUME NEW s, s.access \in {"public", "private"}, NEW accounts, NEW permitted,
         NEW a \in accounts
  PROVE  a \in Resolved(s, accounts, permitted)
           <=> s.status = "approved" /\ IsCollected(a, s, permitted)
BY DEF Resolved, IsCollected, IsAccessible, IsCompatible

-----------------------------------------------------------------------------
(* The life of a source: the rows stay those the tables allow              *)

LEMMA BoundsOfSources ==
  /\ MaxOverrides \in Nat /\ MaxFaults \in Nat
  /\ AuditLimit \in Nat \ {0} /\ MaxBucket \in Nat \ {0} /\ MaxClock \in Nat \ {0}
  /\ IsFiniteSet(Sources) /\ "bot" \notin Clis
BY SourcesAssumption

LEMMA SourcesInit ==
  Init => TypeOK
<1> USE BoundsOfSources DEF Auditors
<1> SUFFICES ASSUME Init PROVE TypeOK
  OBVIOUS
<1>1. status \in [Sources -> SourceStatus \cup {"absent"}]
  BY DEF Init, SourceStatus
<1>2. health \in [Sources -> HealthRow]
  BY DEF Init, HealthRow
<1>3. audit \in [Auditors -> Audit] /\ \A a \in Auditors : audit[a].pc = "idle"
  BY DEF Init, Audit, Idle, SourceStatus
<1>4. loop \in Loop
  BY DEF Init, Loop, Started
<1>5. /\ wake \in BOOLEAN /\ active \subseteq Sources
      /\ ran \subseteq {"graph", "web"} \X (0..MaxBucket)
  BY Zenon DEF Init
<1>7. /\ bucket \in 1..MaxBucket /\ clock \in 0..MaxClock
      /\ overrides \in 0..MaxOverrides /\ faults \in 0..MaxFaults
  <2>1. bucket = 1 /\ clock = 0 /\ overrides = 0 /\ faults = 0
    BY DEF Init
  <2> QED
    BY <2>1
<1>6. /\ by \in [Sources -> {"none", "initial", "reaudit", "operator"}]
      /\ overtaken \subseteq Sources /\ owed \subseteq Sources
  BY DEF Init
<1> QED
  BY <1>1, <1>2, <1>3, <1>4, <1>5, <1>6, <1>7 DEF TypeOK

(* What the end of an audit, with or without a decision, does to the       *)
(* auditors and to the loop.                                               *)
LEMMA EndOfAnAudit ==
  ASSUME TypeOK, NEW a \in Auditors, NEW target, audit[a].pc # "idle", EndAudit(a, target)
  PROVE  /\ audit' \in [Auditors -> Audit] /\ loop' \in Loop
         /\ loop'.pc = loop.pc /\ loop'.listed = loop.listed
         /\ loop.reload => loop'.reload
         /\ audit'[a] = Idle
         /\ \A b \in Auditors : b # a => audit'[b] = audit[b]
         /\ a # "bot" => loop' = loop
<1> USE BoundsOfSources
<1>1. Idle \in Audit
  BY DEF Idle, Audit, SourceStatus
<1>2. audit[a] \in Audit /\ loop \in Loop /\ audit[a].of \in Sources
  BY DEF TypeOK
<1>3. /\ audit' = [audit EXCEPT ![a] = Idle] /\ audit \in [Auditors -> Audit]
  BY DEF EndAudit, TypeOK
<1>4. CASE a # "bot"
  BY <1>1, <1>2, <1>3, <1>4 DEF EndAudit
<1>5. CASE a = "bot"
  <2> DEFINE reload == loop.reload \/ IF target = "failed" THEN audit[a].kind = "reaudit"
                          ELSE Reloads(audit[a].kind, audit[a].seen, target)
             done == IF target = "failed" THEN loop.done ELSE loop.done \cup {audit[a].of}
  <2>1. loop' = [loop EXCEPT !.done = done, !.reload = reload]
    BY <1>5 DEF EndAudit
  <2>2. reload \in BOOLEAN /\ (loop.reload => reload)
    BY <1>2 DEF Reloads, Loop
  <2>3. done \in SUBSET Sources
    BY <1>2 DEF Loop
  <2> HIDE DEF reload, done
  <2>4. loop' \in Loop /\ loop'.pc = loop.pc /\ loop'.listed = loop.listed /\ loop'.reload = reload
    BY <1>2, <2>1, <2>2, <2>3 DEF Loop
  <2> QED
    BY <1>1, <1>3, <1>5, <2>2, <2>4
<1> QED
  BY <1>4, <1>5

LEMMA StoreAuditKeepsTypes ==
  ASSUME TypeOK, NEW a \in Auditors, NEW target, StoreAudit(a, target)
  PROVE  TypeOK'
<1> USE BoundsOfSources
<1> DEFINE s == audit[a].of
           re == audit[a].kind = "reaudit"
<1>1. audit[a].pc = "store" /\ EndAudit(a, target)
  BY DEF StoreAudit
<1>2. s \in Sources /\ audit[a] \in Audit /\ target \in SourceStatus
  BY <1>1 DEF TypeOK, StoreAudit, Decisions, SourceStatus
<1>3. status' \in [Sources -> SourceStatus \cup {"absent"}]
  BY <1>2 DEF TypeOK, StoreAudit
<1>4. health' \in [Sources -> HealthRow]
  <2>1. audit[a].at \in 0..MaxClock
    BY <1>2 DEF Audit
  <2>2. \A is \in {"healthy", "degraded"} : HealthSet(s, audit[a].at, is) \in HealthRow
    BY <1>2, <2>1 DEF HealthSet, HealthRow, TypeOK
  <2> QED
    BY <1>2, <2>2 DEF TypeOK, StoreAudit
<1>5. by' \in [Sources -> {"none", "initial", "reaudit", "operator"}]
  BY <1>2 DEF TypeOK, StoreAudit, Audit
<1>6. overtaken' \subseteq Sources /\ owed' \subseteq Sources
  BY <1>2 DEF TypeOK, StoreAudit
<1>7. UNCHANGED <<wake, active, ran, bucket, clock, overrides, faults>>
  BY DEF StoreAudit
<1>8. /\ audit' \in [Auditors -> Audit] /\ loop' \in Loop /\ loop'.pc = loop.pc
      /\ audit'[a] = Idle /\ \A b \in Auditors : b # a => audit'[b] = audit[b]
  BY <1>1, EndOfAnAudit
<1>9. /\ \A b \in Auditors : audit'[b].pc # "idle" => audit'[b].of \in Sources
      /\ audit'["bot"].pc # "idle" => loop'.pc \in {"audit", "reaudit"}
  BY <1>8 DEF TypeOK, Idle, Auditors
<1> QED
  BY <1>3, <1>4, <1>5, <1>6, <1>7, <1>8, <1>9 DEF TypeOK

(* Every step of the auditors and of the operator keeps the types.         *)
LEMMA AuditorsKeepTypes ==
  ASSUME TypeOK, NEW a \in Auditors, NEW s \in Sources
  PROVE  /\ Reread(a) \/ AuditFails(a) => TypeOK'
         /\ \A kind \in {"initial", "reaudit"} : a \in Clis /\ CliAudit(a, s, kind) => TypeOK'
         /\ \A target \in OverrideTargets : Override(s, target) => TypeOK'
<1> USE BoundsOfSources DEF rows
<1>1. ASSUME Reread(a) PROVE TypeOK'
  <2>1. /\ audit[a] \in Audit /\ audit[a].pc = "classify" /\ audit[a].of \in Sources
        /\ status[audit[a].of] \in SourceStatus
    BY <1>1 DEF TypeOK, Reread, Accepts, Audited, SourceStatus
  <2>2. audit' \in [Auditors -> Audit]
    BY <1>1, <2>1 DEF TypeOK, Reread, Audit
  <2>3. \A b \in Auditors : /\ audit'[b].of = audit[b].of
                            /\ audit'[b].pc # "idle" => audit[b].pc # "idle"
    BY <1>1, <2>1 DEF TypeOK, Reread, Audit
  <2> QED
    BY <1>1, <2>2, <2>3 DEF TypeOK, Reread, Auditors
<1>2. ASSUME AuditFails(a) PROVE TypeOK'
  <2>1. audit[a].pc # "idle" /\ EndAudit(a, "failed")
    BY <1>2 DEF AuditFails
  <2>2. /\ audit' \in [Auditors -> Audit] /\ loop' \in Loop /\ loop'.pc = loop.pc
        /\ audit'[a] = Idle /\ \A b \in Auditors : b # a => audit'[b] = audit[b]
    BY <2>1, EndOfAnAudit
  <2>3. /\ \A b \in Auditors : audit'[b].pc # "idle" => audit'[b].of \in Sources
        /\ audit'["bot"].pc # "idle" => loop'.pc \in {"audit", "reaudit"}
    BY <2>2 DEF TypeOK, Idle, Auditors
  <2> QED
    BY <1>2, <2>2, <2>3 DEF TypeOK, AuditFails
<1>3. ASSUME NEW kind \in {"initial", "reaudit"}, a \in Clis, CliAudit(a, s, kind)
      PROVE  TypeOK'
  <2>1. clock' \in 0..MaxClock /\ clock + 1 \in 0..MaxClock
    BY <1>3 DEF TypeOK, CliAudit
  <2>2. status[s] \in SourceStatus
    BY <1>3 DEF CliAudit, Accepts, Audited, SourceStatus
  <2>3. Begun(s, kind, clock + 1) \in Audit
    BY <2>1, <2>2 DEF Begun, Audit
  <2>4. /\ audit' \in [Auditors -> Audit]
        /\ \A b \in Auditors : audit'[b].pc # "idle" => audit'[b].of \in Sources
        /\ audit'["bot"] = audit["bot"]
    BY <1>3, <2>3 DEF TypeOK, CliAudit, Begun, Auditors
  <2> QED
    BY <1>3, <2>1, <2>4 DEF TypeOK, CliAudit
<1>4. ASSUME NEW target \in OverrideTargets, Override(s, target) PROVE TypeOK'
  <2>1. status' \in [Sources -> SourceStatus \cup {"absent"}]
    BY <1>4 DEF TypeOK, Override, OverrideTargets, SourceStatus
  <2>2. audit' \in [Auditors -> Audit]
    <3>1. ASSUME NEW b \in Auditors
          PROVE  [audit[b] EXCEPT !.overridden = TRUE,
                                  !.raced = @ \/ audit[b].pc = "store"] \in Audit
      <4>1. audit[b] \in Audit /\ (audit[b].raced \/ audit[b].pc = "store") \in BOOLEAN
        BY DEF TypeOK, Audit
      <4> QED
        BY <4>1 DEF Audit
    <3>2. \A b \in Auditors : audit[b] \in Audit
      BY DEF TypeOK
    <3> QED
      BY <1>4, <3>1, <3>2 DEF Override
  <2>3. \A b \in Auditors : audit'[b].of = audit[b].of /\ audit'[b].pc = audit[b].pc
    BY <1>4 DEF TypeOK, Override, Audit
  <2>4. overrides' \in 0..MaxOverrides
    <3>1. overrides \in 0..MaxOverrides
      BY DEF TypeOK
    <3>2. overrides < MaxOverrides /\ overrides' = overrides + 1
      BY <1>4 DEF Override
    <3> QED
      BY <3>1, <3>2
  <2>5. by' \in [Sources -> {"none", "initial", "reaudit", "operator"}] /\ owed' \subseteq Sources
    BY <1>4 DEF TypeOK, Override
  <2> QED
    BY <1>4, <2>1, <2>2, <2>3, <2>4, <2>5 DEF TypeOK, Override, Auditors
<1> QED
  BY <1>1, <1>2, <1>3, <1>4

(* Every step of the loop keeps the types.                                 *)
LEMMA AuditingKeepsTypes ==
  ASSUME TypeOK
  PROVE  /\ \A found, todo \in SUBSET Sources : Discover(found, todo) => TypeOK'
         /\ \A s \in Sources : AuditCandidate(s) \/ Reaudit(s) => TypeOK'
         /\ \A due \in SUBSET Sources : ListDue(due) => TypeOK'
<1> USE BoundsOfSources DEF rows
<1>0. loop \in Loop /\ "bot" \in Auditors /\ audit["bot"] \in Audit
  BY DEF TypeOK, Auditors
<1>1. ASSUME NEW found \in SUBSET Sources, NEW todo \in SUBSET Sources, Discover(found, todo)
      PROVE  TypeOK'
  <2>1. status' \in [Sources -> SourceStatus \cup {"absent"}]
    BY <1>1 DEF TypeOK, Discover, SourceStatus
  <2>2. ran' \subseteq {"graph", "web"} \X (0..MaxBucket)
    BY <1>0, <1>1 DEF TypeOK, Discover, Keys, Loop
  <2>3. loop' \in Loop /\ loop'.pc = "audit"
    BY <1>0, <1>1 DEF Discover, Loop
  <2> QED
    BY <1>1, <2>1, <2>2, <2>3 DEF TypeOK, Discover
<1>2. ASSUME NEW s \in Sources, AuditCandidate(s) PROVE TypeOK'
  <2>1. loop' \in Loop /\ loop'.pc = "audit" /\ loop.at \in 0..MaxClock
    BY <1>0, <1>2 DEF AuditCandidate, Loop
  <2>2. status[s] \in Audited => Begun(s, "initial", loop.at) \in Audit
    BY <2>1 DEF Begun, Audit, Audited, SourceStatus
  <2>3. /\ audit' \in [Auditors -> Audit]
        /\ \A b \in Auditors : audit'[b].pc # "idle" => audit'[b].of \in Sources
    BY <1>0, <1>2, <2>2 DEF TypeOK, AuditCandidate, Begun
  <2> QED
    BY <1>2, <2>1, <2>3 DEF TypeOK, AuditCandidate
<1>3. ASSUME NEW s \in Sources, Reaudit(s) PROVE TypeOK'
  <2>1. loop.pc = "reaudit" /\ loop.at \in 0..MaxClock /\ loop.due \ {s} \in SUBSET Sources
    BY <1>0, <1>3 DEF Reaudit, Loop
  <2>2. UNCHANGED <<rows, wake, active, ran, bucket, clock, overrides, faults, owed>>
    BY <1>3 DEF Reaudit
  <2>3. CASE status[s] = "approved"
    <3>1. /\ audit' = [audit EXCEPT !["bot"] = Begun(s, "reaudit", loop.at)]
          /\ loop' = [loop EXCEPT !.due = @ \ {s}]
      BY <1>3, <2>3 DEF Reaudit
    <3>2. loop' \in Loop /\ loop'.pc = "reaudit"
      BY <1>0, <2>1, <3>1 DEF Loop
    <3>3. Begun(s, "reaudit", loop.at) \in Audit
      BY <2>1, <2>3 DEF Begun, Audit, SourceStatus
    <3>4. /\ audit' \in [Auditors -> Audit]
          /\ \A b \in Auditors : audit'[b].pc # "idle" => audit'[b].of \in Sources
      BY <1>0, <3>1, <3>3 DEF TypeOK, Begun
    <3> QED
      BY <2>2, <3>2, <3>4 DEF TypeOK
  <2>4. CASE status[s] # "approved"
    <3>1. audit' = audit /\ loop' = [loop EXCEPT !.due = @ \ {s}, !.reload = TRUE]
      BY <1>3, <2>4 DEF Reaudit
    <3>2. loop' \in Loop /\ loop'.pc = "reaudit"
      BY <1>0, <2>1, <3>1 DEF Loop
    <3> QED
      BY <2>2, <3>1, <3>2 DEF TypeOK
  <2> QED
    BY <2>3, <2>4
<1>4. ASSUME NEW due \in SUBSET Sources, ListDue(due) PROVE TypeOK'
  <2>1. loop' \in Loop /\ loop'.pc = "reaudit"
    BY <1>0, <1>4 DEF ListDue, Loop
  <2> QED
    BY <1>4, <2>1 DEF TypeOK, ListDue
<1> QED
  BY <1>1, <1>2, <1>3, <1>4

LEMMA LoopKeepsTypes ==
  ASSUME TypeOK
  PROVE  /\ WakeUp \/ BeginCycle \/ Conflict \/ EndCycle \/ ListSources => TypeOK'
         /\ CycleFails \/ Restart \/ NextBucket => TypeOK'
         /\ \A unresolved \in SUBSET Sources : RegisterHandlers(unresolved) => TypeOK'
         /\ \A s \in Sources : WatchCandidate(s) => TypeOK'
<1> USE BoundsOfSources DEF rows
<1>0. /\ loop \in Loop /\ "bot" \in Auditors /\ audit["bot"] \in Audit
      /\ audit["bot"].pc # "idle" => loop.pc \in {"audit", "reaudit"}
  BY DEF TypeOK, Auditors
<1>1. ASSUME WakeUp PROVE TypeOK'
  <2>1. loop' \in Loop /\ audit["bot"].pc = "idle"
    BY <1>0, <1>1 DEF WakeUp, Loop
  <2> QED
    BY <1>1, <2>1 DEF TypeOK, WakeUp
<1>2. ASSUME BeginCycle PROVE TypeOK'
  <2>1. clock + 1 \in 0..MaxClock /\ bucket \in 0..MaxBucket
    BY <1>2 DEF TypeOK, BeginCycle
  <2>2. loop' \in Loop /\ audit["bot"].pc = "idle"
    BY <1>0, <1>2, <2>1 DEF BeginCycle, Loop, Started
  <2> QED
    BY <1>2, <2>1, <2>2 DEF TypeOK, BeginCycle
<1>3. ASSUME Conflict PROVE TypeOK'
  <2>1. loop' \in Loop /\ audit["bot"].pc = "idle"
    BY <1>0, <1>3 DEF Conflict, Loop
  <2>2. ran' \subseteq {"graph", "web"} \X (0..MaxBucket)
    BY <1>0, <1>3 DEF TypeOK, Conflict, Keys, Loop
  <2> QED
    BY <1>3, <2>1, <2>2 DEF TypeOK, Conflict
<1>4. ASSUME EndCycle PROVE TypeOK'
  <2>1. loop' \in Loop /\ audit["bot"].pc = "idle"
    BY <1>0, <1>4 DEF EndCycle, Loop
  <2> QED
    BY <1>4, <2>1 DEF TypeOK, EndCycle
<1>5. ASSUME ListSources PROVE TypeOK'
  <2>1. loop' \in Loop /\ audit["bot"].pc = "idle"
    BY <1>0, <1>5 DEF ListSources, Loop, With
  <2> QED
    BY <1>5, <2>1 DEF TypeOK, ListSources
<1>6. ASSUME CycleFails PROVE TypeOK'
  <2>1. loop' \in Loop /\ audit["bot"].pc = "idle"
    BY <1>0, <1>6 DEF CycleFails, Loop
  <2>2. faults' \in 0..MaxFaults
    BY <1>6 DEF TypeOK, CycleFails
  <2> QED
    BY <1>6, <2>1, <2>2 DEF TypeOK, CycleFails
<1>7. ASSUME Restart PROVE TypeOK'
  <2>1. Idle \in Audit /\ Idle.pc = "idle"
    BY DEF Idle, Audit, SourceStatus
  <2>2. /\ audit' \in [Auditors -> Audit] /\ audit'["bot"].pc = "idle"
        /\ \A b \in Auditors : audit'[b].pc # "idle" => audit'[b].of \in Sources
    BY <1>0, <1>7, <2>1 DEF TypeOK, Restart
  <2>3. loop' \in Loop /\ faults' \in 0..MaxFaults
    BY <1>7 DEF TypeOK, Restart, Loop, Started
  <2> QED
    BY <1>7, <2>2, <2>3 DEF TypeOK, Restart
<1>8. ASSUME NextBucket PROVE TypeOK'
  <2>1. bucket' \in 1..MaxBucket
    BY <1>8 DEF TypeOK, NextBucket
  <2> QED
    BY <1>8, <2>1 DEF TypeOK, NextBucket
<1>9. ASSUME NEW unresolved \in SUBSET Sources, RegisterHandlers(unresolved) PROVE TypeOK'
  <2>1. IsFiniteSet(unresolved) /\ Cardinality(unresolved) \in Nat
    BY FS_Subset, FS_CardinalityType
  <2>2. faults' \in 0..MaxFaults
    BY <1>9, <2>1 DEF TypeOK, RegisterHandlers
  <2>3. loop' \in Loop /\ audit["bot"].pc = "idle" /\ active' \subseteq Sources
    BY <1>0, <1>9 DEF RegisterHandlers, Loop
  <2> QED
    BY <1>9, <2>2, <2>3 DEF TypeOK, RegisterHandlers
<1>10. ASSUME NEW s \in Sources, WatchCandidate(s) PROVE TypeOK'
  <2>1. status' \in [Sources -> SourceStatus \cup {"absent"}]
    BY <1>10 DEF TypeOK, WatchCandidate, SourceStatus
  <2> QED
    BY <1>10, <2>1 DEF TypeOK, WatchCandidate
<1> QED
  BY <1>1, <1>2, <1>3, <1>4, <1>5, <1>6, <1>7, <1>8, <1>9, <1>10

LEMMA SourcesNext ==
  TypeOK /\ [Next]_vars => TypeOK'
<1> SUFFICES ASSUME TypeOK, [Next]_vars PROVE TypeOK'
  OBVIOUS
<1>1. CASE UNCHANGED vars
  BY <1>1 DEF TypeOK, vars
<1>2. ASSUME NEW a \in Auditors,
             Reread(a) \/ AuditFails(a) \/ \E target \in SourceStatus : StoreAudit(a, target)
      PROVE  TypeOK'
  <2>1. CASE Reread(a)
    <3>1. audit[a].of \in Sources
      BY <2>1 DEF TypeOK, Reread
    <3> QED
      BY <2>1, <3>1, AuditorsKeepTypes
  <2>2. CASE AuditFails(a)
    <3>1. audit[a].of \in Sources
      BY <2>2 DEF TypeOK, AuditFails
    <3> QED
      BY <2>2, <3>1, AuditorsKeepTypes
  <2> QED
    BY <1>2, <2>1, <2>2, StoreAuditKeepsTypes
<1>3. ASSUME NEW a \in Clis, NEW s \in Sources, NEW kind \in {"initial", "reaudit"},
             CliAudit(a, s, kind)
      PROVE  TypeOK'
  BY <1>3, AuditorsKeepTypes DEF Auditors
<1>4. ASSUME NEW s \in Sources,
             \/ AuditCandidate(s) \/ Reaudit(s) \/ WatchCandidate(s)
             \/ \E target \in OverrideTargets : Override(s, target)
      PROVE  TypeOK'
  <2>1. "bot" \in Auditors
    BY DEF Auditors
  <2>2. AuditCandidate(s) \/ Reaudit(s) => TypeOK'
    BY AuditingKeepsTypes
  <2>3. WatchCandidate(s) => TypeOK'
    BY LoopKeepsTypes
  <2>4. \A target \in OverrideTargets : Override(s, target) => TypeOK'
    BY <2>1, AuditorsKeepTypes
  <2> QED
    BY <1>4, <2>2, <2>3, <2>4
<1>5. ASSUME NEW found \in SUBSET Sources, NEW todo \in SUBSET Sources, Discover(found, todo)
      PROVE  TypeOK'
  BY <1>5, AuditingKeepsTypes
<1>6. ASSUME NEW due \in SUBSET Sources, ListDue(due)
      PROVE  TypeOK'
  BY <1>6, AuditingKeepsTypes
<1>7. ASSUME NEW unresolved \in SUBSET Sources, RegisterHandlers(unresolved)
      PROVE  TypeOK'
  BY <1>7, LoopKeepsTypes
<1>8. CASE \/ WakeUp \/ BeginCycle \/ Conflict \/ EndCycle \/ ListSources
           \/ CycleFails \/ Restart \/ NextBucket
  BY <1>8, LoopKeepsTypes
<1> QED
  BY <1>1, <1>2, <1>3, <1>4, <1>5, <1>6, <1>7, <1>8 DEF Next

(* The rows of the sources, the audits and the loop are always those their *)
(* tables and code allow, and the bot audits only while its loop is        *)
(* auditing: run_once awaits one audit after another.                      *)
THEOREM SourcesTypeCorrect == Spec => []TypeOK
<1> QED
  BY SourcesInit, SourcesNext, PTL DEF Spec

-----------------------------------------------------------------------------
(* What an auditor holds between its steps                                 *)

(* An auditor at work has a source that exists, and a status read for the  *)
(* second time is one its kind of audit accepts.                           *)
AuditsAreAccepted ==
  \A a \in Auditors :
    /\ audit[a].pc # "idle" => status[audit[a].of] # "absent"
    /\ audit[a].pc = "store" => audit[a].seen \in Accepts(audit[a].kind)

(* A status the operator wrote last is one the command accepts.            *)
OperatorsChoose ==
  \A s \in Sources : by[s] = "operator" => status[s] \in OverrideTargets

(* An operator's status is the one read for the second time, unless it was *)
(* written since.                                                          *)
SeenUnlessRaced ==
  \A a \in Auditors :
    /\ audit[a].pc = "store" /\ by[audit[a].of] = "operator" /\ ~audit[a].raced
    => audit[a].seen = status[audit[a].of]

(* The steps that only add candidates.                                     *)
OnlyCandidatesAppear ==
  by' = by /\ \A s \in Sources : status'[s] # status[s] =>
                                   status[s] = "absent" /\ status'[s] = "candidate"

(* An auditor's record after a step: kept, ended, begun anew, or, when the *)
(* status is read again, advanced.                                         *)
AuditMoves(a) ==
  \/ audit'[a] = audit[a] \/ audit'[a].pc = "idle"
  \/ audit'[a].pc = "classify" /\ status[audit'[a].of] # "absent"
  \/ /\ audit[a].pc = "classify" /\ audit'[a].pc = "store"
     /\ audit'[a].of = audit[a].of /\ audit'[a].kind = audit[a].kind
     /\ audit'[a].seen = status[audit[a].of] /\ audit'[a].seen \in Accepts(audit[a].kind)

(* Every step but the store of an audit and the operator's override leaves *)
(* the statuses to themselves or adds candidates.                          *)
LEMMA QuietSteps ==
  ASSUME TypeOK, [Next]_vars,
         ~ \E a \in Auditors, target \in SourceStatus : StoreAudit(a, target),
         ~ \E s \in Sources, target \in OverrideTargets : Override(s, target)
  PROVE  /\ OnlyCandidatesAppear
         /\ \A a \in Auditors : AuditMoves(a)
<1> USE BoundsOfSources DEF rows, OnlyCandidatesAppear, AuditMoves
<1>0. "bot" \in Auditors /\ audit \in [Auditors -> Audit]
  BY DEF TypeOK, Auditors
<1>1. CASE UNCHANGED vars
  BY <1>1 DEF vars
<1>2. ASSUME NEW a \in Auditors, Reread(a)
      PROVE  OnlyCandidatesAppear /\ \A b \in Auditors : AuditMoves(b)
  <2>1. /\ status' = status /\ by' = by /\ audit[a].pc = "classify"
        /\ status[audit[a].of] \in Accepts(audit[a].kind)
        /\ audit' = [audit EXCEPT ![a].pc = "store", ![a].seen = status[audit[a].of]]
    BY <1>2 DEF Reread
  <2>2. audit[a] \in Audit
    BY <1>0
  <2>3. AuditMoves(a)
    BY <1>0, <2>1, <2>2 DEF Audit
  <2>4. \A b \in Auditors : b # a => audit'[b] = audit[b]
    BY <1>0, <2>1
  <2> QED
    BY <2>1, <2>3, <2>4
<1>3. ASSUME NEW a \in Auditors, AuditFails(a)
      PROVE  OnlyCandidatesAppear /\ \A b \in Auditors : AuditMoves(b)
  <2>1. status' = status /\ by' = by /\ audit[a].pc # "idle" /\ EndAudit(a, "failed")
    BY <1>3 DEF AuditFails
  <2>2. audit'[a] = Idle /\ \A b \in Auditors : b # a => audit'[b] = audit[b]
    BY <2>1, EndOfAnAudit
  <2> QED
    BY <2>1, <2>2 DEF Idle
<1>4. ASSUME NEW a \in Clis, NEW s \in Sources, NEW kind \in {"initial", "reaudit"},
             CliAudit(a, s, kind)
      PROVE  OnlyCandidatesAppear /\ \A b \in Auditors : AuditMoves(b)
  <2>1. status[s] # "absent"
    BY <1>4 DEF CliAudit, Accepts, Audited
  <2>2. status' = status /\ by' = by /\ audit' = [audit EXCEPT ![a] = Begun(s, kind, clock + 1)]
    BY <1>4 DEF CliAudit
  <2> QED
    BY <1>0, <2>1, <2>2 DEF Begun
<1>5. ASSUME NEW s \in Sources, AuditCandidate(s)
      PROVE  OnlyCandidatesAppear /\ \A b \in Auditors : AuditMoves(b)
  BY <1>0, <1>5 DEF AuditCandidate, Begun, Audited
<1>6. ASSUME NEW s \in Sources, Reaudit(s)
      PROVE  OnlyCandidatesAppear /\ \A b \in Auditors : AuditMoves(b)
  <2>1. CASE status[s] = "approved"
    BY <1>0, <1>6, <2>1 DEF Reaudit, Begun
  <2>2. CASE status[s] # "approved"
    BY <1>6, <2>2 DEF Reaudit
  <2> QED
    BY <2>1, <2>2
<1>7. ASSUME NEW s \in Sources, WatchCandidate(s)
      PROVE  OnlyCandidatesAppear /\ \A b \in Auditors : AuditMoves(b)
  BY <1>7 DEF WatchCandidate, TypeOK
<1>8. ASSUME NEW found \in SUBSET Sources, NEW todo \in SUBSET Sources, Discover(found, todo)
      PROVE  OnlyCandidatesAppear /\ \A b \in Auditors : AuditMoves(b)
  BY <1>8 DEF Discover
<1>9. ASSUME NEW due \in SUBSET Sources, ListDue(due)
      PROVE  OnlyCandidatesAppear /\ \A b \in Auditors : AuditMoves(b)
  BY <1>9 DEF ListDue
<1>10. ASSUME NEW unresolved \in SUBSET Sources, RegisterHandlers(unresolved)
       PROVE  OnlyCandidatesAppear /\ \A b \in Auditors : AuditMoves(b)
  BY <1>10 DEF RegisterHandlers
<1>11. CASE WakeUp \/ BeginCycle \/ Conflict \/ EndCycle \/ ListSources \/ CycleFails \/ NextBucket
  BY <1>11 DEF WakeUp, BeginCycle, Conflict, EndCycle, ListSources, CycleFails, NextBucket
<1>12. CASE Restart
  BY <1>0, <1>12 DEF Restart, Idle
<1> QED
  BY <1>1, <1>2, <1>3, <1>4, <1>5, <1>6, <1>7, <1>8, <1>9, <1>10, <1>11, <1>12 DEF Next

(* What the store of an audit writes: nothing when the decision is the     *)
(* status it has read, else the decision, under the name of its kind.      *)
LEMMA EffectOfStore ==
  ASSUME TypeOK, NEW a \in Auditors, NEW target, StoreAudit(a, target)
  PROVE  /\ audit[a].pc = "store" /\ audit[a].of \in Sources /\ audit[a] \in Audit
         /\ target \in Decisions(audit[a].kind)
         /\ audit[a].seen = target => status' = status /\ by' = by
         /\ audit[a].seen # target =>
              /\ status' = [status EXCEPT ![audit[a].of] = target]
              /\ by' = [by EXCEPT ![audit[a].of] = audit[a].kind]
         /\ audit'[a] = Idle /\ \A b \in Auditors : b # a => audit'[b] = audit[b]
<1>1. audit[a].pc = "store" /\ audit[a].of \in Sources /\ audit[a] \in Audit
  BY DEF StoreAudit, TypeOK
<1>2. audit'[a] = Idle /\ \A b \in Auditors : b # a => audit'[b] = audit[b]
  BY <1>1, EndOfAnAudit DEF StoreAudit
<1> QED
  BY <1>1, <1>2 DEF StoreAudit

LEMMA EffectOfOverride ==
  ASSUME TypeOK, NEW s \in Sources, NEW target \in OverrideTargets, Override(s, target)
  PROVE  /\ status[s] \notin {"absent", target}
         /\ status' = [status EXCEPT ![s] = target]
         /\ by' = [by EXCEPT ![s] = "operator"]
         /\ \A a \in Auditors :
              /\ audit'[a].pc = audit[a].pc /\ audit'[a].of = audit[a].of
              /\ audit'[a].kind = audit[a].kind /\ audit'[a].seen = audit[a].seen
              /\ audit[a].of # s => audit'[a] = audit[a]
              /\ audit[a].of = s /\ audit[a].pc = "store" => audit'[a].raced
<1>1. \A a \in Auditors : audit[a] \in Audit
  BY DEF TypeOK
<1>2. audit' = [a \in Auditors |->
                  IF audit[a].of # s THEN audit[a]
                  ELSE [audit[a] EXCEPT !.overridden = TRUE, !.raced = @ \/ audit[a].pc = "store"]]
  BY DEF Override
<1>3. ASSUME NEW a \in Auditors
      PROVE  /\ audit'[a].pc = audit[a].pc /\ audit'[a].of = audit[a].of
             /\ audit'[a].kind = audit[a].kind /\ audit'[a].seen = audit[a].seen
             /\ audit[a].of # s => audit'[a] = audit[a]
             /\ audit[a].of = s /\ audit[a].pc = "store" => audit'[a].raced
  <2>1. CASE audit[a].of # s
    BY <1>2, <2>1
  <2>2. CASE audit[a].of = s
    <3>1. audit'[a] = [audit[a] EXCEPT !.overridden = TRUE,
                                       !.raced = @ \/ audit[a].pc = "store"]
      BY <1>2, <2>2
    <3>2. audit[a] \in Audit
      BY <1>1
    <3> QED
      BY <2>2, <3>1, <3>2 DEF Audit
  <2> QED
    BY <2>1, <2>2
<1> QED
  BY <1>3 DEF Override

LEMMA AuditsStayAccepted ==
  ASSUME TypeOK, TypeOK', AuditsAreAccepted, [Next]_vars
  PROVE  AuditsAreAccepted'
<1> SUFFICES ASSUME NEW a \in Auditors'
             PROVE  /\ audit'[a].pc # "idle" => status'[audit'[a].of] # "absent"
                    /\ audit'[a].pc = "store" => audit'[a].seen \in Accepts(audit'[a].kind)
  BY DEF AuditsAreAccepted, Accepts
<1>0. /\ audit[a].pc # "idle" => audit[a].of \in Sources /\ status[audit[a].of] # "absent"
      /\ audit[a].pc = "store" => audit[a].seen \in Accepts(audit[a].kind)
      /\ audit'[a].pc # "idle" => audit'[a].of \in Sources
  BY DEF AuditsAreAccepted, TypeOK, Auditors
<1>1. ASSUME NEW b \in Auditors, NEW target \in SourceStatus, StoreAudit(b, target)
      PROVE  /\ audit'[a].pc # "idle" => status'[audit'[a].of] # "absent"
             /\ audit'[a].pc = "store" => audit'[a].seen \in Accepts(audit'[a].kind)
  <2>1. status'[audit[a].of] \in {status[audit[a].of], target} \/ audit[a].of \notin Sources
    BY <1>1, EffectOfStore DEF TypeOK
  <2>2. IF a = b THEN audit'[a] = Idle ELSE audit'[a] = audit[a]
    BY <1>1, EffectOfStore DEF Auditors
  <2>3. target # "absent"
    BY DEF SourceStatus
  <2> QED
    BY <1>0, <2>1, <2>2, <2>3 DEF Idle
<1>2. ASSUME NEW s \in Sources, NEW target \in OverrideTargets, Override(s, target)
      PROVE  /\ audit'[a].pc # "idle" => status'[audit'[a].of] # "absent"
             /\ audit'[a].pc = "store" => audit'[a].seen \in Accepts(audit'[a].kind)
  <2>1. target # "absent" /\ status' = [status EXCEPT ![s] = target]
    BY <1>2, EffectOfOverride DEF OverrideTargets
  <2>2. /\ audit'[a].pc = audit[a].pc /\ audit'[a].of = audit[a].of
        /\ audit'[a].kind = audit[a].kind /\ audit'[a].seen = audit[a].seen
    BY <1>2, EffectOfOverride DEF Auditors
  <2> QED
    BY <1>0, <2>1, <2>2 DEF TypeOK
<1>3. CASE /\ ~ \E b \in Auditors, target \in SourceStatus : StoreAudit(b, target)
           /\ ~ \E s \in Sources, target \in OverrideTargets : Override(s, target)
  <2>1. OnlyCandidatesAppear /\ AuditMoves(a)
    BY <1>3, QuietSteps DEF Auditors
  <2>2. \A s \in Sources : status[s] # "absent" => status'[s] # "absent"
    BY <2>1 DEF OnlyCandidatesAppear
  <2> QED
    BY <1>0, <2>1, <2>2 DEF AuditMoves
<1> QED
  BY <1>1, <1>2, <1>3

LEMMA OperatorsKeepChoosing ==
  ASSUME TypeOK, OperatorsChoose, [Next]_vars
  PROVE  OperatorsChoose'
<1> SUFFICES ASSUME NEW s \in Sources, by'[s] = "operator"
             PROVE  status'[s] \in OverrideTargets
  BY DEF OperatorsChoose
<1>1. ASSUME NEW b \in Auditors, NEW target \in SourceStatus, StoreAudit(b, target)
      PROVE  status'[s] \in OverrideTargets
  <2>1. audit[b].kind # "operator"
    BY <1>1, EffectOfStore DEF Audit
  <2>2. status'[s] = status[s] /\ by'[s] = by[s]
    BY <1>1, <2>1, EffectOfStore DEF TypeOK
  <2> QED
    BY <2>2 DEF OperatorsChoose
<1>2. ASSUME NEW r \in Sources, NEW target \in OverrideTargets, Override(r, target)
      PROVE  status'[s] \in OverrideTargets
  <2>1. /\ status' = [status EXCEPT ![r] = target]
        /\ by' = [by EXCEPT ![r] = "operator"]
    BY <1>2, EffectOfOverride
  <2> QED
    BY <2>1 DEF OperatorsChoose, TypeOK
<1>3. CASE /\ ~ \E b \in Auditors, target \in SourceStatus : StoreAudit(b, target)
           /\ ~ \E r \in Sources, target \in OverrideTargets : Override(r, target)
  <2>1. OnlyCandidatesAppear
    BY <1>3, QuietSteps
  <2> QED
    BY <2>1 DEF OnlyCandidatesAppear, OperatorsChoose, OverrideTargets
<1> QED
  BY <1>1, <1>2, <1>3

LEMMA SeenStaysUnlessRaced ==
  ASSUME TypeOK, TypeOK', AuditsAreAccepted, SeenUnlessRaced, [Next]_vars
  PROVE  SeenUnlessRaced'
<1> SUFFICES ASSUME NEW a \in Auditors,
                    audit'[a].pc = "store", by'[audit'[a].of] = "operator", ~audit'[a].raced
             PROVE  audit'[a].seen = status'[audit'[a].of]
  BY DEF SeenUnlessRaced, Auditors
<1>0. /\ audit'[a].of \in Sources
      /\ audit[a].pc # "idle" => audit[a].of \in Sources /\ status[audit[a].of] # "absent"
  BY DEF TypeOK, AuditsAreAccepted, Auditors
<1>1. ASSUME NEW b \in Auditors, NEW target \in SourceStatus, StoreAudit(b, target)
      PROVE  audit'[a].seen = status'[audit'[a].of]
  <2>1. audit'[a] = audit[a]
    BY <1>1, EffectOfStore DEF Idle
  <2>2. audit[b].kind # "operator"
    BY <1>1, EffectOfStore DEF Audit
  <2>3. status'[audit[a].of] = status[audit[a].of] /\ by'[audit[a].of] = by[audit[a].of]
    BY <1>0, <1>1, <2>1, <2>2, EffectOfStore DEF TypeOK
  <2> QED
    BY <2>1, <2>3 DEF SeenUnlessRaced
<1>2. ASSUME NEW s \in Sources, NEW target \in OverrideTargets, Override(s, target)
      PROVE  audit'[a].seen = status'[audit'[a].of]
  <2>1. audit[a].of # s /\ audit'[a] = audit[a]
    BY <1>2, EffectOfOverride
  <2>2. status'[audit[a].of] = status[audit[a].of] /\ by'[audit[a].of] = by[audit[a].of]
    BY <1>0, <1>2, <2>1, EffectOfOverride DEF TypeOK
  <2> QED
    BY <2>1, <2>2 DEF SeenUnlessRaced
<1>3. CASE /\ ~ \E b \in Auditors, target \in SourceStatus : StoreAudit(b, target)
           /\ ~ \E s \in Sources, target \in OverrideTargets : Override(s, target)
  <2>1. OnlyCandidatesAppear /\ AuditMoves(a)
    BY <1>3, QuietSteps
  <2>2. CASE audit'[a] = audit[a]
    BY <1>0, <2>1, <2>2 DEF OnlyCandidatesAppear, SeenUnlessRaced
  <2>3. CASE audit'[a] # audit[a]
    BY <1>0, <2>1, <2>3 DEF OnlyCandidatesAppear, AuditMoves
  <2> QED
    BY <2>2, <2>3
<1> QED
  BY <1>1, <1>2, <1>3

AuditInv == TypeOK /\ AuditsAreAccepted /\ OperatorsChoose /\ SeenUnlessRaced

LEMMA AuditInvHolds == Spec => []AuditInv
<1>1. Init => AuditInv
  <2> SUFFICES ASSUME Init PROVE AuditInv
    OBVIOUS
  <2>1. TypeOK
    BY SourcesInit
  <2>2. \A a \in Auditors : audit[a].pc = "idle"
    BY DEF Init, Idle
  <2>3. \A s \in Sources : by[s] = "none"
    BY DEF Init
  <2> QED
    BY <2>1, <2>2, <2>3 DEF AuditInv, AuditsAreAccepted, OperatorsChoose, SeenUnlessRaced
<1>2. AuditInv /\ [Next]_vars => AuditInv'
  BY SourcesNext, AuditsStayAccepted, OperatorsKeepChoosing, SeenStaysUnlessRaced DEF AuditInv
<1> QED
  BY <1>1, <1>2, PTL DEF Spec

(* What an operator decided about a source is not undone by an audit that  *)
(* was already running, except for a re-audit of an approved source, or    *)
(* when the decision fell between the second read of the status and the    *)
(* write of the same transaction (_require_source_state takes no lock).    *)
THEOREM OverridesAlwaysStand == Spec => OverridesStand
<1>1. AuditInv /\ [Next]_vars =>
        [\A a \in Auditors :
           LET s == audit[a].of
           IN  /\ audit[a].pc = "store" /\ audit'[a].pc = "idle"
               /\ audit[a].overridden /\ by[s] = "operator" /\ status'[s] # status[s]
               => \/ audit[a].raced
                  \/ (audit[a].kind = "reaudit" /\ status[s] = "approved")]_vars
  <2> SUFFICES ASSUME AuditInv, NEW a \in Auditors, audit[a].pc = "store",
                      by[audit[a].of] = "operator", ~audit[a].raced
               PROVE  audit[a].kind = "reaudit" /\ status[audit[a].of] = "approved"
    BY DEF AuditInv
  <2>1. audit[a].of \in Sources /\ audit[a] \in Audit
    BY DEF AuditInv, TypeOK
  <2>2. status[audit[a].of] \in Accepts(audit[a].kind)
    BY DEF AuditInv, AuditsAreAccepted, SeenUnlessRaced
  <2>3. status[audit[a].of] \in OverrideTargets
    BY <2>1 DEF AuditInv, OperatorsChoose
  <2> QED
    BY <2>1, <2>2, <2>3 DEF Accepts, Audited, OverrideTargets, Audit
<1> QED
  BY <1>1, AuditInvHolds, PTL DEF Spec, OverridesStand

-----------------------------------------------------------------------------
(* The health of a source and its re-audits                                *)

(* Only the store of an audit writes a health.                             *)
LEMMA HealthIsAudited ==
  ASSUME [Next]_vars,
         ~ \E a \in Auditors, target \in SourceStatus : StoreAudit(a, target)
  PROVE  health' = health /\ overtaken' = overtaken
BY DEF Next, vars, rows, Reread, AuditFails, CliAudit, Override, AuditCandidate, Reaudit,
       WatchCandidate, Discover, ListDue, RegisterHandlers, WakeUp, BeginCycle, Conflict,
       EndCycle, ListSources, CycleFails, Restart, NextBucket

LEMMA HealthKeepsFollowing ==
  ASSUME TypeOK, AuditsAreAccepted, HealthFollowsReaudit, [Next]_vars
  PROVE  HealthFollowsReaudit'
<1> SUFFICES ASSUME NEW s \in Sources, status'[s] = "paused", by'[s] = "reaudit"
             PROVE  health'[s].is = "degraded" \/ s \in overtaken'
  BY DEF HealthFollowsReaudit
<1>1. ASSUME NEW a \in Auditors, NEW target \in SourceStatus, StoreAudit(a, target)
      PROVE  health'[s].is = "degraded" \/ s \in overtaken'
  <2> DEFINE of == audit[a].of
             re == audit[a].kind = "reaudit"
  <2>1. /\ of \in Sources /\ audit[a] \in Audit /\ audit[a].pc = "store"
        /\ target \in Decisions(audit[a].kind)
        /\ audit[a].seen \in Accepts(audit[a].kind)
    BY <1>1, EffectOfStore DEF AuditsAreAccepted
  <2>2. /\ health' = IF re THEN [health EXCEPT ![of] = HealthSet(of, audit[a].at,
                              IF target = "approved" THEN "healthy" ELSE "degraded")]
                     ELSE health
        /\ overtaken' = IF re /\ (audit[a].at < health[of].at \/ status[of] # audit[a].seen)
                        THEN overtaken \cup {of} ELSE overtaken
    BY <1>1 DEF StoreAudit
  <2>3. CASE s # of
    <3>1. status'[s] = status[s] /\ by'[s] = by[s]
      BY <1>1, <2>1, <2>3, EffectOfStore DEF TypeOK
    <3>2. health'[s] = health[s] /\ (s \in overtaken => s \in overtaken')
      BY <2>2, <2>3 DEF TypeOK
    <3> QED
      BY <3>1, <3>2 DEF HealthFollowsReaudit
  <2>4. CASE s = of /\ ~re
    <3>1. audit[a].seen = target
      BY <1>1, <2>1, <2>4, EffectOfStore DEF TypeOK
    <3>2. status' = status /\ by' = by
      BY <1>1, <3>1, EffectOfStore
    <3> QED
      BY <2>2, <2>4, <3>2 DEF HealthFollowsReaudit
  <2>5. CASE s = of /\ re /\ target = "paused"
    <3>1. audit[a].at \in Nat /\ health[s].at \in Nat
      BY <2>1 DEF TypeOK, Audit, HealthRow
    <3>2. CASE audit[a].at < health[s].at
      BY <2>2, <2>5, <3>2
    <3>3. CASE audit[a].at >= health[s].at
      BY <2>2, <2>5, <3>3 DEF HealthSet, TypeOK
    <3> QED
      BY <3>1, <3>2, <3>3
  <2>6. CASE s = of /\ re /\ target # "paused"
    <3>1. target = "approved" /\ audit[a].seen = target
      BY <2>1, <2>6 DEF Decisions, Accepts
    <3>2. status' = status
      BY <1>1, <3>1, EffectOfStore
    <3> QED
      BY <2>2, <2>6, <3>1, <3>2
  <2> QED
    BY <2>3, <2>4, <2>5, <2>6
<1>2. ASSUME NEW r \in Sources, NEW target \in OverrideTargets, Override(r, target)
      PROVE  health'[s].is = "degraded" \/ s \in overtaken'
  <2>1. status'[s] = status[s] /\ by'[s] = by[s]
    BY <1>2, EffectOfOverride DEF TypeOK
  <2>2. health' = health /\ overtaken' = overtaken
    BY <1>2 DEF Override
  <2> QED
    BY <2>1, <2>2 DEF HealthFollowsReaudit
<1>3. CASE /\ ~ \E a \in Auditors, target \in SourceStatus : StoreAudit(a, target)
           /\ ~ \E r \in Sources, target \in OverrideTargets : Override(r, target)
  <2>1. OnlyCandidatesAppear
    BY <1>3, QuietSteps
  <2>2. health' = health /\ overtaken' = overtaken
    BY <1>3, HealthIsAudited
  <2> QED
    BY <2>1, <2>2 DEF OnlyCandidatesAppear, HealthFollowsReaudit
<1> QED
  BY <1>1, <1>2, <1>3

(* A source whose re-audit paused it has degraded health, unless its       *)
(* re-audits did not follow one another: set_health_status drops what an   *)
(* earlier audit reports, and transition writes what a later one decided.  *)
THEOREM HealthAlwaysFollowsReaudit == Spec => []HealthFollowsReaudit
<1>1. Init => HealthFollowsReaudit
  BY DEF Init, HealthFollowsReaudit
<1>2. AuditInv /\ HealthFollowsReaudit /\ [Next]_vars => HealthFollowsReaudit'
  BY HealthKeepsFollowing DEF AuditInv
<1> QED
  BY <1>1, <1>2, AuditInvHolds, PTL DEF Spec

-----------------------------------------------------------------------------
(* The sources the bot approved and those it monitors                      *)

OwedAreMonitored == \A s \in owed : status[s] \in Monitored

(* What is owed is active, or a reload is on its way that will list it.    *)
OwedAreReloaded ==
  /\ loop.pc \in {"begin", "discover", "wait"} => owed \subseteq active
  /\ loop.pc \in {"audit", "reaudit"} => loop.reload \/ owed \subseteq active
  /\ loop.pc = "register" => owed \subseteq loop.listed

LEMMA OwedStayMonitored ==
  ASSUME TypeOK, OwedAreMonitored, [Next]_vars
  PROVE  OwedAreMonitored'
<1> SUFFICES ASSUME NEW s \in owed'
             PROVE  status'[s] \in Monitored
  BY DEF OwedAreMonitored
<1>0. owed \subseteq Sources
  BY DEF TypeOK
<1>1. ASSUME NEW a \in Auditors, NEW target \in SourceStatus, StoreAudit(a, target)
      PROVE  status'[s] \in Monitored
  <2> DEFINE of == audit[a].of
  <2>1. of \in Sources
    BY <1>1, EffectOfStore
  <2>2. CASE audit[a].seen = target
    <3>1. status' = status /\ owed' \subseteq owed
      BY <1>1, <2>2, EffectOfStore DEF StoreAudit
    <3> QED
      BY <3>1 DEF OwedAreMonitored
  <2>3. CASE audit[a].seen # target
    <3>1. status' = [status EXCEPT ![of] = target]
      BY <1>1, <2>3, EffectOfStore
    <3>2. s \in owed \/ s = of
      BY <1>1 DEF StoreAudit
    <3>3. s = of => target = "approved"
      BY <1>1 DEF StoreAudit
    <3> QED
      BY <1>0, <2>1, <3>1, <3>2, <3>3 DEF OwedAreMonitored, Monitored, TypeOK
  <2> QED
    BY <2>2, <2>3
<1>2. ASSUME NEW r \in Sources, NEW target \in OverrideTargets, Override(r, target)
      PROVE  status'[s] \in Monitored
  <2>1. owed' = owed \ {r}
    BY <1>2 DEF Override
  <2>2. status' = [status EXCEPT ![r] = target]
    BY <1>2, EffectOfOverride
  <2> QED
    BY <1>0, <2>1, <2>2 DEF OwedAreMonitored, TypeOK
<1>3. CASE /\ ~ \E a \in Auditors, target \in SourceStatus : StoreAudit(a, target)
           /\ ~ \E r \in Sources, target \in OverrideTargets : Override(r, target)
  <2>1. OnlyCandidatesAppear
    BY <1>3, QuietSteps
  <2>2. owed' \subseteq owed
    BY <1>3 DEF Next, vars, Reread, AuditFails, CliAudit, AuditCandidate, Reaudit,
       WatchCandidate, Discover, ListDue, RegisterHandlers, WakeUp, BeginCycle, Conflict,
       EndCycle, ListSources, CycleFails, Restart, NextBucket
  <2> QED
    BY <1>0, <2>1, <2>2 DEF OnlyCandidatesAppear, OwedAreMonitored, Monitored
<1> QED
  BY <1>1, <1>2, <1>3

(* The bot is owed a source only by the step that also asks for a reload.  *)
LEMMA ApprovalAsksForReload ==
  ASSUME TypeOK, OwedAreReloaded, NEW a \in Auditors, NEW target, StoreAudit(a, target)
  PROVE  OwedAreReloaded'
<1>1. /\ audit[a].pc = "store" /\ EndAudit(a, target) /\ active' = active
      /\ audit[a] \in Audit /\ loop \in Loop
  BY DEF StoreAudit, TypeOK
<1>2. /\ loop'.pc = loop.pc /\ loop'.listed = loop.listed /\ (loop.reload => loop'.reload)
      /\ a # "bot" => loop' = loop
  BY <1>1, EndOfAnAudit
<1>3. a = "bot" => loop.pc \in {"audit", "reaudit"}
  BY <1>1 DEF TypeOK
<1>4. CASE owed' \subseteq owed
  BY <1>1, <1>2, <1>4 DEF OwedAreReloaded
<1>5. CASE ~ (owed' \subseteq owed)
  <2>1. a = "bot" /\ target = "approved" /\ audit[a].seen # target
    BY <1>5 DEF StoreAudit
  <2>2. Reloads(audit[a].kind, audit[a].seen, target)
    BY <2>1 DEF Reloads
  <2>3. loop'.reload
    BY <1>1, <2>1, <2>2 DEF EndAudit, Loop
  <2> QED
    BY <1>2, <1>3, <2>1, <2>3 DEF OwedAreReloaded
<1> QED
  BY <1>4, <1>5

LEMMA OwedStayReloaded ==
  ASSUME TypeOK, OwedAreMonitored, OwedAreReloaded, [Next]_vars
  PROVE  OwedAreReloaded'
<1> USE DEF OwedAreReloaded
<1>0. loop \in Loop /\ owed \subseteq Sources
  BY DEF TypeOK
<1>1. CASE UNCHANGED vars
  BY <1>1 DEF vars
<1>2. ASSUME NEW a \in Auditors, NEW target \in SourceStatus, StoreAudit(a, target)
      PROVE  OwedAreReloaded'
  BY <1>2, ApprovalAsksForReload
<1>3. ASSUME NEW a \in Auditors, AuditFails(a) PROVE OwedAreReloaded'
  <2>1. audit[a].pc # "idle" /\ EndAudit(a, "failed") /\ owed' = owed /\ active' = active
    BY <1>3 DEF AuditFails
  <2>2. /\ loop'.pc = loop.pc /\ loop'.listed = loop.listed /\ (loop.reload => loop'.reload)
        /\ loop' \in Loop
    BY <2>1, EndOfAnAudit
  <2> QED
    BY <2>1, <2>2
<1>4. ASSUME NEW a \in Auditors, Reread(a) PROVE OwedAreReloaded'
  BY <1>4 DEF Reread
<1>5. ASSUME NEW a \in Clis, NEW s \in Sources, NEW kind \in {"initial", "reaudit"},
             CliAudit(a, s, kind)
      PROVE  OwedAreReloaded'
  BY <1>5 DEF CliAudit
<1>6. ASSUME NEW s \in Sources, NEW target \in OverrideTargets, Override(s, target)
      PROVE  OwedAreReloaded'
  BY <1>6 DEF Override
<1>7. ASSUME NEW s \in Sources, AuditCandidate(s) PROVE OwedAreReloaded'
  BY <1>0, <1>7 DEF AuditCandidate, Loop
<1>8. ASSUME NEW s \in Sources, Reaudit(s) PROVE OwedAreReloaded'
  <2>1. /\ loop.pc = "reaudit" /\ loop'.pc = "reaudit" /\ (loop.reload => loop'.reload)
        /\ owed' = owed /\ active' = active
    BY <1>0, <1>8 DEF Reaudit, Loop
  <2> QED
    BY <2>1
<1>9. ASSUME NEW s \in Sources, WatchCandidate(s) PROVE OwedAreReloaded'
  BY <1>9 DEF WatchCandidate
<1>10. ASSUME NEW found \in SUBSET Sources, NEW todo \in SUBSET Sources, Discover(found, todo)
       PROVE  OwedAreReloaded'
  BY <1>0, <1>10 DEF Discover, Loop
<1>11. ASSUME NEW due \in SUBSET Sources, ListDue(due) PROVE OwedAreReloaded'
  BY <1>0, <1>11 DEF ListDue, Loop
<1>12. ASSUME NEW unresolved \in SUBSET Sources, RegisterHandlers(unresolved)
       PROVE  OwedAreReloaded'
  BY <1>0, <1>12 DEF RegisterHandlers, Loop
<1>13. CASE WakeUp
  BY <1>0, <1>13 DEF WakeUp, Loop
<1>14. CASE BeginCycle
  BY <1>0, <1>14 DEF BeginCycle, Started
<1>15. CASE Conflict
  BY <1>0, <1>15 DEF Conflict, Loop
<1>16. CASE EndCycle
  BY <1>0, <1>16 DEF EndCycle, Loop
<1>17. CASE ListSources
  <2>1. loop'.pc = "register" /\ loop'.listed = With(Monitored) /\ owed' = owed
    BY <1>0, <1>17 DEF ListSources, Loop
  <2> QED
    BY <1>0, <2>1 DEF With, OwedAreMonitored
<1>18. CASE CycleFails
  BY <1>0, <1>18 DEF CycleFails, Loop
<1>19. CASE Restart
  BY <1>19 DEF Restart
<1>20. CASE NextBucket
  BY <1>20 DEF NextBucket
<1> QED
  BY <1>1, <1>2, <1>3, <1>4, <1>5, <1>6, <1>7, <1>8, <1>9, <1>10, <1>11, <1>12, <1>13, <1>14,
     <1>15, <1>16, <1>17, <1>18, <1>19, <1>20 DEF Next

(* A source the bot approved is monitored whenever the discovery loop      *)
(* waits, unless a cycle, a reload or the resolution of its chat failed:   *)
(* run_once asks for a reload for each approval, and the reload lists what *)
(* is approved by then.                                                    *)
THEOREM ApprovedAreAlwaysMonitored == Spec => []ApprovedIsMonitored
<1> DEFINE Inv == TypeOK /\ OwedAreMonitored /\ OwedAreReloaded
<1>1. Init => Inv
  BY SourcesInit DEF Init, OwedAreMonitored, OwedAreReloaded
<1>2. Inv /\ [Next]_vars => Inv'
  BY SourcesNext, OwedStayMonitored, OwedStayReloaded
<1>3. Inv => ApprovedIsMonitored
  BY DEF OwedAreReloaded, ApprovedIsMonitored
<1> QED
  BY <1>1, <1>2, <1>3, PTL DEF Spec

=============================================================================
