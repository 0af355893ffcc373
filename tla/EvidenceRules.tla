---------------------------- MODULE EvidenceRules ----------------------------
(***************************************************************************)
(* The rules of what the global source library knows of a source: its      *)
(* references, the evidence of its discovery (DiscoveryRunner,             *)
(* persistence/discovery_campaigns.py), its validation by a collector      *)
(* account (telegram_source_validation.py), its turn to be monitored       *)
(* (global_source_library.py) and the statistics (source_bootstrap.py).    *)
(***************************************************************************)
EXTENDS LibraryRules

OrElse(value, other) == IF value # None THEN value ELSE other

(* Each set is a table, its keys as the unique constraints have them; all  *)
(* that is here of the table of sources is their status.                   *)
Tables(status) == [status |-> status, aliases |-> {}, evidence |-> {}, validations |-> {}, monitoring |-> {}]
Replaced(rows, old, row) == (rows \ old) \cup {row}

-----------------------------------------------------------------------------
(* References: None where there is none, or none of a chat                 *)

ReferencesOf(source) ==
    SelectSeq(<<[ref |-> source.url, kind |-> "source"], [ref |-> source.handle, kind |-> "username"],
                [ref |-> source.name, kind |-> "username"]>>, LAMBDA r : r.ref # None)

(* _candidate_telegram_aliases: a link is what it says it is.              *)
CandidateReferences(candidate) ==
    LET AsName(r) == IF r = None THEN None ELSE [r EXCEPT !.kind = "username"]
    IN  Unique(SelectSeq(<<candidate.url, AsName(candidate.handle), AsName(candidate.name), candidate.reference>>,
                         LAMBDA r : r # None))

AliasesOf(db, ref) == {a \in db.aliases : a.ref = ref}
IsTaken(db, ref, source) == \E a \in AliasesOf(db, ref) : a.source # source
(* record_alias, of a reference that is not taken                          *)
WithAlias(db, alias) ==
    LET old == AliasesOf(db, alias.ref)
    IN  IF old = {} THEN [db EXCEPT !.aliases = @ \cup {alias}]
        ELSE [db EXCEPT !.aliases = (@ \ old) \cup {[a EXCEPT !.peer = OrElse(alias.peer, @)] : a \in old}]

(* source_for_canonical_peer: by the references, then by what validations  *)
(* found, whatever came of them.                                           *)
SourceOfPeer(db, peer) ==
    LET Least(rows) == IF rows = {} THEN None ELSE Min({r.source : r \in rows})
    IN  OrElse(Least({a \in db.aliases : a.peer = peer}), Least({v \in db.validations : v.peer = peer}))

-----------------------------------------------------------------------------
(* Validation                                                              *)

(* upsert_validation: a peer that was found once stays.                    *)
WithValidation(db, v) ==
    LET old == {w \in db.validations : w.source = v.source /\ w.account = v.account}
    IN  [db EXCEPT !.validations = Replaced(@, old,
            IF old = {} THEN v ELSE [v EXCEPT !.peer = OrElse(@, (CHOOSE w \in old : TRUE).peer)])]
Unavailable(db, source, account, failure) ==
    WithValidation(db, [source |-> source.id, account |-> account, state |-> "unavailable",
                        mode |-> "unavailable", peer |-> None, failure |-> failure])

(* A failure is final unless it has one of these names; a TimeoutError is  *)
(* a timeout_error.                                                        *)
Transient == {"telegram_floodwait", "timeout", "network_error", "connection_error"}
IsReusable(v) ==
    \/ v.state \in {"accessible", "rejected"}
    \/ v.state = "unavailable" /\ v.failure \notin Transient

(* _alias_duplicate: the first reference that another source has, with the *)
(* peer it leads to.                                                       *)
Duplicated(db, source) ==
    LET Of(r) == {a \in AliasesOf(db, r.ref) : a.source # source.id /\ a.peer # None}
        taken == SelectSeq(ReferencesOf(source), LAMBDA r : Of(r) # {})
    IN  IF taken = <<>> THEN None ELSE (CHOOSE a \in Of(taken[1]) : TRUE).peer

(* _record_duplicate_in_connection                                         *)
AsDuplicate(db, source, account, peer) ==
    WithValidation([db EXCEPT !.status[source.id] = IF @ \in {"candidate", "needs_review"} THEN "rejected" ELSE @],
                   [source |-> source.id, account |-> account, state |-> "rejected",
                    mode |-> "unavailable", peer |-> peer, failure |-> "canonical_alias_existing"])

Preflight(db, source, account) ==
    IF \E v \in db.validations : v.source = source.id /\ v.account = account /\ IsReusable(v)
    THEN [isReady |-> TRUE, db |-> db]
    ELSE IF Duplicated(db, source) # None
    THEN [isReady |-> TRUE, db |-> AsDuplicate(db, source, account, Duplicated(db, source))]
    ELSE [isReady |-> FALSE, db |-> db]

(* _resolve_and_persist, of the peer Telegram names; a reference of a      *)
(* source nobody has validated raises, and nothing of it is stored.        *)
Resolved(db, source, account, peer) ==
    LET refs == ReferencesOf(source)
        Alias(r) == [ref |-> r.ref, source |-> source.id, kind |-> r.kind, peer |-> peer]
    IN  IF SourceOfPeer(db, peer) \notin {None, source.id} THEN AsDuplicate(db, source, account, peer)
        ELSE IF \E i \in DOMAIN refs : IsTaken(db, refs[i].ref, source.id)
        THEN Unavailable(db, source, account, "value_error")
        ELSE WithValidation(FoldLeft(LAMBDA d, r : WithAlias(d, Alias(r)), db, refs),
                 [source |-> source.id, account |-> account, state |-> "accessible",
                  mode |-> IF source.isPublic THEN "public_readable" ELSE "joined", peer |-> peer, failure |-> None])

(* validate; Telegram is asked only where nothing is known.                *)
Validate(db, source, account, reply) ==
    LET known == Preflight(db, source, account)
    IN  CASE account \notin source.permitted ->
               [asks |-> FALSE, db |-> Unavailable(db, source, account, "access_not_permitted")]
          [] account \in source.permitted /\ known.isReady -> [asks |-> FALSE, db |-> known.db]
          [] account \in source.permitted /\ ~known.isReady ->
               [asks |-> TRUE,
                db |-> IF reply.is = "peer" THEN Resolved(db, source, account, reply.peer)
                       ELSE Unavailable(db, source, account, reply.failure)]

-----------------------------------------------------------------------------
(* Evidence                                                                *)

(* _record_library_evidence: what a candidate says of itself stands for    *)
(* what its items do not say.                                              *)
EvidenceOf(source, candidate, isGraph) ==
    LET said == candidate.context
        own == OrElse(said.key, OrElse(said.domain, candidate.result))
        kind == IF said.kind \in {"page_extracted", "source_graph", "global_search", "operator"} THEN said.kind
                ELSE IF isGraph THEN "source_graph" ELSE "direct_result"
        items == OrElse(candidate.items, <<said>>)
    IN  [i \in DOMAIN items |->
            [source |-> source, key |-> OrElse(items[i].key, OrElse(items[i].domain, own)),
             kind |-> OrElse(items[i].kind, kind), domain |-> items[i].domain, gaps |-> items[i].gaps]]

(* record_evidence, record_evidence_if_missing: the first of a key stays.  *)
HasEvidence(db, e) == \E row \in db.evidence : row.source = e.source /\ row.key = e.key
WithEvidence(db, e) == IF HasEvidence(db, e) THEN db ELSE [db EXCEPT !.evidence = @ \cup {e}]
AddedEvidence(db, e) == [db |-> WithEvidence(db, e), isNew |-> ~HasEvidence(db, e)]

(* _legacy_evidence_items, of one lineage row                              *)
Legacy(provider) ==
    CASE provider = "web_search" -> [of |-> "matches", kind |-> "global_search"]
      [] provider = "telegram_global_profile" -> [of |-> "matches", kind |-> "global_search"]
      [] provider = "telegram_source_graph" -> [of |-> "observations", kind |-> "source_graph"]
      [] provider = "repository_seed" -> [of |-> "seed", kind |-> "operator"]
      [] OTHER -> [of |-> "none", kind |-> "operator"]
LegacyDomain(item) == OrElse(item.domain, item.host)
LegacyItems(lineage) ==
    LET legacy == Legacy(lineage.provider)
        items == IF legacy.of \in DOMAIN lineage.items THEN lineage.items[legacy.of] ELSE <<>>
    IN  [i \in DOMAIN items |->
            [source |-> lineage.source, key |-> <<"legacy", lineage.id, i>>, kind |-> legacy.kind,
             domain |-> LegacyDomain(items[i]), gaps |-> items[i].gaps]]

(* backfill_legacy_evidence: the candidates with the least ids, as many as *)
(* the limit; what a candidate is called is decided before the backfill.   *)
Backfill(db, lineage, limit) ==
    LET candidates == First(SetToSortSeq({s \in DOMAIN db.status : db.status[s] = "candidate"}, <), limit)
        Of(s) == SelectSeq(lineage, LAMBDA row : row.source = s)
        Items(s) == FlattenSeq([i \in DOMAIN Of(s) |-> LegacyItems(Of(s)[i])])
        Category(s) ==
            IF Items(s) = <<>>
            THEN IF Of(s) = <<>> THEN "NO_DISCOVERY_EVIDENCE" ELSE "LEGACY_EVIDENCE_UNRECOVERABLE"
            ELSE IF \E e \in db.evidence : e.source = s THEN "CURRENT_EVIDENCE_COMPLETE"
            ELSE "LEGACY_EVIDENCE_RECOVERABLE"
        Added(run, e) ==
            LET added == AddedEvidence(run.db, e)
            IN  [run EXCEPT !.db = added.db, !.created = @ + (IF added.isNew THEN 1 ELSE 0),
                            !.existing = @ + (IF added.isNew THEN 0 ELSE 1)]
    IN  [FoldLeft(Added, [db |-> db, created |-> 0, existing |-> 0, categories |-> <<>>],
                  FlattenSeq([i \in DOMAIN candidates |-> Items(candidates[i])]))
            EXCEPT !.categories = [i \in DOMAIN candidates |-> Category(candidates[i])]]

-----------------------------------------------------------------------------
(* Monitoring                                                              *)

(* assign_monitoring: a source has one account; what it has read stays.    *)
Assigned(db, m) ==
    LET old == {n \in db.monitoring : n.source = m.source}
    IN  [db EXCEPT !.monitoring = Replaced(@, old,
            IF old = {} THEN m ELSE [m EXCEPT !.state = (CHOOSE n \in old : TRUE).state])]

(* choose of WeightedMonitoringScheduler: a fifth of the places is for the *)
(* low tiers, and those that are left.                                     *)
Tiers == <<"A", "B", "C", "D">>
Turn(m) == <<CHOOSE n \in DOMAIN Tiers : Tiers[n] = m.tier, m.due, m.source>>
Before(m, n) ==
    LET Differs(i) == Turn(m)[i] # Turn(n)[i] /\ \A j \in 1..(i - 1) : Turn(m)[j] = Turn(n)[j]
    IN  \E i \in 1..3 : Differs(i) /\ Turn(m)[i] < Turn(n)[i]
Chosen(rows, now, limit) ==
    LET due == SetToSortSeq({m \in rows : m.due <= now}, Before)
        low == SelectSeq(due, LAMBDA m : m.tier \in {"C", "D"})
        explored == First(low, limit \div 5)
        exploited == explored \o First(SelectSeq(due, LAMBDA m : m.tier \in {"A", "B"}), limit - Len(explored))
    IN  exploited \o First(SubSeq(low, Len(explored) + 1, Len(low)), limit - Len(exploited))

(* decide_backpressure                                                     *)
Pressure(jobs, threshold) ==
    IF jobs >= 2 * threshold THEN "PAUSE_COLD_CATCH_UP"
    ELSE IF jobs >= threshold THEN "SLOW_LOW_TIER" ELSE "NORMAL"

-----------------------------------------------------------------------------
(* Statistics                                                              *)

CountsBy(rows, Label(_)) == [l \in {Label(r) : r \in rows} |-> Cardinality({r \in rows : Label(r) = l})]

(* _quality_tier: the shares of the latest audit are in hundredths.        *)
QualityTier(q) ==
    LET good == 60 * q.yield + 40 * q.buyers
        bad == 40 * q.sellers + 40 * q.spam + 20 * q.duplicates
        score == good * (10000 - bad)
    IN  IF q = None THEN "unmeasured"
        ELSE IF score >= 70000000 THEN "high" ELSE IF score >= 40000000 THEN "medium" ELSE "low"

(* _coverage_dimensions: how many sources each label has; the evidence of  *)
(* a campaign gives a source what the campaign was for.                    *)
Coverage(sources, evidence, campaigns, terms, quality) ==
    LET Pairs(dimension) ==
          LET Said(e) == {<<Normal(v), e.source>> : v \in {w \in campaigns[e.campaign][dimension] : w # ""}}
          IN  UNION {Said(e) : e \in {r \in evidence : r.campaign \in DOMAIN campaigns /\ r.source \in sources}}
                \cup {<<Normal(t.key), t.source>> : t \in {u \in terms : u.source \in sources
                        /\ dimension = (IF u.dimension = "language" THEN "language" ELSE "industry")}}
        Counts(pairs) == [l \in {p[1] : p \in pairs} |-> Cardinality({p \in pairs : p[1] = l})]
    IN  [language |-> Counts(Pairs("language")), habitat |-> Counts(Pairs("habitat")), industry |-> Counts(Pairs("industry")),
         tier |-> Counts({<<QualityTier(IF s \in DOMAIN quality THEN quality[s] ELSE None), s>> : s \in sources})]

(* _monitoring_stats: what is due is counted beside its state and tier.    *)
Monitoring(rows, now) ==
    [states |-> CountsBy(rows, LAMBDA m : m.state), tiers |-> CountsBy(rows, LAMBDA m : m.tier),
     due |-> Cardinality({m \in rows : m.due <= now})]

(* stats                                                                   *)
Statistics(db, queries, costs, now) ==
    LET Lifecycle(s) == db.status[s]
        Spent(c) == <<c.stage, c.provider>>
    IN  [queries |-> CountsBy(queries, LAMBDA q : q.status), validations |-> CountsBy(db.validations, LAMBDA v : v.state),
         lifecycle |-> CountsBy(DOMAIN db.status, Lifecycle), monitoring |-> Monitoring(db.monitoring, now),
         units |-> [of \in {Spent(c) : c \in costs} |->
                       FoldSet(LAMBDA c, n : n + c.units, 0, {c \in costs : Spent(c) = of})]]
=============================================================================
