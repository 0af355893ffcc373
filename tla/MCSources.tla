---- MODULE MCSources ----
(* A small instance of Sources: one command line beside the bot.  The rules of SourceRules *)
(* are evaluated over every history of up to nine messages, at their production cap and    *)
(* at a wider one, over small classifications and policies, and over small catalogs.       *)
EXTENDS Sources, SourceRules
CONSTANTS cli, s1, s2

Wide == INSTANCE SourceRules WITH MaxPerPass <- 2 * SampleSize
Histories == {{[id |-> i, at |-> (5 * i) % 8] : i \in ids} : ids \in SUBSET (1..9)}
ASSUME SamplesAreRight == \A h \in Histories : \A at \in {4, 8} :
    /\ Cardinality(Sample(h, at)) <= SampleSize /\ ~HighVolume(h, at)
    /\ Wide!Sample(h, at) \subseteq Within(h, WindowStart(h, at), at)
    /\ Wide!HighVolume(h, at) => Cardinality(Wide!Sample(h, at)) = SampleSize
ASSUME BusySourcesAreSpread == \E h \in Histories :
    Wide!HighVolume(h, 8) /\ Wide!Sample(h, 8) # Newest(SampleSize, h)

Classes ==
    {[analyzed |-> n, count |-> [k \in Counts |-> counted[k]], mix |-> "whole",
      language |-> l, languages |-> {"en"}, categories |-> {"design"}] :
        n \in 1..3, l \in {"en", None}, counted \in [Counts -> 0..2]}
Policies ==
    {[evidence |-> 2, rejection_evidence |-> e, yield |-> 10, seller |-> 50, spam |-> 30,
      duplicate |-> 50, rejection_spam |-> 60, rejection_seller |-> 80] : e \in {2, 3}}
Decided == {Decide(c, p) : c \in {x \in Classes : IsValid(x, x.analyzed)}, p \in Policies}
ASSUME DecisionsAreThose ==
    /\ Policies \subseteq DecisionPolicy
    /\ \A kind \in {"initial", "reaudit"} : Decisions(kind) = {Target(kind, d) : d \in Decided}

Catalog == [id : {1, 2}, status : {"approved", "paused"}, health : {"degraded", "healthy"},
            rate : {None, 1, 9}, audited : {None, 1, 3}]
Cadence == [band \in {"degraded", "normal", "high_activity", "quiet"} |->
                CASE band = "degraded" -> 1 [] band = "quiet" -> 3 [] OTHER -> 2]
ASSUME DueSourcesAreOrdered == \A x, y \in Catalog :
    LET due(n) == DueSources({x, y}, 4, Cadence, 8, 2, n)
    IN  x.id # y.id =>
            /\ Precedes(x, y, 8, 2) # Precedes(y, x, 8, 2)
            /\ due(2) = {s \in {x, y} : IsDue(s, 4, Cadence, 8, 2)}
            /\ due(2) # {} => Cardinality(due(1)) = 1
ASSUME CatalogIsMonitored == \A access \in {"public", "private"} :
    LET source(of) == [id |-> s1, status |-> of, access |-> access, platform |-> "telegram"]
        account == [id |-> cli, is_active |-> TRUE, platform |-> "telegram"]
    IN  Monitored = {of \in SourceStatus : IsCollected(account, source(of), {<<cli, s1>>})}
====
