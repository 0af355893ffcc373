---- MODULE MCPipeline ----
(* A small instance of Pipeline: two messages with the same text, the second a reply to    *)
(* the first, prefiltered up to two times.  The texts of the instance are near by the      *)
(* rules of OpportunityRules, which are evaluated over small sets of entries as well.      *)
EXTENDS Pipeline, TLC, Sequences
CONSTANTS m1, m2, A, B, task, h1, h2

MCContentSame == (m1 :> A) @@ (m2 :> A)
MCReplySame == (m1 :> None) @@ (m2 :> m1)
MCNear == {<<A, B>>, <<B, A>>}
MCTriesBoth == [j \in Jobs |-> IF j = <<"raw", m2>> THEN 2 ELSE 1]
MCSymmetry == Permutations(Handlers)

(* SequenceMatcher: the longest block two sequences have in common, the    *)
(* first of several, and what matches before it and after it.              *)
Block(l, r) ==
    {<<i, j, k>> \in (1..Len(l)) \X (1..Len(r)) \X (1..Len(l)) :
        i + k - 1 <= Len(l) /\ j + k - 1 <= Len(r)
        /\ SubSeq(l, i, i + k - 1) = SubSeq(r, j, j + k - 1)}
RECURSIVE MCMatched(_, _)
MCMatched(l, r) ==
    IF Block(l, r) = {} THEN 0
    ELSE LET b == CHOOSE b \in Block(l, r) : \A c \in Block(l, r) :
                      \/ b[3] > c[3]
                      \/ b[3] = c[3] /\ (b[1] < c[1] \/ (b[1] = c[1] /\ b[2] <= c[2]))
         IN  b[3] + MCMatched(SubSeq(l, 1, b[1] - 1), SubSeq(r, 1, b[2] - 1))
                  + MCMatched(SubSeq(l, b[1] + b[3], Len(l)), SubSeq(r, b[2] + b[3], Len(r)))
Rules == INSTANCE OpportunityRules WITH Numeric <- {"500"}, Matched <- MCMatched, Null <- None

Policy == [near |-> 70, near_tokens |-> 3, window |-> 1, candidates |-> 2, contact |-> 60,
           budget |-> 70, semantic |-> 90, tokens |-> 3, semantic_tokens |-> 4]
Text == (A :> <<"fix", "site", "500", "eur">>) @@ (B :> <<"fix", "site", "500", "eur", "now">>)
ASSUME NearTextsAreThose ==
    MCNear = {<<s, t>> \in {A, B} \X {A, B} : s # t /\ Rules!IsNear(Text[s], Text[t], Policy)}

Budgets == [known : BOOLEAN, currency : {None, "EUR"}, period : {None, "hour"},
            min : {None, 1, 3}, max : {None, 2}]
Given == {b \in Budgets : b.known => (b.min # None \/ b.max # None)
                                     /\ (b.min # 3 \/ b.max # 2)}
ASSUME BudgetsAgreeBothWays == \A b, c \in Given :
    Rules!BudgetRelation(b, c) = Rules!BudgetRelation(c, b)

Analysis(task_, email) ==
    [is_opportunity |-> TRUE, type |-> "project", role |-> <<>>, task |-> task_,
     contact |-> [f \in {"email"} |-> email],
     budget |-> [known |-> FALSE, currency |-> None, period |-> None, min |-> None, max |-> None]]
Tasks == {<<"fix", "the", "site">>, <<"site", "the", "fix">>, <<"make", "a", "logo">>}
Entry(n, t, task_, email, seen) ==
    [cache |-> n, opportunity |-> n, text |-> t, analysis |-> Analysis(task_, email),
     first_seen |-> seen, last_seen |-> seen, linked_at |-> seen]
Entries == {{Entry(1, t1, k1, 1, s), Entry(2, t2, k2, 1, 1), Entry(3, Text[B], k1, 2, s)} :
               t1, t2 \in {Text[A], Text[B], <<"logo">>}, k1, k2 \in Tasks, s \in {0, 1, 3}}
ASSUME OneDuplicateIsTaken == \A entries \in Entries, k \in Tasks, t \in {Text[A], <<"other">>} :
    LET new == Entry(4, t, k, 1, 1)
        found == Rules!DuplicateOf(entries, new, Policy)
        near == {e \in Rules!Candidates(entries, new, Policy) :
                    \/ Rules!IsNear(t, e.text, Policy)
                    \/ Rules!DecisionRule(new.analysis, e.analysis, Policy) # None}
    IN  Cardinality(found) = IF near # {} \/ \E e \in Rules!Reachable(entries, new, Policy) : e.text = t
                             THEN 1 ELSE 0
ASSUME ReorderedTasksAreApart ==
    Rules!DecisionRule(Analysis(<<"fix", "the", "site">>, 1), Analysis(<<"site", "the", "fix">>, 1),
                       Policy) = None
Observed2 == [date : {0, 1}, observed : {1, 2}, source : {1}, id : {1, 2}]
ASSUME PreferredIsObservedFirst == \A S \in SUBSET Observed2 : Cardinality(S) \in 1..4 =>
    /\ Rules!Preferred(S, None) = Rules!Observations(S)[1]
    /\ Rules!AlternateSources(S, Rules!Preferred(S, None)) = Tail(Rules!Observations(S))
====
