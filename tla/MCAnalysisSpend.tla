---- MODULE MCAnalysisSpend ----
(* A cheap and an expensive route, costs below and above the reserve, two days a month; the
   rules of AnalysisRules over small sets. *)
EXTENDS AnalysisSpend, FiniteSetsExt
CONSTANTS a1, a2, a3
MCReserve == [primary |-> 1, fallback |-> 2]
MCCosts == [primary |-> {2}, fallback |-> {1}]

(* The rules of an analysis: two models, two configurations of each kind, one name in two
   spellings and as a link. *)
MCFold(name) == IF name = "Ann" THEN "ann" ELSE name
Rules == INSTANCE AnalysisRules WITH
           None <- Nobody, Fold <- MCFold, Usernames <- {"Ann", "ann", "joe"},
           Version <- "v1", DefaultModel <- "mini"

Configs ==
  [primary : {<<"openai", "mini">>, <<"deepseek", "chat">>, <<"other", "chat">>},
   fallback : {Nobody, <<"openai", "large">>, <<"deepseek", "chat">>},
   threshold : {50, 65}, routing : {"r1", "r2"},
   key : [{"openai", "deepseek", "tokenrouter"} -> BOOLEAN]]
Analyzers == {Rules!Analyzer(c) : c \in {d \in Configs : ~Rules!CannotStart(d)}} \ {Nobody}

CallOf(route, confidence) ==
  [route |-> route, routing |-> "r0", reason |-> "", confidence |-> confidence]
Answers(z) ==
  LET first == {CallOf(z.primary, c) : c \in {40, 50, 60}}
      second == {Nobody} \cup {CallOf(r, 90) : r \in Rules!RoutesOf(z) \ {z.primary}}
  IN  {Rules!Answer(z, f, s) : f \in first, s \in second}

(* What an analyzer stores for a job it takes, it accepts when the job comes again. *)
ASSUME OwnAnswersAreReadBack ==
  \A z \in Analyzers : \A call \in Answers(z), v \in Rules!SupportedVersions(z) :
    /\ Rules!AcceptsMetadata(z, call)
    /\ Rules!EnvelopeIsCompatible(z, Rules!Envelope(call, v), v)

(* The jobs of one configuration are foreign to every other one, its envelopes only where the
   route that answered is gone or the version asked for differs. *)
ASSUME JobsBelongToAConfiguration ==
  \A y, z \in Analyzers :
    /\ Rules!JobIsCompatible(y, Rules!CacheVersion(z)) <=> y = z
    /\ Rules!JobIsCompatible(y, Rules!PrimaryCacheVersion(z)) <=> y.primary = z.primary

Link(scheme, path) ==
  [kind |-> "link", scheme |-> scheme, host |-> "t.me", path |-> path, query |-> ""]
Mentions ==
  {[kind |-> "handle", name |-> n] : n \in {"Ann", "joe"}}
    \cup {Link(s, q) : s \in {"https", Nobody}, q \in {<<>>, <<"Ann">>, <<"ann", "17">>, <<"+x">>}}
Naming(field, c) == [contact |-> [f \in {field} |-> c]]

(* A contact is grounded by any mention of the chat, in the text or its parent; a link to a
   message names the chat in a text, and is no contact in an answer. *)
ASSUME MentionsGroundContacts ==
  \A c, m \in Mentions :
    LET named == Rules!TelegramIdentity(c) # Nobody
                   /\ Rules!TelegramIdentity(c) = Rules!TelegramMention(m)
    IN  /\ Rules!IsGrounded(Naming("telegram", c), [current |-> {m}, parent |-> {}]) <=> named
        /\ Rules!IsGrounded(Naming("telegram", c), [current |-> {}, parent |-> {m}]) <=> named
        /\ m \in {Link("https", <<"ann", "17">>), Link(Nobody, <<"ann", "17">>)}
             => ~Rules!IsGrounded(Naming("telegram", m), [current |-> {m}, parent |-> {}])

Amounts == {Nobody, -1, 0, 2, 3}
Budgets ==
  [known : BOOLEAN, min : Amounts, max : Amounts, currency : {Nobody, "EUR"}, period : {Nobody},
   explicit : BOOLEAN]
(* The contract admits these budgets: nothing known, or one amount or an ordered pair. *)
ASSUME BudgetsOfTheContract ==
  {b \in Budgets : Rules!BudgetIsConsistent(b)} =
    {b \in Budgets :
       IF b.known
       THEN /\ b.explicit
            /\ <<b.min, b.max>> \in {<<0, 0>>, <<0, 2>>, <<0, 3>>, <<2, 2>>, <<2, 3>>, <<3, 3>>}
                 \cup ({0, 2, 3} \X {Nobody}) \cup ({Nobody} \X {0, 2, 3})
       ELSE b.min = Nobody /\ b.max = Nobody /\ b.currency = Nobody}

ReportedCalls ==
  [id : {1, 2}, at : {0, 2}, status : {"succeeded", "started"},
   stage : {"primary", "fallback"}, cost : {1, 2}]
DayOf == [at \in 0..3 |-> at \div 2]

(* The days of a report, and its stages, add up to the whole. *)
ASSUME ReportsAddUp ==
  \A c, d \in ReportedCalls :
    LET calls == {c, d}
        report == Rules!CostReport(calls, 0, 3, DayOf)
        Adds(parts) ==
          /\ MapThenSumSet(LAMBDA k : parts[k].cost, DOMAIN parts) = report.whole.cost
          /\ MapThenSumSet(LAMBDA k : parts[k].calls, DOMAIN parts) = report.whole.calls
    IN  /\ Adds(report.daily) /\ Adds(report.stages)
        /\ report.whole.calls = report.whole.succeeded + report.failed
====
