-------------------------- MODULE OnboardingProofs --------------------------
(***************************************************************************)
(* Proofs about Onboarding, for any profiles, descriptions, fields and     *)
(* number of messages handled at once, and about Discovery, for any        *)
(* cycles, plans, candidates and references.                               *)
(***************************************************************************)
EXTENDS Onboarding, Discovery, SequenceTheorems, FiniteSetTheorems, WellFoundedInduction, TLAPS

LEMMA Constants ==
  /\ NoProfile \notin Profiles /\ TermFields \cap PreferenceFields = {}
  /\ "none" \notin Descriptions /\ "none" \notin Answers /\ "manual" \notin Descriptions
  /\ MaxRevision \in Nat \ {0} /\ Revisions = 0..MaxRevision
  /\ \A f \in Fields : Operation(f) \in {"edit", "prefer"}
BY OnboardingAssumption DEF Revisions, Operation

LEMMA IdleType == Idle \in Handler /\ NoPrompt \in Prompt /\ Absent \in Row
BY Constants DEF Idle, NoPrompt, Absent, Handler, Prompt, Row

-----------------------------------------------------------------------------
(* Types                                                                   *)

(* Beside its type, what a handler has at the place it is at: the text to  *)
(* analyse, the answer to save, the profile that exists, the operation and *)
(* the field it is for, and what it read of the row.                       *)
Sound(t) ==
    /\ t.pc \in {"look", "ask", "save"} => t.text \in Descriptions
    /\ t.pc = "save" => t.answer \in Answers
    /\ t.pc = "create" => t.text \in Descriptions \cup {"manual"}
    /\ t.pc \in {"load", "check", "store"} =>
          /\ t.op \in {"edit", "prefer", "confirm"} /\ t.of \in Profiles /\ Exists(t.of)
          /\ t.op # "confirm" => t.field \in Fields /\ Operation(t.field) = t.op
    /\ t.pc \in {"check", "store"} /\ t.op # "confirm" =>
          \A f \in Fields : t.read[f] <= profile[t.of].revision
    /\ t.pc = "check" => t.op = "edit"

(* The prompt for a field is that of a profile that exists.                *)
PromptsNameRows ==
    pending.kind = "field" =>
        pending.of \in Profiles /\ Exists(pending.of) /\ pending.field \in Fields

TypeInv == TypeOK /\ PromptsNameRows /\ \A h \in Handlers : Sound(handler[h])

(* Rows are not deleted, and their revisions grow.                         *)
RowsGrow == \A p \in Profiles : /\ Exists(p) => Exists(p)'
                                /\ profile[p].revision <= profile'[p].revision

(* A step that gives one handler a sound task.                             *)
LEMMA TaskType ==
  ASSUME TypeInv, RowsGrow, profile' \in [Profiles -> Row], NEW h \in Handlers, NEW t \in Handler, Sound(t),
         handler' = [handler EXCEPT ![h] = t]
  PROVE  handler' \in [Handlers -> Handler] /\ (\A g \in Handlers : Sound(handler[g]))'
<1>1. handler \in [Handlers -> Handler]
  BY DEF TypeInv, TypeOK
<1>2. handler' \in [Handlers -> Handler]
  BY <1>1
<1>3. \A g \in Handlers : handler'[g] = IF g = h THEN t ELSE handler[g]
  BY <1>1
<1>4. ASSUME NEW g \in Handlers PROVE Sound(handler[g])'
  <2>0. /\ profile \in [Profiles -> Row] /\ profile' \in [Profiles -> Row]
        /\ \A p \in Profiles : profile[p].revision \in Nat /\ profile'[p].revision \in Nat
    BY Constants DEF TypeInv, TypeOK, Row
  <2>3. ASSUME NEW s \in Handler, Sound(s), handler'[g] = s PROVE Sound(handler[g])'
    <3>1. \A f \in Fields : s.read[f] \in Nat
      BY Constants DEF Handler
    <3> QED
      BY <2>0, <2>3, <3>1 DEF Sound, RowsGrow, Exists
  <2>1. CASE g = h
    BY <1>3, <2>1, <2>3
  <2>2. CASE g # h
    <3>1. handler'[g] = handler[g] /\ Sound(handler[g]) /\ handler[g] \in Handler
      BY <1>1, <1>3, <2>2 DEF TypeInv
    <3> QED
      BY <3>1, <2>3
  <2> QED
    BY <2>1, <2>2
<1> QED
  BY <1>2, <1>4

(* What a handler leaves when it ends or has only to reply.                *)
LEMMA EndType ==
  ASSUME TypeInv, NEW h \in Handlers
  PROVE  /\ Idle \in Handler /\ Sound(Idle)
         /\ [Idle EXCEPT !.pc = "reply", !.prompt = handler[h].prompt] \in Handler
         /\ Sound([Idle EXCEPT !.pc = "reply", !.prompt = handler[h].prompt])
BY IdleType DEF TypeInv, TypeOK, Idle, Sound, Handler

LEMMA OpensType == ASSUME NEW q \in Prompt, Opens(q)
                   PROVE  {pending, asked}' \subseteq Prompt /\ overlapped' \in BOOLEAN
BY DEF Opens

LEMMA InitTypeInv == Init => TypeInv
<1> SUFFICES ASSUME Init PROVE TypeInv
  OBVIOUS
<1>1. TypeOK
  <2>1. /\ {pending, asked} \subseteq Prompt /\ handler \in [Handlers -> Handler]
        /\ cache \in [Descriptions -> Answers \cup {"none"}]
        /\ accepted \in [Profiles -> [Fields -> Revisions]]
        /\ confirmedAs \in [Profiles -> Revisions] /\ ahead \subseteq Profiles
    BY Constants, IdleType DEF Init
  <2>2. overlapped \in BOOLEAN
    BY DEF Init
  <2>3. profile \in [Profiles -> Row]
        /\ \A p \in Profiles : /\ Exists(p) <=> profile[p].revision > 0
                               /\ \A f \in Fields : profile[p].written[f] <= profile[p].revision
    <3>1. profile \in [Profiles -> Row]
      BY IdleType DEF Init
    <3>2. ASSUME NEW p \in Profiles PROVE profile[p] = Absent
      BY DEF Init
    <3>3. Absent.status = "absent" /\ Absent.revision = 0 /\ \A f \in Fields : Absent.written[f] = 0
      BY DEF Absent
    <3> QED
      BY <3>1, <3>2, <3>3 DEF Exists
  <2> QED
    BY <2>1, <2>2, <2>3 DEF TypeOK
<1>2. Sound(Idle)
  BY DEF Sound, Idle
<1> QED
  BY <1>1, <1>2 DEF Init, TypeInv, PromptsNameRows, NoPrompt

(* Messages and commands: the task a handler starts with.                  *)
LEMMA ArrivalTask ==
  ASSUME TypeInv, NEW h \in Handlers, TextArrives(h) \/ CommandArrives(h)
  PROVE  \E t \in Handler : /\ handler' = [handler EXCEPT ![h] = t] /\ Sound(t)
                            /\ t.pc \in {"look", "create", "load"}
                            /\ t.pc = "create" => t.text = "manual"
                            /\ t.prompt \in {NoPrompt, pending}
<1> DEFINE Good(t) == /\ t \in Handler /\ Sound(t) /\ t.pc \in {"look", "create", "load"}
                      /\ t.pc = "create" => t.text = "manual"
                      /\ t.prompt \in {NoPrompt, pending}
<1> SUFFICES \E t : Good(t) /\ Starts(h, t)
  BY DEF Starts
<1>0. /\ Idle \in Handler /\ NoPrompt \in Prompt /\ pending \in Prompt
      /\ profile \in [Profiles -> Row]
  BY IdleType DEF TypeInv, TypeOK
<1>1. ASSUME NEW d \in Descriptions, NEW q \in {NoPrompt, pending}
      PROVE  Good([Idle EXCEPT !.pc = "look", !.op = "draft", !.prompt = q, !.text = d])
  BY <1>0 DEF Idle, Handler, Sound
<1>2. ASSUME NEW d \in Descriptions
      PROVE  Good([Idle EXCEPT !.pc = "look", !.op = "draft", !.text = d])
  BY <1>0 DEF Idle, Handler, Sound
<1>3. Good([Idle EXCEPT !.pc = "create", !.op = "draft", !.text = "manual"])
  BY <1>0 DEF Idle, Handler, Sound
<1>4. CASE TextArrives(h)
  <2>1. CASE pending.kind = "ai"
    BY <1>1, <1>4, <2>1 DEF TextArrives
  <2>2. CASE pending.kind # "ai"
    <3> DEFINE t == [Idle EXCEPT !.pc = "load", !.op = Operation(pending.field),
                       !.prompt = pending, !.of = pending.of,
                       !.revision = pending.revision, !.field = pending.field]
    <3>1. Starts(h, t) /\ pending.kind = "field"
      BY <1>4, <2>2 DEF TextArrives
    <3>2. pending.of \in Profiles /\ Exists(pending.of) /\ pending.field \in Fields
      BY <3>1 DEF TypeInv, PromptsNameRows
    <3>3. t \in Handler
      BY <1>0, <3>2, Constants DEF Handler, Prompt, Idle
    <3>4. Sound(t) /\ t.pc = "load" /\ t.prompt = pending
      BY <3>2, Constants DEF Sound, Idle
    <3> QED
      BY <3>1, <3>3, <3>4
  <2> QED
    BY <2>1, <2>2
<1>5. CASE CommandArrives(h)
  <2>1. ASSUME NEW p \in Profiles, Exists(p), NEW r \in {profile[p].revision, profile[p].revision + 1},
               NEW f \in Fields,
               Starts(h, [Idle EXCEPT !.pc = "load", !.op = Operation(f), !.of = p,
                                      !.revision = r, !.field = f])
        PROVE  Good([Idle EXCEPT !.pc = "load", !.op = Operation(f), !.of = p,
                                 !.revision = r, !.field = f])
    <3>1. r < MaxRevision /\ r \in Revisions
      BY <1>0, <2>1, Constants DEF Starts, Idle, Row
    <3> QED
      BY <1>0, <2>1, <3>1, Constants DEF Sound, Idle, Handler
  <2>2. ASSUME NEW p \in Profiles, Exists(p), NEW r \in {profile[p].revision, profile[p].revision + 1},
               Starts(h, [Idle EXCEPT !.pc = "load", !.op = "confirm", !.of = p, !.revision = r])
        PROVE  Good([Idle EXCEPT !.pc = "load", !.op = "confirm", !.of = p, !.revision = r])
    <3>1. r < MaxRevision /\ r \in Revisions
      BY <1>0, <2>2, Constants DEF Starts, Idle, Row
    <3> QED
      BY <1>0, <2>2, <3>1, Constants DEF Sound, Idle, Handler
  <2> HIDE DEF Good
  <2> QED
    BY <1>2, <1>3, <1>5, <2>1, <2>2 DEF CommandArrives
<1> QED
  BY <1>4, <1>5

(* The steps inside a handler that leave the rows alone.                   *)
InnerStep(h) == \/ LooksUp(h) \/ Asks(h) \/ SavesAnalysis(h)
                \/ LoadsRow(h) \/ ChecksDraft(h) \/ LoadsForConfirmation(h)

LEMMA InnerTask ==
  ASSUME TypeInv, NEW h \in Handlers, InnerStep(h)
  PROVE  \E t \in Handler : handler' = [handler EXCEPT ![h] = t] /\ Sound(t)
                            /\ t.prompt = handler[h].prompt
<1> DEFINE s == handler[h]
<1>0. /\ s \in Handler /\ Sound(s)
      /\ cache \in [Descriptions -> Answers \cup {"none"}] /\ profile \in [Profiles -> Row]
  BY DEF TypeInv, TypeOK
<1>1. CASE LooksUp(h)
  <2> DEFINE t == [s EXCEPT !.pc = IF cache[s.text] = "none" THEN "ask" ELSE "create",
                            !.answer = cache[s.text]]
  <2>1. s.text \in Descriptions /\ cache[s.text] \in Answers \cup {"none"}
    BY <1>0, <1>1 DEF LooksUp, Sound
  <2>2. t \in Handler /\ Sound(t) /\ t.prompt = s.prompt
    BY <1>0, <2>1 DEF Handler, Sound
  <2>3. handler' = [handler EXCEPT ![h] = t]
    BY <1>1 DEF LooksUp
  <2> QED
    BY <2>2, <2>3
<1>2. CASE Asks(h)
  <2>1. PICK a \in Answers : handler' = [handler EXCEPT ![h].pc = "save", ![h].answer = a]
    BY <1>2 DEF Asks
  <2> DEFINE t == [s EXCEPT !.pc = "save", !.answer = a]
  <2>2. t \in Handler /\ Sound(t) /\ t.prompt = s.prompt
    BY <1>0, <1>2 DEF Handler, Sound, Asks
  <2> QED
    BY <2>1, <2>2
<1>3. CASE SavesAnalysis(h)
  <2> DEFINE t == [s EXCEPT !.pc = "create", !.answer = Kept(s.text, s.answer)]
  <2>1. s.text \in Descriptions /\ Kept(s.text, s.answer) \in Answers
    BY <1>0, <1>3 DEF SavesAnalysis, Sound, Kept
  <2>2. t \in Handler /\ Sound(t) /\ t.prompt = s.prompt
    BY <1>0, <2>1 DEF Handler, Sound
  <2>3. handler' = [handler EXCEPT ![h] = t]
    BY <1>3 DEF SavesAnalysis
  <2> QED
    BY <2>2, <2>3
<1>4. CASE LoadsRow(h)
  <2> DEFINE t == [s EXCEPT !.pc = IF s.op = "edit" THEN "check" ELSE "store",
                            !.read = Read(s), !.readAt = profile[s.of].revision]
  <2>1. /\ s.of \in Profiles /\ s.op \in {"edit", "prefer"} /\ s.field \in Fields /\ Exists(s.of)
        /\ Operation(s.field) = s.op
    BY <1>0, <1>4 DEF LoadsRow, Sound
  <2>2. Read(s) \in [Fields -> Revisions] /\ profile[s.of].revision \in Revisions
    BY <1>0, <2>1, Constants DEF Read, Row
  <2>3. \A f \in Fields : Read(s)[f] <= profile[s.of].revision
    BY <1>0, <2>1, <2>2, Constants DEF Read, Row, TypeInv, TypeOK
  <2>4. t \in Handler /\ Sound(t) /\ t.prompt = s.prompt
    BY <1>0, <2>1, <2>2, <2>3 DEF Handler, Sound
  <2>5. handler' = [handler EXCEPT ![h] = t]
    BY <1>4 DEF LoadsRow
  <2> QED
    BY <2>4, <2>5
<1>5. CASE ChecksDraft(h)
  <2> DEFINE rd == [f \in Fields |-> IF f \in TermFields THEN s.read[f] ELSE profile[s.of].written[f]]
             t == [s EXCEPT !.pc = "store", !.read = rd]
  <2>1. /\ s.of \in Profiles /\ s.op = "edit" /\ s.field \in Fields /\ Exists(s.of)
        /\ Operation(s.field) = s.op
    BY <1>0, <1>5 DEF ChecksDraft, Sound
  <2>2. rd \in [Fields -> Revisions]
    BY <1>0, <2>1 DEF Row, Handler
  <2>3. handler' = [handler EXCEPT ![h] = t]
    BY <1>5 DEF ChecksDraft
  <2>4. \A f \in Fields : rd[f] <= profile[s.of].revision
    BY <1>0, <1>5, <2>1 DEF ChecksDraft, Sound, TypeInv, TypeOK
  <2> HIDE DEF rd
  <2>5. t \in Handler /\ Sound(t) /\ t.prompt = s.prompt
    BY <1>0, <2>1, <2>2, <2>4 DEF Handler, Sound
  <2> QED
    BY <2>3, <2>5
<1>6. CASE LoadsForConfirmation(h)
  <2>1. CASE Done(h)
    <3>1. [Idle EXCEPT !.pc = "reply", !.prompt = s.prompt].prompt = s.prompt
      BY DEF Idle
    <3> QED
      BY <2>1, <3>1, EndType DEF Done
  <2>2. CASE Goes(h, "store")
    <3> DEFINE t == [s EXCEPT !.pc = "store"]
    <3>1. t \in Handler /\ Sound(t) /\ t.prompt = s.prompt
      BY <1>0, <1>6 DEF Handler, Sound, LoadsForConfirmation
    <3> QED
      BY <2>2, <3>1 DEF Goes
  <2> QED
    BY <1>6, <2>1, <2>2 DEF LoadsForConfirmation
<1> QED
  BY <1>1, <1>2, <1>3, <1>4, <1>5, <1>6 DEF InnerStep

(* Steps that end a handler or leave it only the reply.                    *)
LEMMA LastTask ==
  ASSUME TypeInv, NEW h \in Handlers,
         Ends(h) \/ Done(h)
  PROVE  \E t \in Handler : handler' = [handler EXCEPT ![h] = t] /\ Sound(t)
                            /\ t.pc \in {"idle", "reply"} /\ t.prompt \in {NoPrompt, handler[h].prompt}
<1>1. CASE Ends(h)
  <2>1. Idle.pc = "idle" /\ Idle.prompt = NoPrompt
    BY DEF Idle
  <2> QED
    BY <1>1, <2>1, EndType DEF Ends
<1>2. CASE Done(h)
  <2> DEFINE t == [Idle EXCEPT !.pc = "reply", !.prompt = handler[h].prompt]
  <2>1. t.pc = "reply" /\ t.prompt = handler[h].prompt
    BY DEF Idle
  <2> QED
    BY <1>2, <2>1, EndType DEF Done
<1> QED
  BY <1>1, <1>2

-----------------------------------------------------------------------------
(* The rows                                                                *)

RowsTyped ==
    /\ profile \in [Profiles -> Row]
    /\ \A p \in Profiles : /\ Exists(p) <=> profile[p].revision > 0
                           /\ \A f \in Fields : profile[p].written[f] <= profile[p].revision

(* A step that gives one row a later revision.                             *)
LEMMA RowStep ==
  ASSUME RowsTyped, NEW p \in Profiles, NEW r \in Row,
         profile' = [profile EXCEPT ![p] = r],
         r.revision > profile[p].revision, r.status # "absent",
         \A f \in Fields : r.written[f] <= r.revision
  PROVE  RowsTyped' /\ RowsGrow
<1>1. profile' \in [Profiles -> Row] /\ \A q \in Profiles \ {p} : profile'[q] = profile[q]
  BY DEF RowsTyped
<1>2. r.revision > 0 /\ profile'[p] = r
  BY DEF RowsTyped, Row, Revisions
<1>3. \A q \in Profiles : profile[q].revision \in Nat /\ r.revision \in Nat
  BY Constants DEF RowsTyped, Row
<1> QED
  BY <1>1, <1>2, <1>3 DEF RowsTyped, RowsGrow, Exists

LEMMA CreationRow ==
  ASSUME TypeInv, NEW h \in Handlers, CreatesDraft(h)
  PROVE  \E p \in Profiles, r \in Row :
            /\ ~Exists(p) /\ profile' = [profile EXCEPT ![p] = r]
            /\ accepted' = [accepted EXCEPT ![p] = [f \in Fields |-> 1]]
            /\ r.status = "draft" /\ r.revision = 1 /\ r.from = handler[h].text
            /\ r.answer = handler[h].answer /\ r.written = [f \in Fields |-> 1]
<1>1. PICK p \in Profiles :
         /\ ~Exists(p)
         /\ profile' = [profile EXCEPT ![p] =
               [status |-> "draft", revision |-> 1, from |-> handler[h].text,
                answer |-> handler[h].answer, written |-> [f \in Fields |-> 1]]]
         /\ accepted' = [accepted EXCEPT ![p] = [f \in Fields |-> 1]]
  BY DEF CreatesDraft
<1>2. handler[h] \in Handler /\ handler[h].text \in Descriptions \cup {"none", "manual"}
      /\ handler[h].answer \in Answers \cup {"none"}
  BY DEF TypeInv, TypeOK, Handler
<1> DEFINE r == [status |-> "draft", revision |-> 1, from |-> handler[h].text,
                 answer |-> handler[h].answer, written |-> [f \in Fields |-> 1]]
<1>3. 1 \in Revisions
  BY Constants
<1>4. r \in Row
  BY <1>2, <1>3 DEF Row
<1> QED
  BY <1>1, <1>4

(* An update makes the next revision and writes at most one field with it. *)
LEMMA UpdateRow ==
  ASSUME TypeInv, NEW h \in Handlers, StoresRow(h)
  PROVE  LET t == handler[h]
             p == t.of
         IN  /\ p \in Profiles /\ Updated(t) \in Row /\ profile' = [profile EXCEPT ![p] = Updated(t)]
             /\ t.op \in {"edit", "prefer", "confirm"}
             /\ Updated(t).revision = profile[p].revision + 1
             /\ Updated(t).status = IF t.op = "confirm" THEN "confirmed" ELSE profile[p].status
             /\ Updated(t).from = profile[p].from /\ Updated(t).answer = profile[p].answer
             /\ t.op = "confirm" => Updated(t).written = profile[p].written
             /\ t.op # "confirm" => t.field \in Fields
<1> DEFINE t == handler[h]
           p == t.of
<1>1. /\ t \in Handler /\ Sound(t) /\ t.pc = "store"
      /\ profile[p].revision < MaxRevision /\ profile' = [profile EXCEPT ![p] = Updated(t)]
  BY DEF TypeInv, TypeOK, StoresRow
<1>2. p \in Profiles /\ t.op \in {"edit", "prefer", "confirm"} /\ (t.op # "confirm" => t.field \in Fields)
  BY <1>1 DEF Sound
<1>3. /\ profile[p] \in Row /\ t.read \in [Fields -> Revisions]
      /\ profile[p].revision \in Revisions /\ profile[p].revision + 1 \in Revisions
      /\ profile[p].written \in [Fields -> Revisions]
  BY <1>1, <1>2, Constants DEF TypeInv, TypeOK, Row, Handler
<1> HIDE DEF t, p
<1>4. CASE t.op = "confirm"
  <2>1. Updated(t) = [profile[t.of] EXCEPT !.status = "confirmed", !.revision = @ + 1]
    BY <1>4 DEF Updated
  <2> QED
    BY <1>1, <1>2, <1>3, <1>4, <2>1 DEF Row, t, p
<1>5. CASE t.op = "edit"
  <2> DEFINE w == [t.read EXCEPT ![t.field] = profile[t.of].revision + 1]
  <2>1. Updated(t) = [profile[t.of] EXCEPT !.revision = @ + 1, !.written = w]
    BY <1>5 DEF Updated
  <2>2. w \in [Fields -> Revisions]
    BY <1>3 DEF p
  <2> HIDE DEF w
  <2> QED
    BY <1>1, <1>2, <1>3, <1>5, <2>1, <2>2 DEF Row, t, p
<1>6. CASE t.op = "prefer"
  <2> DEFINE w == [f \in Fields |-> CASE f = t.field -> profile[t.of].revision + 1
                                      [] f \in TermFields -> profile[t.of].written[f]
                                      [] OTHER -> t.read[f]]
  <2>1. Updated(t) = [profile[t.of] EXCEPT !.revision = @ + 1, !.written = w]
    BY <1>6 DEF Updated
  <2>2. w \in [Fields -> Revisions]
    BY <1>3 DEF p
  <2> HIDE DEF w
  <2> QED
    BY <1>1, <1>2, <1>3, <1>6, <2>1, <2>2 DEF Row, t, p
<1> QED
  BY <1>2, <1>4, <1>5, <1>6

LEMMA StoredRow ==
  ASSUME TypeInv, NEW h \in Handlers, StoresRow(h)
  PROVE  \A f \in Fields : Updated(handler[h]).written[f] <= Updated(handler[h]).revision
<1> DEFINE t == handler[h]
           p == t.of
<1>1. /\ t \in Handler /\ Sound(t) /\ t.pc = "store" /\ p \in Profiles
      /\ t.op \in {"edit", "prefer", "confirm"}
      /\ Updated(t).revision = profile[p].revision + 1
      /\ t.op = "confirm" => Updated(t).written = profile[p].written
      /\ t.op # "confirm" => t.field \in Fields
  BY UpdateRow DEF TypeInv, TypeOK, StoresRow
<1>2. /\ profile[p] \in Row /\ profile[p].revision \in Nat
      /\ \A f \in Fields : /\ profile[p].written[f] \in Nat /\ t.read[f] \in Nat
                           /\ profile[p].written[f] <= profile[p].revision
                           /\ t.op # "confirm" => t.read[f] <= profile[p].revision
  BY <1>1, Constants DEF TypeInv, TypeOK, Row, Handler, Sound
<1>3. ASSUME NEW f \in Fields PROVE Updated(t).written[f] \in {profile[p].written[f], profile[p].revision + 1, t.read[f]}
  <2>1. CASE t.op = "confirm"
    BY <1>1, <2>1
  <2>2. CASE t.op = "edit"
    <3>1. Updated(t).written = [t.read EXCEPT ![t.field] = profile[t.of].revision + 1]
      BY <1>2, <2>2 DEF Updated, Row
    <3> QED
      BY <1>1, <3>1 DEF Handler
  <2>3. CASE t.op = "prefer"
    <3>1. Updated(t).written[f] = CASE f = t.field -> profile[t.of].revision + 1
                                    [] f \in TermFields -> profile[t.of].written[f]
                                    [] OTHER -> t.read[f]
      BY <1>2, <2>3 DEF Updated, Row
    <3> QED
      BY <3>1
  <2> QED
    BY <1>1, <2>1, <2>2, <2>3
<1> HIDE DEF t, p
<1>4. ASSUME NEW f \in Fields PROVE Updated(t).written[f] <= profile[p].revision + 1
  <2>1. CASE t.op = "confirm"
    BY <1>1, <1>2, <2>1
  <2>2. CASE t.op # "confirm"
    <3>1. profile[p].written[f] <= profile[p].revision + 1 /\ t.read[f] <= profile[p].revision + 1
      BY <1>2, <2>2
    <3> QED
      BY <1>2, <1>3, <3>1
  <2> QED
    BY <2>1, <2>2
<1> QED
  BY <1>1, <1>4 DEF t

(* Steps that leave the rows alone.                                        *)
LEMMA SameRows ==
  ASSUME TypeInv, UNCHANGED profile
  PROVE  RowsTyped' /\ RowsGrow
<1>1. \A p \in Profiles : profile[p].revision \in Nat
  BY Constants DEF TypeInv, TypeOK, Row
<1> QED
  BY <1>1 DEF TypeInv, TypeOK, RowsTyped, RowsGrow, Exists

LEMMA RowsFollow ==
  ASSUME TypeInv, [Next]_vars
  PROVE  RowsTyped' /\ RowsGrow
<1>0. RowsTyped /\ \A p \in Profiles : profile[p] \in Row /\ profile[p].revision \in Nat
  BY Constants DEF TypeInv, TypeOK, RowsTyped, Row
<1>1. ASSUME NEW h \in Handlers, CreatesDraft(h) PROVE RowsTyped' /\ RowsGrow
  <2>1. PICK p \in Profiles, r \in Row :
            /\ ~Exists(p) /\ profile' = [profile EXCEPT ![p] = r]
            /\ r.status = "draft" /\ r.revision = 1 /\ r.written = [f \in Fields |-> 1]
    BY <1>1, CreationRow
  <2>2. profile[p].revision = 0 /\ r.revision > profile[p].revision
    BY <1>0, <2>1 DEF RowsTyped
  <2>3. r.status # "absent" /\ \A f \in Fields : r.written[f] <= r.revision
    BY <2>1
  <2> QED
    BY <1>0, <2>1, <2>2, <2>3, RowStep
<1>2. ASSUME NEW h \in Handlers, StoresRow(h) PROVE RowsTyped' /\ RowsGrow
  <2> DEFINE t == handler[h]
  <2>1. /\ t.of \in Profiles /\ Updated(t) \in Row /\ profile' = [profile EXCEPT ![t.of] = Updated(t)]
        /\ Updated(t).revision = profile[t.of].revision + 1
        /\ Updated(t).status = IF t.op = "confirm" THEN "confirmed" ELSE profile[t.of].status
        /\ \A f \in Fields : Updated(t).written[f] <= Updated(t).revision
    BY <1>2, UpdateRow, StoredRow
  <2>2. Updated(t).status # "absent" /\ Updated(t).revision > profile[t.of].revision
    BY <1>0, <1>2, <2>1 DEF TypeInv, Sound, StoresRow, Exists
  <2> HIDE DEF t
  <2> QED
    BY <1>0, <2>1, <2>2, RowStep
<1>3. ASSUME NEW p \in Profiles, SwitchesSearch(p) PROVE RowsTyped' /\ RowsGrow
  <2> DEFINE r == [profile[p] EXCEPT !.revision = @ + 1]
  <2>1. profile' = [profile EXCEPT ![p] = r] /\ profile[p].status = "confirmed"
    BY <1>3 DEF SwitchesSearch
  <2>2. r \in Row /\ r.revision = profile[p].revision + 1 /\ r.status = "confirmed"
        /\ r.written = profile[p].written
    BY <1>0, <1>3, Constants DEF SwitchesSearch, Row
  <2>4. r.revision > profile[p].revision /\ r.status # "absent"
    <3> HIDE DEF r
    <3> QED
      BY <1>0, <2>2
  <2>3. \A f \in Fields : r.written[f] <= r.revision
    <3>1. \A f \in Fields : profile[p].written[f] \in Nat /\ profile[p].written[f] <= profile[p].revision
      BY <1>0, Constants DEF RowsTyped, Row
    <3> QED
      BY <1>0, <2>2, <3>1
  <2> HIDE DEF r
  <2> QED
    BY <1>0, <2>1, <2>2, <2>3, <2>4, RowStep
<1>4. CASE UNCHANGED profile
  BY <1>4, SameRows
<1>5. \/ UNCHANGED profile
      \/ \E h \in Handlers : CreatesDraft(h) \/ StoresRow(h)
      \/ \E p \in Profiles : SwitchesSearch(p)
  BY DEF Next, vars, rows, history, OpensPrompt, Restarts, TextArrives, CommandArrives, LooksUp, Asks,
         SavesAnalysis, LoadsRow, ChecksDraft, LoadsForConfirmation, ConfirmedMeanwhile, Replies,
         MeetsConflict, GivesUp
<1> QED
  BY <1>1, <1>2, <1>3, <1>4, <1>5

-----------------------------------------------------------------------------
(* The step of a handler, whichever it is, gives it a sound task.          *)
HandlerStep(h) ==
    \/ TextArrives(h) \/ CommandArrives(h) \/ InnerStep(h) \/ CreatesDraft(h) \/ StoresRow(h)
    \/ ConfirmedMeanwhile(h) \/ Replies(h) \/ MeetsConflict(h) \/ GivesUp(h)

LEMMA StepTask ==
  ASSUME TypeInv, NEW h \in Handlers, HandlerStep(h)
  PROVE  \E t \in Handler : handler' = [handler EXCEPT ![h] = t] /\ Sound(t)
<1>1. CASE TextArrives(h) \/ CommandArrives(h)
  BY <1>1, ArrivalTask
<1>2. CASE InnerStep(h)
  BY <1>2, InnerTask
<1>3. CASE \/ CreatesDraft(h) \/ StoresRow(h) \/ ConfirmedMeanwhile(h) \/ Replies(h)
           \/ MeetsConflict(h) \/ GivesUp(h)
  <2>1. Ends(h) \/ Done(h)
    BY <1>3 DEF CreatesDraft, StoresRow, ConfirmedMeanwhile, Replies, MeetsConflict, GivesUp
  <2> QED
    BY <2>1, LastTask
<1> QED
  BY <1>1, <1>2, <1>3 DEF HandlerStep

LEMMA NextTypeInv == ASSUME TypeInv, [Next]_vars PROVE TypeInv'
<1>0. RowsTyped' /\ RowsGrow
  BY RowsFollow
<1>1. handler' \in [Handlers -> Handler] /\ (\A g \in Handlers : Sound(handler[g]))'
  <2>1. CASE \E h \in Handlers : HandlerStep(h)
    <3>1. PICK h \in Handlers : HandlerStep(h)
      BY <2>1
    <3>2. PICK t \in Handler : handler' = [handler EXCEPT ![h] = t] /\ Sound(t)
      BY <3>1, StepTask
    <3> QED
      BY <1>0, <3>2, TaskType DEF RowsTyped
  <2>2. CASE Restarts
    BY <2>2, IdleType DEF Restarts, Sound, Idle
  <2>3. CASE UNCHANGED handler
    <3>1. CASE Handlers = {}
      BY <2>3, <3>1 DEF TypeInv, TypeOK
    <3>2. ASSUME NEW h \in Handlers PROVE handler' \in [Handlers -> Handler] /\ (\A g \in Handlers : Sound(handler[g]))'
      <4>1. handler' = [handler EXCEPT ![h] = handler[h]] /\ handler[h] \in Handler /\ Sound(handler[h])
        BY <2>3 DEF TypeInv, TypeOK
      <4> QED
        BY <1>0, <4>1, TaskType DEF RowsTyped
    <3> QED
      BY <3>1, <3>2
  <2> QED
    BY <2>1, <2>2, <2>3 DEF Next, vars, HandlerStep, InnerStep, OpensPrompt, SwitchesSearch
<1>2. {pending, asked}' \subseteq Prompt /\ overlapped' \in BOOLEAN /\ PromptsNameRows'
  <2>1. ASSUME NEW q \in Prompt, Opens(q),
               q.kind = "field" => q.of \in Profiles /\ Exists(q.of) /\ q.field \in Fields
        PROVE  {pending, asked}' \subseteq Prompt /\ overlapped' \in BOOLEAN /\ PromptsNameRows'
    BY <1>0, <2>1 DEF Opens, PromptsNameRows, RowsGrow, Exists
  <2>2. NoPrompt \in Prompt /\ NoPrompt.kind # "field"
    BY IdleType DEF NoPrompt
  <2>3. CASE OpensPrompt
    <3>1. [NoPrompt EXCEPT !.kind = "ai"] \in Prompt /\ [NoPrompt EXCEPT !.kind = "ai"].kind # "field"
      BY <2>2 DEF NoPrompt, Prompt
    <3>2. ASSUME NEW p \in Profiles, NEW f \in Fields
          PROVE  [kind |-> "field", of |-> p, revision |-> profile[p].revision, field |-> f] \in Prompt
      BY DEF Prompt, TypeInv, TypeOK, Row
    <3> QED
      BY <2>1, <2>2, <2>3, <3>1, <3>2 DEF OpensPrompt, Closes
  <2>4. CASE Closes
    BY <2>1, <2>2, <2>4 DEF Closes
  <2>5. CASE UNCHANGED <<pending, asked, overlapped>>
    BY <1>0, <2>5 DEF TypeInv, TypeOK, PromptsNameRows, RowsGrow, Exists
  <2>6. ASSUME NEW h \in Handlers, ClosesPrompt(h)
        PROVE  {pending, asked}' \subseteq Prompt /\ overlapped' \in BOOLEAN /\ PromptsNameRows'
    <3>1. CASE handler[h].prompt = NoPrompt
      BY <2>5, <2>6, <3>1 DEF ClosesPrompt
    <3>2. CASE handler[h].prompt # NoPrompt
      <4>1. pending' = NoPrompt /\ overlapped' = FALSE /\ asked' \in {NoPrompt, asked}
        BY <2>6, <3>2 DEF ClosesPrompt
      <4>2. PromptsNameRows'
        BY <2>2, <4>1 DEF PromptsNameRows
      <4> QED
        BY <2>2, <4>1, <4>2 DEF TypeInv, TypeOK
    <3> QED
      BY <3>1, <3>2
  <2>7. \/ OpensPrompt \/ Closes \/ UNCHANGED <<pending, asked, overlapped>>
        \/ \E h \in Handlers : ClosesPrompt(h)
    BY DEF Next, vars, rows, history, Restarts, TextArrives, CommandArrives, LooksUp, Asks,
           SavesAnalysis, CreatesDraft, LoadsRow, ChecksDraft, LoadsForConfirmation, StoresRow,
           ConfirmedMeanwhile, SwitchesSearch, Replies, MeetsConflict, GivesUp, LeavesPrompt
  <2> QED
    BY <2>3, <2>4, <2>5, <2>6, <2>7
<1>3. cache' \in [Descriptions -> Answers \cup {"none"}]
  <2>1. ASSUME NEW h \in Handlers, SavesAnalysis(h) PROVE cache' \in [Descriptions -> Answers \cup {"none"}]
    BY <2>1 DEF SavesAnalysis, TypeInv, TypeOK, Sound
  <2>2. UNCHANGED cache \/ \E h \in Handlers : SavesAnalysis(h)
    BY DEF Next, vars, rows, history, OpensPrompt, Restarts, TextArrives, CommandArrives, LooksUp, Asks,
           CreatesDraft, LoadsRow, ChecksDraft, LoadsForConfirmation, StoresRow,
           ConfirmedMeanwhile, SwitchesSearch, Replies, MeetsConflict, GivesUp
  <2> QED
    BY <2>1, <2>2 DEF TypeInv, TypeOK
<1>4. /\ accepted' \in [Profiles -> [Fields -> Revisions]] /\ confirmedAs' \in [Profiles -> Revisions]
      /\ ahead' \subseteq Profiles
  <2>1. ASSUME NEW h \in Handlers, CreatesDraft(h)
        PROVE  accepted' \in [Profiles -> [Fields -> Revisions]] /\ UNCHANGED <<confirmedAs, ahead>>
    BY <2>1, Constants DEF CreatesDraft, TypeInv, TypeOK
  <2>2. ASSUME NEW h \in Handlers, StoresRow(h)
        PROVE  /\ accepted' \in [Profiles -> [Fields -> Revisions]]
               /\ confirmedAs' \in [Profiles -> Revisions] /\ ahead' \subseteq Profiles
    <3> DEFINE t == handler[h]
    <3>1. t.of \in Profiles /\ t.revision \in Revisions /\ (t.op # "confirm" => t.field \in Fields)
      BY <2>2, UpdateRow DEF TypeInv, TypeOK, Handler
    <3>2. profile[t.of].revision + 1 \in Revisions
      BY <2>2, <3>1, Constants DEF StoresRow, TypeInv, TypeOK, Row
    <3>3. accepted' = accepted \/ (t.op # "confirm"
             /\ accepted' = [accepted EXCEPT ![t.of][t.field] = profile[t.of].revision + 1])
      BY <2>2 DEF StoresRow
    <3>4. confirmedAs' = confirmedAs \/ confirmedAs' = [confirmedAs EXCEPT ![t.of] = t.revision]
      BY <2>2 DEF StoresRow
    <3>5. ahead' = ahead \/ ahead' = ahead \cup {t.of}
      BY <2>2 DEF StoresRow
    <3> HIDE DEF t
    <3>6. accepted' \in [Profiles -> [Fields -> Revisions]]
      <4>1. accepted \in [Profiles -> [Fields -> Revisions]]
        BY DEF TypeInv, TypeOK
      <4>2. ASSUME t.op # "confirm"
            PROVE  [accepted[t.of] EXCEPT ![t.field] = profile[t.of].revision + 1] \in [Fields -> Revisions]
        BY <3>1, <3>2, <4>1, <4>2
      <4> QED
        BY <3>1, <3>3, <4>1, <4>2
    <3> QED
      BY <3>1, <3>4, <3>5, <3>6 DEF TypeInv, TypeOK
  <2>3. \/ UNCHANGED <<accepted, confirmedAs, ahead>>
        \/ \E h \in Handlers : CreatesDraft(h) \/ StoresRow(h)
    BY DEF Next, vars, rows, history, OpensPrompt, Restarts, TextArrives, CommandArrives, LooksUp, Asks,
           SavesAnalysis, LoadsRow, ChecksDraft, LoadsForConfirmation, ConfirmedMeanwhile,
           SwitchesSearch, Replies, MeetsConflict, GivesUp
  <2> QED
    BY <2>1, <2>2, <2>3 DEF TypeInv, TypeOK
<1> QED
  BY <1>0, <1>1, <1>2, <1>3, <1>4 DEF TypeInv, TypeOK, RowsTyped, Exists

(* Every variable keeps its type, and rows are those the tables allow.     *)
THEOREM TypeCorrect == Spec => []TypeOK
<1>1. Init => TypeInv
  BY InitTypeInv
<1>2. TypeInv /\ [Next]_vars => TypeInv'
  BY NextTypeInv
<1>3. TypeInv => TypeOK
  BY DEF TypeInv
<1> QED
  BY <1>1, <1>2, <1>3, PTL DEF Spec

-----------------------------------------------------------------------------
(* Confirmation                                                            *)

(* What a step may do to a row.                                            *)
LEMMA RowSteps ==
  ASSUME TypeInv, [Next]_vars
  PROVE  \/ UNCHANGED <<profile, accepted, confirmedAs, ahead>>
         \/ \E h \in Handlers : CreatesDraft(h) \/ StoresRow(h)
         \/ \E p \in Profiles : SwitchesSearch(p)
BY DEF Next, vars, rows, history, OpensPrompt, Restarts, TextArrives, CommandArrives, LooksUp, Asks,
       SavesAnalysis, LoadsRow, ChecksDraft, LoadsForConfirmation, ConfirmedMeanwhile, Replies,
       MeetsConflict, GivesUp

(* No edit in progress comes in after the confirmation: the confirmed row  *)
(* is the one whose revision the user saw (confirm, edit).                 *)
THEOREM ConfirmedAlwaysAsShown == Spec => []ConfirmedAsShown
<1>1. Init => TypeInv /\ ConfirmedAsShown
  <2> SUFFICES ASSUME Init PROVE ConfirmedAsShown
    BY InitTypeInv
  <2>1. \A p \in Profiles : profile[p].status = "absent"
    BY DEF Init, Absent
  <2> QED
    BY <2>1 DEF ConfirmedAsShown
<1>2. TypeInv /\ ConfirmedAsShown /\ [Next]_vars => (TypeInv /\ ConfirmedAsShown)'
  <2> SUFFICES ASSUME TypeInv, ConfirmedAsShown, [Next]_vars PROVE ConfirmedAsShown'
    BY NextTypeInv
  <2>0. /\ \A p \in Profiles : /\ profile[p] \in Row
                               /\ \A f \in Fields : profile[p].written[f] <= profile[p].revision
        /\ profile \in [Profiles -> Row] /\ confirmedAs \in [Profiles -> Revisions]
    BY DEF TypeInv, TypeOK
  <2>1. CASE UNCHANGED <<profile, accepted, confirmedAs, ahead>>
    BY <2>1 DEF ConfirmedAsShown
  <2>2. ASSUME NEW h \in Handlers, CreatesDraft(h) PROVE ConfirmedAsShown'
    <3>1. PICK p \in Profiles, r \in Row : profile' = [profile EXCEPT ![p] = r] /\ r.status = "draft"
      BY <2>2, CreationRow
    <3>2. UNCHANGED confirmedAs
      BY <2>2 DEF CreatesDraft
    <3> QED
      BY <2>0, <3>1, <3>2 DEF ConfirmedAsShown
  <2>3. ASSUME NEW h \in Handlers, StoresRow(h) PROVE ConfirmedAsShown'
    <3> DEFINE t == handler[h]
               p == t.of
    <3>1. /\ p \in Profiles /\ profile' = [profile EXCEPT ![p] = Updated(t)]
          /\ t.op \in {"edit", "prefer", "confirm"}
          /\ Updated(t).status = IF t.op = "confirm" THEN "confirmed" ELSE profile[p].status
          /\ t.op = "confirm" => Updated(t).written = profile[p].written
      BY <2>3, UpdateRow
    <3>2. /\ profile[p].revision = t.revision /\ (profile[p].status = "draft" \/ t.op = "prefer")
          /\ confirmedAs' = IF t.op = "confirm" THEN [confirmedAs EXCEPT ![p] = t.revision] ELSE confirmedAs
      BY <2>3 DEF StoresRow, Matches
    <3>3. ASSUME t.op = "prefer"
          PROVE  \A f \in TermFields : Updated(t).written[f] = profile[p].written[f]
      <4>1. Updated(t).written = [f \in Fields |-> CASE f = t.field -> profile[p].revision + 1
                                                      [] f \in TermFields -> profile[p].written[f]
                                                      [] OTHER -> t.read[f]]
        BY <2>0, <3>1, <3>3 DEF Updated, Row
      <4>2. t.field \notin TermFields
        BY <2>3, <3>3 DEF TypeInv, Sound, StoresRow, Operation
      <4> QED
        BY <4>1, <4>2 DEF Fields
    <3>4. \A q \in Profiles \ {p} : profile'[q] = profile[q] /\ confirmedAs'[q] = confirmedAs[q]
      BY <2>0, <3>1, <3>2
    <3>5. ASSUME profile'[p].status = "confirmed", NEW f \in TermFields
          PROVE  profile'[p].written[f] <= confirmedAs'[p]
      <4>1. profile'[p] = Updated(t)
        BY <2>0, <3>1
      <4>2. CASE t.op = "confirm"
        BY <2>0, <3>1, <3>2, <4>1, <4>2 DEF Fields
      <4>3. CASE t.op = "edit"
        <5>1. profile[p].status = "draft" /\ Updated(t).status = profile[p].status
          BY <3>1, <3>2, <4>3
        <5> QED
          BY <3>5, <4>1, <5>1
      <4>4. CASE t.op = "prefer"
        <5>1. Updated(t).written[f] = profile[p].written[f]
          BY <3>3, <4>4
        <5>2. profile[p].status = "confirmed" /\ confirmedAs' = confirmedAs
          BY <3>1, <3>2, <3>5, <4>1, <4>4
        <5> QED
          BY <3>1, <4>1, <5>1, <5>2 DEF ConfirmedAsShown
      <4> QED
        BY <3>1, <4>2, <4>3, <4>4
    <3> QED
      BY <3>4, <3>5 DEF ConfirmedAsShown
  <2>4. ASSUME NEW p \in Profiles, SwitchesSearch(p) PROVE ConfirmedAsShown'
    <3>1. /\ profile' = [profile EXCEPT ![p] = [profile[p] EXCEPT !.revision = @ + 1]]
          /\ UNCHANGED confirmedAs
      BY <2>4 DEF SwitchesSearch, history
    <3>2. \A q \in Profiles : profile'[q].status = profile[q].status /\ profile'[q].written = profile[q].written
      BY <2>0, <3>1 DEF Row
    <3> QED
      BY <3>1, <3>2 DEF ConfirmedAsShown
  <2> QED
    BY <2>1, <2>2, <2>3, <2>4, RowSteps
<1> QED
  BY <1>1, <1>2, PTL DEF Spec

-----------------------------------------------------------------------------
(* Edits                                                                   *)

(* What the new row takes from the one that was read.                      *)
Taken(t) == IF t.op = "prefer" THEN PreferenceFields
            ELSE IF t.pc = "check" THEN TermFields ELSE Fields

(* While the row has the revision it was read at, what was read of it is   *)
(* what it has: EditsAreNotLost alone says nothing of edits in progress.   *)
Current(t) ==
    t.pc \in {"check", "store"} /\ t.op \in {"edit", "prefer"} =>
        /\ t.readAt <= profile[t.of].revision
        /\ t.readAt = profile[t.of].revision =>
              \A f \in Taken(t) : t.read[f] = profile[t.of].written[f]

EditInv == TypeInv /\ EditsAreNotLost /\ \A h \in Handlers : Current(handler[h])

(* A row with a later revision is no longer the one that was read.         *)
LEMMA LaterRow ==
  ASSUME TypeInv, NEW t \in Handler, Sound(t), Current(t), RowsGrow, RowsTyped', NEW p \in Profiles,
         profile'[p].revision > profile[p].revision,
         \A q \in Profiles \ {p} : profile'[q] = profile[q]
  PROVE  Current(t)'
<1>1. CASE t.pc \in {"check", "store"} /\ t.op \in {"edit", "prefer"}
  <2>1. /\ t.of \in Profiles /\ t.readAt \in Nat
        /\ profile[t.of].revision \in Nat /\ profile'[t.of].revision \in Nat
    BY <1>1, Constants DEF Sound, Handler, TypeInv, TypeOK, RowsTyped, Row
  <2>2. CASE t.of = p
    BY <1>1, <2>1, <2>2 DEF Current
  <2>3. CASE t.of # p
    <3>1. profile'[t.of] = profile[t.of]
      BY <2>1, <2>3
    <3> QED
      BY <1>1, <3>1 DEF Current, Taken
  <2> QED
    BY <2>2, <2>3
<1>2. CASE ~(t.pc \in {"check", "store"} /\ t.op \in {"edit", "prefer"})
  BY <1>2 DEF Current
<1> QED
  BY <1>1, <1>2

(* Steps of the handlers that leave the rows alone.                        *)
LEMMA ReadsAreCurrent ==
  ASSUME EditInv, [Next]_vars, UNCHANGED profile
  PROVE  (\A h \in Handlers : Current(handler[h]))'
<1>0. /\ handler \in [Handlers -> Handler] /\ profile \in [Profiles -> Row]
      /\ \A h \in Handlers : Sound(handler[h]) /\ Current(handler[h])
  BY DEF EditInv, TypeInv, TypeOK
<1>1. ASSUME NEW h \in Handlers, NEW t, handler' = [handler EXCEPT ![h] = t], Current(t)
      PROVE  (\A g \in Handlers : Current(handler[g]))'
  <2>1. ASSUME NEW g \in Handlers PROVE Current(handler[g])'
    <3>1. handler'[g] = IF g = h THEN t ELSE handler[g]
      BY <1>0, <1>1
    <3>2. CASE g = h
      BY <1>1, <3>1, <3>2 DEF Current, Taken
    <3>3. CASE g # h
      BY <1>0, <3>1, <3>3 DEF Current, Taken
    <3> QED
      BY <3>2, <3>3
  <2> QED
    BY <2>1
<1>2. ASSUME NEW h \in Handlers, LoadsRow(h) PROVE (\A g \in Handlers : Current(handler[g]))'
  <2> DEFINE s == handler[h]
             t == [s EXCEPT !.pc = IF s.op = "edit" THEN "check" ELSE "store",
                            !.read = Read(s), !.readAt = profile[s.of].revision]
  <2>1. handler' = [handler EXCEPT ![h] = t] /\ s.of \in Profiles /\ s.op \in {"edit", "prefer"}
    BY <1>0, <1>2 DEF LoadsRow, Sound
  <2>2. /\ t.of = s.of /\ t.op = s.op /\ t.read = Read(s) /\ t.readAt = profile[s.of].revision
        /\ t.pc = IF s.op = "edit" THEN "check" ELSE "store"
    BY <1>0 DEF Handler
  <2> HIDE DEF t
  <2>3. ASSUME NEW f \in Taken(t) PROVE t.read[f] = profile[s.of].written[f]
    <3>1. f \in Fields /\ Operation(f) = s.op
      BY <2>1, <2>2, <2>3, Constants DEF Taken, Fields, Operation
    <3> QED
      BY <2>2, <3>1 DEF Read
  <2>4. Current(t)
    BY <1>0, <2>1, <2>2, <2>3, Constants DEF Current, Row
  <2> QED
    BY <1>1, <2>1, <2>4
<1>3. ASSUME NEW h \in Handlers, ChecksDraft(h) PROVE (\A g \in Handlers : Current(handler[g]))'
  <2> DEFINE s == handler[h]
             rd == [f \in Fields |-> IF f \in TermFields THEN s.read[f] ELSE profile[s.of].written[f]]
             t == [s EXCEPT !.pc = "store", !.read = rd]
  <2>1. handler' = [handler EXCEPT ![h] = t] /\ s.pc = "check" /\ s.op = "edit" /\ s.of \in Profiles
    BY <1>0, <1>3 DEF ChecksDraft, Sound
  <2>2. t.of = s.of /\ t.op = "edit" /\ t.pc = "store" /\ t.read = rd /\ t.readAt = s.readAt
    BY <1>0, <2>1 DEF Handler
  <2> HIDE DEF t
  <2>3. ASSUME s.readAt = profile[s.of].revision, NEW f \in Fields
        PROVE  t.read[f] = profile[s.of].written[f]
    <3>1. t.read[f] = IF f \in TermFields THEN s.read[f] ELSE profile[s.of].written[f]
      BY <2>2
    <3>2. f \in TermFields => s.read[f] = profile[s.of].written[f]
      BY <1>0, <2>1, <2>3 DEF Current, Taken
    <3> QED
      BY <3>1, <3>2
  <2>4. s.readAt <= profile[s.of].revision
    BY <1>0, <2>1 DEF Current
  <2>5. Current(t)
    BY <2>2, <2>3, <2>4 DEF Current, Taken
  <2> QED
    BY <1>1, <2>1, <2>5
<1>4. ASSUME NEW h \in Handlers, NEW t, handler' = [handler EXCEPT ![h] = t],
             t.pc \notin {"check", "store"} \/ t.op = "confirm"
      PROVE  (\A g \in Handlers : Current(handler[g]))'
  BY <1>1, <1>4 DEF Current
<1>5. ASSUME NEW h \in Handlers,
             LooksUp(h) \/ Asks(h) \/ SavesAnalysis(h) \/ LoadsForConfirmation(h)
      PROVE  (\A g \in Handlers : Current(handler[g]))'
  <2> SUFFICES \E t : /\ handler' = [handler EXCEPT ![h] = t]
                      /\ t.pc \notin {"check", "store"} \/ t.op = "confirm"
    BY <1>4
  <2> DEFINE s == handler[h]
  <2>1. s \in Handler
    BY <1>0
  <2>2. CASE LooksUp(h)
    <3> DEFINE t == [s EXCEPT !.pc = IF cache[s.text] = "none" THEN "ask" ELSE "create",
                              !.answer = cache[s.text]]
    <3>1. handler' = [handler EXCEPT ![h] = t] /\ t.pc \notin {"check", "store"}
      BY <2>1, <2>2 DEF LooksUp, Handler
    <3> QED
      BY <3>1
  <2>3. CASE Asks(h)
    <3>1. PICK a : handler' = [handler EXCEPT ![h].pc = "save", ![h].answer = a]
      BY <2>3 DEF Asks
    <3>2. [s EXCEPT !.pc = "save", !.answer = a].pc = "save"
      BY <2>1 DEF Handler
    <3> QED
      BY <3>1, <3>2
  <2>4. CASE SavesAnalysis(h)
    <3>1. handler' = [handler EXCEPT ![h].pc = "create", ![h].answer = Kept(s.text, s.answer)]
      BY <2>4 DEF SavesAnalysis
    <3>2. [s EXCEPT !.pc = "create", !.answer = Kept(s.text, s.answer)].pc = "create"
      BY <2>1 DEF Handler
    <3> QED
      BY <3>1, <3>2
  <2>5. CASE LoadsForConfirmation(h)
    <3>1. CASE Done(h)
      <4>1. [Idle EXCEPT !.pc = "reply", !.prompt = s.prompt].pc = "reply"
        BY DEF Idle
      <4> QED
        BY <3>1, <4>1 DEF Done
    <3>2. CASE Goes(h, "store")
      <4>1. [s EXCEPT !.pc = "store"].op = "confirm"
        BY <2>1, <2>5 DEF Handler, LoadsForConfirmation
      <4> QED
        BY <3>2, <4>1 DEF Goes
    <3> QED
      BY <2>5, <3>1, <3>2 DEF LoadsForConfirmation
  <2> QED
    BY <1>5, <2>2, <2>3, <2>4, <2>5
<1>6. ASSUME NEW h \in Handlers, TextArrives(h) \/ CommandArrives(h)
      PROVE  (\A g \in Handlers : Current(handler[g]))'
  <2>1. PICK t \in Handler : handler' = [handler EXCEPT ![h] = t] /\ t.pc \in {"look", "create", "load"}
    BY <1>6, ArrivalTask DEF EditInv
  <2> QED
    BY <1>4, <2>1
<1>7. ASSUME NEW h \in Handlers, Ends(h) \/ Done(h) PROVE (\A g \in Handlers : Current(handler[g]))'
  <2>1. PICK t \in Handler : handler' = [handler EXCEPT ![h] = t] /\ t.pc \in {"idle", "reply"}
    BY <1>7, LastTask DEF EditInv
  <2> QED
    BY <1>4, <2>1
<1>8. CASE Restarts
  BY <1>8 DEF Restarts, Current, Idle
<1>9. CASE UNCHANGED handler
  BY <1>0, <1>9 DEF Current, Taken
<1>10. \/ UNCHANGED handler \/ Restarts
       \/ \E h \in Handlers :
            \/ LoadsRow(h) \/ ChecksDraft(h)
            \/ LooksUp(h) \/ Asks(h) \/ SavesAnalysis(h) \/ LoadsForConfirmation(h)
            \/ TextArrives(h) \/ CommandArrives(h) \/ Ends(h) \/ Done(h)
  BY DEF Next, vars, OpensPrompt, SwitchesSearch, CreatesDraft, StoresRow, ConfirmedMeanwhile, Replies,
         MeetsConflict, GivesUp
<1> QED
  BY <1>2, <1>3, <1>5, <1>6, <1>7, <1>8, <1>9, <1>10

LEMMA StoredEdit ==
  ASSUME EditInv, NEW h \in Handlers, StoresRow(h)
  PROVE  EditsAreNotLost'
<1> DEFINE t == handler[h]
           p == t.of
           next == profile[p].revision + 1
<1>1. /\ p \in Profiles /\ profile' = [profile EXCEPT ![p] = Updated(t)]
      /\ t.op \in {"edit", "prefer", "confirm"}
      /\ t.op = "confirm" => Updated(t).written = profile[p].written
      /\ t.op # "confirm" => t.field \in Fields /\ Operation(t.field) = t.op
  BY UpdateRow DEF EditInv, TypeInv, Sound, StoresRow
<1>2. /\ t.pc = "store" /\ t.revision = profile[p].revision
      /\ accepted' = IF t.op = "confirm" THEN accepted ELSE [accepted EXCEPT ![p][t.field] = next]
      /\ ahead' = IF t.op # "confirm" /\ t.readAt < t.revision THEN ahead \cup {p} ELSE ahead
  BY DEF StoresRow, Matches
<1>3. /\ profile \in [Profiles -> Row] /\ profile[p] \in Row /\ t \in Handler
      /\ accepted \in [Profiles -> [Fields -> Revisions]] /\ Current(t)
      /\ t.readAt \in Nat /\ t.revision \in Nat
  BY <1>1, Constants DEF EditInv, TypeInv, TypeOK, Handler
<1>4. \A q \in Profiles \ {p} : /\ profile'[q] = profile[q] /\ accepted'[q] = accepted[q]
                                /\ q \notin ahead' => q \notin ahead
  BY <1>1, <1>2, <1>3
<1>5. ASSUME p \notin ahead' PROVE profile'[p].written = accepted'[p]
  <2>1. profile'[p] = Updated(t) /\ profile[p].written = accepted[p]
    BY <1>1, <1>2, <1>3, <1>5 DEF EditInv, EditsAreNotLost
  <2>2. CASE t.op = "confirm"
    BY <1>1, <1>2, <2>1, <2>2
  <2>3. CASE t.op # "confirm"
    <3>1. t.readAt = profile[p].revision
      <4>1. t.readAt <= profile[p].revision
        BY <1>1, <1>2, <1>3, <2>3 DEF Current
      <4>2. ~(t.readAt < t.revision)
        BY <1>2, <1>5, <2>3
      <4> QED
        BY <1>2, <1>3, <4>1, <4>2
    <3>2. \A f \in Taken(t) : t.read[f] = accepted[p][f]
      BY <1>1, <1>2, <1>3, <2>1, <2>3, <3>1 DEF Current
    <3>3. accepted'[p] = [f \in Fields |-> IF f = t.field THEN next ELSE accepted[p][f]]
      BY <1>1, <1>2, <1>3, <2>3
    <3>4. CASE t.op = "edit"
      <4>1. Updated(t).written = [t.read EXCEPT ![t.field] = next]
        BY <1>3, <3>4 DEF Updated, Row
      <4>2. t.read \in [Fields -> Revisions] /\ \A f \in Fields : t.read[f] = accepted[p][f]
        BY <1>2, <1>3, <3>2, <3>4 DEF Taken, Handler
      <4> QED
        BY <2>1, <3>3, <4>1, <4>2
    <3>5. CASE t.op = "prefer"
      <4>1. Updated(t).written = [f \in Fields |-> CASE f = t.field -> next
                                                      [] f \in TermFields -> profile[p].written[f]
                                                      [] OTHER -> t.read[f]]
        BY <1>3, <3>5 DEF Updated, Row
      <4>2. \A f \in Fields : f \notin TermFields => t.read[f] = accepted[p][f]
        BY <3>2, <3>5 DEF Taken, Fields
      <4>3. ASSUME NEW f \in Fields PROVE Updated(t).written[f] = IF f = t.field THEN next ELSE accepted[p][f]
        <5>1. t.field \notin TermFields
          BY <1>1, <3>5 DEF Operation
        <5> QED
          BY <2>1, <4>1, <4>2, <5>1
      <4>4. Updated(t).written = [f \in Fields |-> Updated(t).written[f]]
        BY <4>1
      <4> HIDE DEF t, next
      <4> QED
        BY <2>1, <3>3, <4>3, <4>4
    <3> QED
      BY <1>1, <2>3, <3>4, <3>5
  <2> QED
    BY <2>2, <2>3
<1> QED
  BY <1>4, <1>5 DEF EditInv, EditsAreNotLost

(* However edits of other fields, settings and confirmations meet an       *)
(* accepted edit, it is still there, unless an edit was sent under a       *)
(* revision that did not exist yet (edit_terms, _update_preferences).      *)
THEOREM EditsAreNeverLost == Spec => []EditsAreNotLost
<1>1. Init => EditInv
  <2> SUFFICES ASSUME Init PROVE EditsAreNotLost /\ \A h \in Handlers : Current(handler[h])
    BY InitTypeInv DEF EditInv
  <2>1. \A p \in Profiles : profile[p].written = accepted[p]
    BY DEF Init, Absent
  <2>2. \A h \in Handlers : handler[h].pc = "idle"
    BY DEF Init, Idle
  <2> QED
    BY <2>1, <2>2 DEF EditsAreNotLost, Current
<1>2. EditInv /\ [Next]_vars => EditInv'
  <2> SUFFICES ASSUME EditInv, [Next]_vars
               PROVE  EditsAreNotLost' /\ (\A h \in Handlers : Current(handler[h]))'
    BY NextTypeInv DEF EditInv
  <2>0. /\ RowsTyped' /\ RowsGrow /\ profile \in [Profiles -> Row]
        /\ \A p \in Profiles : profile[p].revision \in Nat /\ profile[p] \in Row
        /\ handler \in [Handlers -> Handler] /\ accepted \in [Profiles -> [Fields -> Revisions]]
    BY RowsFollow, Constants DEF EditInv, TypeInv, TypeOK, Row
  <2>1. ASSUME NEW p \in Profiles, profile'[p].revision > profile[p].revision,
               \A q \in Profiles \ {p} : profile'[q] = profile[q],
               NEW g \in Handlers, handler'[g] = handler[g]
        PROVE  Current(handler[g])'
    <3>1. PICK t \in Handler : t = handler[g] /\ t = handler'[g]
      BY <2>0, <2>1
    <3>2. Current(t)'
      BY <2>0, <2>1, <3>1, LaterRow DEF EditInv, TypeInv
    <3> QED
      BY <3>1, <3>2 DEF Current, Taken
  <2>2. ASSUME NEW h \in Handlers, Done(h), NEW p \in Profiles,
               profile'[p].revision > profile[p].revision,
               \A q \in Profiles \ {p} : profile'[q] = profile[q]
        PROVE  (\A g \in Handlers : Current(handler[g]))'
    <3>1. handler'[h].pc = "reply" /\ \A g \in Handlers \ {h} : handler'[g] = handler[g]
      BY <2>0, <2>2 DEF Done, Idle
    <3>2. Current(handler[h])'
      BY <3>1 DEF Current
    <3>3. \A g \in Handlers \ {h} : Current(handler[g])'
      BY <2>1, <2>2, <3>1
    <3> QED
      BY <3>2, <3>3
  <2>3. ASSUME NEW h \in Handlers, CreatesDraft(h)
        PROVE  EditsAreNotLost' /\ (\A g \in Handlers : Current(handler[g]))'
    <3>1. PICK p \in Profiles, r \in Row :
            /\ ~Exists(p) /\ profile' = [profile EXCEPT ![p] = r]
            /\ accepted' = [accepted EXCEPT ![p] = [f \in Fields |-> 1]]
            /\ r.revision = 1 /\ r.written = [f \in Fields |-> 1]
      BY <2>3, CreationRow DEF EditInv
    <3>2. Done(h) /\ UNCHANGED ahead
      BY <2>3 DEF CreatesDraft
    <3>3. profile[p].revision = 0 /\ profile'[p] = r
          /\ \A q \in Profiles \ {p} : profile'[q] = profile[q] /\ accepted'[q] = accepted[q]
      BY <2>0, <3>1 DEF EditInv, TypeInv, TypeOK
    <3>4. EditsAreNotLost'
      BY <2>0, <3>1, <3>2, <3>3 DEF EditInv, EditsAreNotLost
    <3> QED
      BY <2>2, <3>1, <3>2, <3>3, <3>4
  <2>4. ASSUME NEW h \in Handlers, StoresRow(h)
        PROVE  EditsAreNotLost' /\ (\A g \in Handlers : Current(handler[g]))'
    <3>1. PICK p \in Profiles, r \in Row :
             profile' = [profile EXCEPT ![p] = r] /\ r.revision = profile[p].revision + 1
      BY <2>4, UpdateRow DEF EditInv
    <3>2. profile'[p].revision > profile[p].revision
          /\ \A q \in Profiles \ {p} : profile'[q] = profile[q]
      BY <2>0, <3>1
    <3>3. Done(h)
      BY <2>4 DEF StoresRow
    <3> QED
      BY <2>2, <2>4, <3>2, <3>3, StoredEdit
  <2>5. ASSUME NEW p \in Profiles, SwitchesSearch(p)
        PROVE  EditsAreNotLost' /\ (\A g \in Handlers : Current(handler[g]))'
    <3>1. /\ profile' = [profile EXCEPT ![p] = [profile[p] EXCEPT !.revision = @ + 1]]
          /\ UNCHANGED <<handler, accepted, ahead>>
      BY <2>5 DEF SwitchesSearch, history
    <3>2. /\ profile'[p].written = profile[p].written
          /\ profile'[p].revision = profile[p].revision + 1
          /\ \A q \in Profiles \ {p} : profile'[q] = profile[q]
      BY <2>0, <3>1 DEF Row
    <3>3. EditsAreNotLost'
      BY <3>1, <3>2 DEF EditInv, EditsAreNotLost
    <3>4. profile'[p].revision > profile[p].revision
      BY <2>0, <3>2
    <3> QED
      BY <2>1, <3>1, <3>2, <3>3, <3>4
  <2>6. CASE UNCHANGED <<profile, accepted, confirmedAs, ahead>>
    BY <2>6, ReadsAreCurrent DEF EditInv, EditsAreNotLost
  <2> QED
    BY <2>3, <2>4, <2>5, <2>6, RowSteps DEF EditInv
<1>3. EditInv => EditsAreNotLost
  BY DEF EditInv
<1> QED
  BY <1>1, <1>2, <1>3, PTL DEF Spec

-----------------------------------------------------------------------------
(* Analyses                                                                *)

(* What is in the cache stays, so that a handler may carry it along.       *)
FromCache(d, a) == cache[d] # "none" /\ a = cache[d]

AnalysisInv ==
    /\ TypeInv
    /\ \A p \in Profiles : profile[p].from \in Descriptions => FromCache(profile[p].from, profile[p].answer)
    /\ \A h \in Handlers : handler[h].pc = "create" /\ handler[h].text \in Descriptions
                           => FromCache(handler[h].text, handler[h].answer)

LEMMA CacheGrows ==
  ASSUME TypeInv, [Next]_vars, NEW d \in Descriptions, NEW a, FromCache(d, a)
  PROVE  FromCache(d, a)'
<1>1. UNCHANGED cache \/ \E h \in Handlers : SavesAnalysis(h)
  BY DEF Next, vars, rows, history, OpensPrompt, Restarts, TextArrives, CommandArrives, LooksUp, Asks,
         CreatesDraft, LoadsRow, ChecksDraft, LoadsForConfirmation, StoresRow,
         ConfirmedMeanwhile, SwitchesSearch, Replies, MeetsConflict, GivesUp
<1>2. ASSUME NEW h \in Handlers, SavesAnalysis(h) PROVE cache'[d] = cache[d]
  BY <1>2 DEF SavesAnalysis, FromCache, TypeInv, TypeOK
<1> QED
  BY <1>1, <1>2 DEF FromCache

(* The answers handlers bring to the draft.                                *)
LEMMA AnswersAreCached ==
  ASSUME AnalysisInv, [Next]_vars, NEW h \in Handlers,
         handler'[h].pc = "create", handler'[h].text \in Descriptions
  PROVE  FromCache(handler[h].text, handler[h].answer)'
<1>0. handler \in [Handlers -> Handler] /\ cache \in [Descriptions -> Answers \cup {"none"}]
  BY DEF AnalysisInv, TypeInv, TypeOK
<1>1. CASE handler'[h] = handler[h]
  <2>1. PICK s : s = handler[h] /\ s = handler'[h]
    BY <1>1
  <2>2. FromCache(s.text, s.answer) /\ s.text \in Descriptions
    BY <2>1 DEF AnalysisInv
  <2>3. PICK d, a : d \in Descriptions /\ d = s.text /\ a = s.answer
    BY <2>2
  <2>4. FromCache(d, a)'
    BY <2>2, <2>3, CacheGrows DEF AnalysisInv
  <2> QED
    BY <2>1, <2>3, <2>4 DEF FromCache
<1>2. CASE handler'[h] # handler[h]
  <2>1. ASSUME NEW t, handler' = [handler EXCEPT ![h] = t] PROVE handler'[h] = t
    BY <1>0, <2>1
  <2>2. ASSUME NEW g \in Handlers, NEW t, handler' = [handler EXCEPT ![g] = t] PROVE g = h
    BY <1>0, <1>2, <2>2
  <2>3. ASSUME NEW g \in Handlers, TextArrives(g) \/ CommandArrives(g) PROVE FALSE
    <3>1. PICK t \in Handler : /\ handler' = [handler EXCEPT ![g] = t]
                               /\ t.pc = "create" => t.text = "manual"
      BY <2>3, ArrivalTask DEF AnalysisInv
    <3> QED
      BY <2>1, <2>2, <3>1, Constants
  <2>4. ASSUME NEW g \in Handlers, Ends(g) \/ Done(g) PROVE FALSE
    <3>1. PICK t \in Handler : handler' = [handler EXCEPT ![g] = t] /\ t.pc \in {"idle", "reply"}
      BY <2>4, LastTask DEF AnalysisInv
    <3> QED
      BY <2>1, <2>2, <3>1
  <2>5. ASSUME NEW g \in Handlers, Asks(g) \/ LoadsRow(g) \/ ChecksDraft(g) \/ Goes(g, "store") PROVE FALSE
    <3>1. handler'[g].pc # "create" /\ g = h
      BY <1>0, <1>2, <2>5 DEF Asks, LoadsRow, ChecksDraft, Goes, Handler
    <3> QED
      BY <3>1
  <2>6. ASSUME NEW g \in Handlers, LooksUp(g) PROVE FromCache(handler[h].text, handler[h].answer)'
    <3> DEFINE s == handler[g]
               t == [s EXCEPT !.pc = IF cache[s.text] = "none" THEN "ask" ELSE "create",
                              !.answer = cache[s.text]]
    <3>1. handler' = [handler EXCEPT ![g] = t] /\ UNCHANGED cache /\ s \in Handler
      BY <1>0, <2>6 DEF LooksUp, rows
    <3>2. t.text = s.text /\ t.answer = cache[s.text] /\ (t.pc = "create" => cache[s.text] # "none")
      BY <3>1 DEF Handler
    <3>3. handler'[h] = t
      BY <2>1, <2>2, <3>1
    <3> HIDE DEF t
    <3> QED
      BY <3>1, <3>2, <3>3 DEF FromCache
  <2>7. ASSUME NEW g \in Handlers, SavesAnalysis(g) PROVE FromCache(handler[h].text, handler[h].answer)'
    <3> DEFINE s == handler[g]
               t == [s EXCEPT !.pc = "create", !.answer = Kept(s.text, s.answer)]
    <3>1. /\ handler' = [handler EXCEPT ![g] = t] /\ s \in Handler
          /\ cache' = [cache EXCEPT ![s.text] = IF @ = "none" THEN s.answer ELSE @]
          /\ s.text \in Descriptions /\ s.answer \in Answers
      BY <1>0, <2>7 DEF SavesAnalysis, AnalysisInv, TypeInv, Sound
    <3>2. t.text = s.text /\ t.answer = Kept(s.text, s.answer)
      BY <3>1 DEF Handler
    <3>3. handler'[h] = t
      BY <2>1, <2>2, <3>1
    <3> HIDE DEF t
    <3> QED
      BY <1>0, <3>1, <3>2, <3>3, Constants DEF FromCache, Kept
  <2>8. CASE Restarts
    BY <2>8 DEF Restarts, Idle
  <2>9. \/ Restarts
        \/ \E g \in Handlers :
             \/ TextArrives(g) \/ CommandArrives(g) \/ Ends(g) \/ Done(g)
             \/ Asks(g) \/ LoadsRow(g) \/ ChecksDraft(g) \/ Goes(g, "store")
             \/ LooksUp(g) \/ SavesAnalysis(g)
    BY <1>2 DEF Next, vars, OpensPrompt, SwitchesSearch, CreatesDraft, StoresRow, ConfirmedMeanwhile,
           Replies, MeetsConflict, GivesUp, LoadsForConfirmation
  <2> QED
    BY <2>3, <2>4, <2>5, <2>6, <2>7, <2>8, <2>9
<1> QED
  BY <1>1, <1>2

(* Two handlers may analyse one description at once and differently: every *)
(* draft has the terms of the analysis in the cache (create_from_description). *)
THEOREM DraftsKeepTheirAnalyses == Spec => []DraftKeepsItsAnalysis
<1>1. Init => AnalysisInv
  <2> SUFFICES ASSUME Init PROVE AnalysisInv
    OBVIOUS
  <2>1. \A p \in Profiles : profile[p].from = "none"
    BY DEF Init, Absent
  <2>2. \A h \in Handlers : handler[h].pc = "idle"
    BY DEF Init, Idle
  <2> QED
    BY <2>1, <2>2, InitTypeInv, Constants DEF AnalysisInv
<1>2. AnalysisInv /\ [Next]_vars => AnalysisInv'
  <2> SUFFICES ASSUME AnalysisInv, [Next]_vars, NEW p \in Profiles, profile'[p].from \in Descriptions
               PROVE  FromCache(profile[p].from, profile[p].answer)'
    BY AnswersAreCached, NextTypeInv DEF AnalysisInv
  <2>0. /\ profile \in [Profiles -> Row] /\ TypeInv
        /\ \A q \in Profiles : profile[q] \in Row
    BY DEF AnalysisInv, TypeInv, TypeOK
  <2>1. CASE profile'[p].from = profile[p].from /\ profile'[p].answer = profile[p].answer
    <3>1. PICK d, a : d \in Descriptions /\ d = profile[p].from /\ a = profile[p].answer
      BY <2>1
    <3>2. FromCache(d, a)'
      BY <2>1, <3>1, CacheGrows DEF AnalysisInv
    <3> QED
      BY <2>1, <3>1, <3>2 DEF FromCache
  <2>2. ASSUME NEW h \in Handlers, CreatesDraft(h)
        PROVE  FromCache(profile[p].from, profile[p].answer)'
    <3>1. PICK q \in Profiles, r \in Row :
             /\ profile' = [profile EXCEPT ![q] = r]
             /\ r.from = handler[h].text /\ r.answer = handler[h].answer
      BY <2>0, <2>2, CreationRow
    <3>2. CASE q = p
      <4>1. /\ profile'[p].from = handler[h].text /\ profile'[p].answer = handler[h].answer
            /\ handler[h].pc = "create" /\ UNCHANGED cache
        BY <2>0, <2>2, <3>1, <3>2 DEF CreatesDraft
      <4>2. FromCache(handler[h].text, handler[h].answer)
        BY <4>1 DEF AnalysisInv
      <4> QED
        BY <4>1, <4>2 DEF FromCache
    <3>3. CASE q # p
      BY <2>0, <2>1, <3>1, <3>3
    <3> QED
      BY <3>2, <3>3
  <2>3. ASSUME NEW h \in Handlers, StoresRow(h)
        PROVE  profile'[p].from = profile[p].from /\ profile'[p].answer = profile[p].answer
    <3>1. PICK q \in Profiles, r \in Row : /\ profile' = [profile EXCEPT ![q] = r]
                                           /\ r.from = profile[q].from /\ r.answer = profile[q].answer
      BY <2>0, <2>3, UpdateRow
    <3> QED
      BY <2>0, <3>1
  <2>4. ASSUME NEW q \in Profiles, SwitchesSearch(q)
        PROVE  profile'[p].from = profile[p].from /\ profile'[p].answer = profile[p].answer
    <3>1. profile' = [profile EXCEPT ![q] = [profile[q] EXCEPT !.revision = @ + 1]]
      BY <2>4 DEF SwitchesSearch
    <3> QED
      BY <2>0, <3>1 DEF Row
  <2> QED
    BY <2>0, <2>1, <2>2, <2>3, <2>4, RowSteps
<1>3. AnalysisInv => DraftKeepsItsAnalysis
  BY DEF AnalysisInv, FromCache, DraftKeepsItsAnalysis
<1> QED
  BY <1>1, <1>2, <1>3, PTL DEF Spec

-----------------------------------------------------------------------------
(* Prompts                                                                 *)

(* A text in progress was sent under the prompt the user has open, or the  *)
(* user has none open, or it is named as overlapped.                       *)
PromptInv ==
    /\ TypeInv /\ PromptStaysOpen
    /\ overlapped \/ asked = NoPrompt \/ \A h \in Handlers : handler[h].prompt \in {NoPrompt, asked}

(* A prompt is only closed after its own text, or unasked when a text sent *)
(* under an earlier prompt was in progress (navigation_text_input).        *)
THEOREM PromptAlwaysStaysOpen == Spec => []PromptStaysOpen
<1>1. Init => PromptInv
  BY InitTypeInv DEF Init, PromptInv, PromptStaysOpen
<1>2. PromptInv /\ [Next]_vars => PromptInv'
  <2> DEFINE Held == overlapped \/ asked = NoPrompt
                     \/ \A h \in Handlers : handler[h].prompt \in {NoPrompt, asked}
  <2> SUFFICES ASSUME PromptInv, [Next]_vars PROVE PromptStaysOpen' /\ Held'
    BY NextTypeInv DEF PromptInv
  <2>0. handler \in [Handlers -> Handler] /\ TypeInv
    BY DEF PromptInv, TypeInv, TypeOK
  <2>1. ASSUME NEW h \in Handlers, NEW t, handler' = [handler EXCEPT ![h] = t],
               t.prompt \in {NoPrompt, handler[h].prompt} \/ t.prompt = pending,
               UNCHANGED <<pending, asked, overlapped>>
        PROVE  PromptStaysOpen' /\ Held'
    <3>1. \A g \in Handlers : handler'[g] = IF g = h THEN t ELSE handler[g]
      BY <2>0, <2>1
    <3> QED
      BY <2>1, <3>1 DEF PromptInv, PromptStaysOpen
  <2>2. ASSUME NEW q, Opens(q), \A h \in Handlers : handler'[h].prompt \in {NoPrompt, handler[h].prompt}
        PROVE  PromptStaysOpen' /\ Held'
    BY <2>2 DEF Opens, PromptStaysOpen
  <2>3. ASSUME NEW h \in Handlers, ClosesPrompt(h), Ends(h) PROVE PromptStaysOpen' /\ Held'
    <3>1. CASE handler[h].prompt = NoPrompt
      <4>1. UNCHANGED <<pending, asked, overlapped>> /\ Idle.prompt = NoPrompt
        BY <2>3, <3>1 DEF ClosesPrompt, Idle
      <4> QED
        BY <2>1, <2>3, <4>1 DEF Ends
    <3>2. CASE handler[h].prompt # NoPrompt
      <4>1. asked' = NoPrompt /\ pending' = NoPrompt
        BY <2>3, <3>2 DEF ClosesPrompt, PromptInv
      <4> QED
        BY <4>1 DEF PromptStaysOpen
    <3> QED
      BY <3>1, <3>2
  <2>4. ASSUME NEW h \in Handlers, TextArrives(h) \/ CommandArrives(h) PROVE PromptStaysOpen' /\ Held'
    <3>1. PICK t \in Handler : handler' = [handler EXCEPT ![h] = t] /\ t.prompt \in {NoPrompt, pending}
      BY <2>0, <2>4, ArrivalTask
    <3>2. CASE UNCHANGED <<pending, asked, overlapped>>
      BY <2>1, <3>1, <3>2
    <3>3. CASE Closes
      BY <3>3 DEF Closes, Opens, PromptStaysOpen
    <3> QED
      BY <2>4, <3>2, <3>3 DEF TextArrives, CommandArrives, history
  <2>5. ASSUME NEW h \in Handlers, InnerStep(h) PROVE PromptStaysOpen' /\ Held'
    <3>1. PICK t \in Handler : handler' = [handler EXCEPT ![h] = t] /\ t.prompt = handler[h].prompt
      BY <2>0, <2>5, InnerTask
    <3>2. UNCHANGED <<pending, asked, overlapped>>
      BY <2>5 DEF InnerStep, LooksUp, Asks, SavesAnalysis, LoadsRow, ChecksDraft, LoadsForConfirmation,
                  history
    <3> QED
      BY <2>1, <3>1, <3>2
  <2>6. ASSUME NEW h \in Handlers,
               CreatesDraft(h) \/ StoresRow(h) \/ ConfirmedMeanwhile(h) \/ GivesUp(h)
        PROVE  PromptStaysOpen' /\ Held'
    <3>1. Ends(h) \/ Done(h)
      BY <2>6 DEF CreatesDraft, StoresRow, ConfirmedMeanwhile, GivesUp
    <3>2. PICK t \in Handler : /\ handler' = [handler EXCEPT ![h] = t]
                               /\ t.prompt \in {NoPrompt, handler[h].prompt}
      BY <2>0, <3>1, LastTask
    <3>3. UNCHANGED <<pending, asked, overlapped>>
      BY <2>6 DEF CreatesDraft, StoresRow, ConfirmedMeanwhile, GivesUp, LeavesPrompt, history
    <3> QED
      BY <2>1, <3>2, <3>3
  <2>7. ASSUME NEW h \in Handlers, Replies(h) \/ MeetsConflict(h) PROVE PromptStaysOpen' /\ Held'
    BY <2>3, <2>7 DEF Replies, MeetsConflict
  <2>8. CASE OpensPrompt
    <3>1. \A h \in Handlers : handler'[h].prompt = handler[h].prompt
      BY <2>8 DEF OpensPrompt
    <3>2. PICK q : Opens(q)
      BY <2>8 DEF OpensPrompt, Closes
    <3> QED
      BY <2>2, <3>1, <3>2
  <2>9. CASE Restarts
    BY <2>9 DEF Restarts, Closes, Opens, PromptStaysOpen
  <2>10. CASE UNCHANGED vars \/ \E p \in Profiles : SwitchesSearch(p)
    BY <2>10 DEF vars, SwitchesSearch, history, PromptInv, PromptStaysOpen
  <2> QED
    BY <2>4, <2>5, <2>6, <2>7, <2>8, <2>9, <2>10 DEF Next, InnerStep
<1>3. PromptInv => PromptStaysOpen
  BY DEF PromptInv
<1> QED
  BY <1>1, <1>2, <1>3, PTL DEF Spec

-----------------------------------------------------------------------------
(* Discovery: the constants and the invariant                              *)

LEMMA PlanFacts ==
  ASSUME NEW c \in Cycles
  PROVE  /\ Plan[c] \in Seq(Keys) /\ Len(Plan[c]) \in Nat \ {0}
         /\ Requested[c] \in Nat
<1>1. Plan[c] \in Seq(Keys) /\ Plan[c] # <<>> /\ Requested[c] \in Nat
  BY PlanAssumption
<1>2. Len(Plan[c]) \in Nat
  BY <1>1, LenProperties
<1>3. Len(Plan[c]) # 0
  BY <1>1, EmptySeq
<1> QED
  BY <1>1, <1>2, <1>3

LEMMA NoneFacts == None \notin Identities /\ None \notin Run /\ None \notin Source /\ None \notin Alias
BY NoneAssumption

-----------------------------------------------------------------------------
(* Who has a transaction open, and who has a run open.                     *)
Storing == {"look", "create", "check", "upsert", "complete"}
Active == {"discover"} \cup Storing

MadeSources == UNION {[S -> Seq(References)] : S \in SUBSET Identities}
MadeLinks == UNION {[S -> Identities] : S \in SUBSET References}
Transaction == [made : MadeSources, links : MadeLinks, results : SUBSET DiscoveryResults]
Cycle == [pc : {"start", "done", "aborted"} \cup Active, at : Nat, todo : Seq(Candidate),
          owner : Identities \cup {None}, refs : Seq(References), new : BOOLEAN,
          tx : Transaction, over : SUBSET Keys, known : SUBSET (Identities \cup References)]

RowTypes ==
    /\ runs \in [Keys -> {None} \cup Run]
    /\ sources \in [Identities -> {None} \cup Source]
    /\ aliases \in [References -> {None} \cup Alias]

CycleTypes == /\ cycle \in [Cycles -> Cycle]
              /\ \A c \in Cycles : cycle[c].at \in 1..Len(Plan[c])

(* What the statement a cycle has reached works on is there.               *)
AtWork(c) ==
    /\ cycle[c].pc \notin Storing => cycle[c].tx = NoRows
    /\ cycle[c].pc \in Storing \ {"complete"} => cycle[c].todo # <<>>
    /\ cycle[c].pc = "create" => cycle[c].refs = Head(cycle[c].todo).refs
    /\ cycle[c].pc \in {"check", "upsert"} => cycle[c].refs # <<>> /\ cycle[c].owner \in Identities
    /\ cycle[c].pc = "complete" /\ cycle[c].todo # <<>> => cycle[c].owner \in Identities

(* A cycle at work has the run of its key, which has no results yet.       *)
RunIsOpen(c) ==
    cycle[c].pc \in Active =>
        runs[Key(c)] # None /\ runs[Key(c)].status = "running" /\ runs[Key(c)].results = {}

(* The sources a transaction has made are the ones its results count.      *)
MadeAreCounted(c) ==
    LET results == IF cycle[c].pc \in {"check", "upsert", "complete"}
                   THEN RecordedResult(c) ELSE cycle[c].tx.results
    IN  \A i \in Identities :
            [source |-> i, created |-> TRUE] \in results <=> i \in DOMAIN cycle[c].tx.made

MadeAreNew(c) == \A i \in DOMAIN cycle[c].tx.made : sources[i] = None

(* With no other transaction beside it, what a cycle has looked up stands. *)
LookupsStand(c) ==
    cycle[c].over = {} =>
        /\ cycle[c].pc = "create" =>
             \A n \in DOMAIN cycle[c].refs : OwnerOf(c, cycle[c].refs[n]) = None
        /\ cycle[c].pc \in {"check", "upsert"} /\ cycle[c].new =>
             \A n \in DOMAIN cycle[c].refs : OwnerOf(c, cycle[c].refs[n]) \in {None, cycle[c].owner}

(* A reference that gets an owner has no other one in the table, or only   *)
(* one of a run that was stored at the same time.                          *)
Yields(c, r, owner) ==
    aliases[r] # None /\ aliases[r].source # owner => aliases[r].by \in cycle[c].over

OwnersYield(c) ==
    /\ \A r \in DOMAIN cycle[c].tx.links : Yields(c, r, cycle[c].tx.links[r])
    /\ cycle[c].pc = "upsert" =>
         LET r == Head(cycle[c].refs)
         IN  IF r \in DOMAIN cycle[c].tx.links THEN cycle[c].tx.links[r] = cycle[c].owner
             ELSE Yields(c, r, cycle[c].owner)

(* Two cycles at work have different runs; two open transactions know of   *)
(* each other and have made different sources.                             *)
Apart(c, d) ==
    /\ cycle[c].pc \in Active /\ cycle[d].pc \in Active => Key(c) # Key(d)
    /\ cycle[c].pc \in Storing /\ cycle[d].pc \in Storing => Key(d) \in cycle[c].over
    /\ DOMAIN cycle[c].tx.made \cap DOMAIN cycle[d].tx.made = {}

DiscoveryInv ==
    /\ RowTypes /\ CycleTypes
    /\ \A c \in Cycles : /\ AtWork(c) /\ RunIsOpen(c) /\ MadeAreCounted(c) /\ MadeAreNew(c)
                         /\ LookupsStand(c) /\ OwnersYield(c)
    /\ \A c, d \in Cycles : c # d => Apart(c, d)
    /\ EverySourceHasOneCreator

-----------------------------------------------------------------------------
(* Discovery: types                                                        *)

LEMMA NoRowsFacts ==
  /\ NoRows \in Transaction /\ DOMAIN NoRows.made = {} /\ DOMAIN NoRows.links = {}
  /\ NoRows.results = {}
<1>1. DOMAIN <<>> = {}
  OBVIOUS
<1>2. <<>> \in [{} -> Seq(References)] /\ <<>> \in [{} -> Identities]
  BY <1>1
<1>3. /\ <<>> \in UNION {[S -> Seq(References)] : S \in SUBSET Identities}
      /\ <<>> \in UNION {[S -> Identities] : S \in SUBSET References}
  <2>1. {} \in SUBSET Identities /\ {} \in SUBSET References
    OBVIOUS
  <2> QED
    BY <1>2, <2>1
<1>4. NoRows.made = <<>> /\ NoRows.links = <<>> /\ NoRows.results = {}
  BY DEF NoRows
<1>5. NoRows \in Transaction
  BY <1>3 DEF NoRows, Transaction, MadeSources, MadeLinks
<1> QED
  BY <1>1, <1>4, <1>5

LEMMA FreshFacts ==
  /\ Fresh \in Cycle /\ Fresh.tx = NoRows /\ Fresh.pc = "start" /\ Fresh.at = 1
<1>1. /\ <<>> \in Seq(Candidate) /\ <<>> \in Seq(References)
      /\ {} \in SUBSET Keys /\ {} \in SUBSET (Identities \cup References)
  OBVIOUS
<1>2. Fresh \in Cycle
  BY <1>1, NoRowsFacts DEF Fresh, Cycle
<1> QED
  BY <1>2 DEF Fresh

LEMMA MadeFacts ==
  ASSUME NEW f \in MadeSources, NEW x \in Identities, NEW v \in Seq(References)
  PROVE  /\ With(f, x, v) \in MadeSources
         /\ DOMAIN With(f, x, v) = DOMAIN f \cup {x}
         /\ With(f, x, v)[x] = v
         /\ \A y \in DOMAIN f : y # x => With(f, x, v)[y] = f[y]
<1>1. PICK S \in SUBSET Identities : f \in [S -> Seq(References)]
  BY DEF MadeSources
<1>2. /\ With(f, x, v) \in [S \cup {x} -> Seq(References)]
      /\ DOMAIN With(f, x, v) = DOMAIN f \cup {x}
      /\ With(f, x, v)[x] = v
      /\ \A y \in DOMAIN f : y # x => With(f, x, v)[y] = f[y]
  BY <1>1 DEF With
<1>3. S \cup {x} \in SUBSET Identities
  BY <1>1
<1>4. With(f, x, v) \in MadeSources
  BY <1>2, <1>3 DEF MadeSources
<1> QED
  BY <1>2, <1>4

LEMMA LinkFacts ==
  ASSUME NEW f \in MadeLinks, NEW x \in References, NEW v \in Identities
  PROVE  /\ With(f, x, v) \in MadeLinks
         /\ DOMAIN With(f, x, v) = DOMAIN f \cup {x}
         /\ With(f, x, v)[x] = v
         /\ \A y \in DOMAIN f : y # x => With(f, x, v)[y] = f[y]
<1>1. PICK S \in SUBSET References : f \in [S -> Identities]
  BY DEF MadeLinks
<1>2. /\ With(f, x, v) \in [S \cup {x} -> Identities]
      /\ DOMAIN With(f, x, v) = DOMAIN f \cup {x}
      /\ With(f, x, v)[x] = v
      /\ \A y \in DOMAIN f : y # x => With(f, x, v)[y] = f[y]
  BY <1>1 DEF With
<1>3. S \cup {x} \in SUBSET References
  BY <1>1
<1>4. With(f, x, v) \in MadeLinks
  BY <1>2, <1>3 DEF MadeLinks
<1> QED
  BY <1>2, <1>4

LEMMA CycleFacts ==
  ASSUME CycleTypes, NEW c \in Cycles
  PROVE  /\ cycle[c] \in Cycle /\ Key(c) \in Keys
         /\ cycle[c].pc \in {"start", "done", "aborted"} \cup Active
         /\ cycle[c].at \in 1..Len(Plan[c])
         /\ cycle[c].todo \in Seq(Candidate) /\ cycle[c].owner \in Identities \cup {None}
         /\ cycle[c].refs \in Seq(References) /\ cycle[c].new \in BOOLEAN
         /\ cycle[c].tx \in Transaction /\ cycle[c].over \subseteq Keys
         /\ cycle[c].tx.made \in MadeSources
         /\ cycle[c].tx.links \in MadeLinks
         /\ DOMAIN cycle[c].tx.made \subseteq Identities
         /\ DOMAIN cycle[c].tx.links \subseteq References
         /\ cycle[c].tx.results \subseteq DiscoveryResults
<1>1. cycle[c] \in Cycle /\ cycle[c].at \in 1..Len(Plan[c])
  BY DEF CycleTypes
<1>2. /\ cycle[c].pc \in {"start", "done", "aborted"} \cup Active
      /\ cycle[c].todo \in Seq(Candidate) /\ cycle[c].owner \in Identities \cup {None}
      /\ cycle[c].refs \in Seq(References) /\ cycle[c].new \in BOOLEAN
      /\ cycle[c].tx \in Transaction /\ cycle[c].over \subseteq Keys
  BY <1>1 DEF Cycle
<1>3. /\ cycle[c].tx.made \in MadeSources
      /\ cycle[c].tx.links \in MadeLinks
      /\ cycle[c].tx.results \subseteq DiscoveryResults
  BY <1>2 DEF Transaction
<1>4. DOMAIN cycle[c].tx.made \subseteq Identities
  <2>1. PICK S \in SUBSET Identities : cycle[c].tx.made \in [S -> Seq(References)]
    BY <1>3 DEF MadeSources
  <2> QED
    BY <2>1
<1>5. DOMAIN cycle[c].tx.links \subseteq References
  <2>1. PICK S \in SUBSET References : cycle[c].tx.links \in [S -> Identities]
    BY <1>3 DEF MadeLinks
  <2> QED
    BY <2>1
<1>6. Key(c) \in Keys
  BY <1>1, PlanFacts, ElementOfSeq DEF Key
<1> QED
  BY <1>1, <1>2, <1>3, <1>4, <1>5, <1>6

-----------------------------------------------------------------------------
(* Discovery: what a step leaves alone                                     *)

Stands(c) == AtWork(c) /\ RunIsOpen(c) /\ MadeAreCounted(c) /\ MadeAreNew(c)
             /\ LookupsStand(c) /\ OwnersYield(c)

LEMMA OtherStands ==
  ASSUME NEW d \in Cycles, Stands(d), cycle'[d] = cycle[d],
         sources' = sources, aliases' = aliases,
         cycle[d].pc \in Active => runs'[Key(d)] = runs[Key(d)]
  PROVE  Stands(d)'
<1>1. Key(d)' = Key(d)
  BY DEF Key
<1>2. AtWork(d)'
  BY DEF Stands, AtWork
<1>3. RunIsOpen(d)'
  BY <1>1 DEF Stands, RunIsOpen
<1>4. MadeAreCounted(d)'
  BY DEF Stands, MadeAreCounted, RecordedResult
<1>5. MadeAreNew(d)'
  BY DEF Stands, MadeAreNew
<1>6. LookupsStand(d)'
  BY DEF Stands, LookupsStand, OwnerOf
<1>7. OwnersYield(d)'
  BY DEF Stands, OwnersYield, Yields
<1> QED
  BY <1>2, <1>3, <1>4, <1>5, <1>6, <1>7 DEF Stands

LEMMA OthersStayApart ==
  ASSUME NEW d \in Cycles, NEW e \in Cycles, Apart(d, e),
         cycle'[d] = cycle[d], cycle'[e] = cycle[e]
  PROVE  Apart(d, e)'
BY DEF Apart, Key

LEMMA CreatorsStay ==
  ASSUME EverySourceHasOneCreator, sources' = sources,
         \A k \in Keys : \/ runs'[k] = runs[k]
                         \/ /\ runs[k] = None \/ runs[k].results = {}
                            /\ runs'[k] # None /\ runs'[k].results = {}
  PROVE  EverySourceHasOneCreator'
<1> SUFFICES ASSUME NEW i \in Identities
             PROVE  LET creators == {k \in Keys : runs'[k] # None
                                       /\ [source |-> i, created |-> TRUE] \in runs'[k].results}
                    IN  /\ sources'[i] # None => creators = {sources'[i].by}
                        /\ sources'[i] = None => creators = {}
                        /\ \A k \in creators : runs'[k].status = "completed"
  BY DEF EverySourceHasOneCreator
<1> DEFINE old == {k \in Keys : runs[k] # None /\ [source |-> i, created |-> TRUE] \in runs[k].results}
           new == {k \in Keys : runs'[k] # None /\ [source |-> i, created |-> TRUE] \in runs'[k].results}
<1>1. old = new
  OBVIOUS
<1>2. \A k \in new : runs'[k] = runs[k]
  OBVIOUS
<1>3. /\ sources[i] # None => old = {sources[i].by}
      /\ sources[i] = None => old = {}
      /\ \A k \in old : runs[k].status = "completed"
  BY DEF EverySourceHasOneCreator
<1> HIDE DEF old, new
<1>4. /\ sources'[i] # None => new = {sources'[i].by}
      /\ sources'[i] = None => new = {}
      /\ \A k \in new : runs'[k].status = "completed"
  BY <1>1, <1>2, <1>3
<1> QED
  BY <1>4 DEF new

LEMMA InvFacts ==
  ASSUME DiscoveryInv
  PROVE  /\ RowTypes /\ CycleTypes /\ EverySourceHasOneCreator
         /\ \A c \in Cycles : Stands(c)
         /\ \A c, d \in Cycles : c # d => Apart(c, d)
BY DEF DiscoveryInv, Stands

(* A statement of an open transaction that changes no table: what is left to show is about
   its own cycle. *)
LEMMA StatementKeeps ==
  ASSUME DiscoveryInv, NEW c \in Cycles, cycle[c].pc \in Storing,
         NEW new \in Cycle, new.pc \in Storing, new.at = cycle[c].at, new.over = cycle[c].over,
         cycle' = [cycle EXCEPT ![c] = new], UNCHANGED <<runs, sources, aliases>>,
         AtWork(c)', MadeAreCounted(c)', MadeAreNew(c)', LookupsStand(c)', OwnersYield(c)',
         \A d \in Cycles \ {c} : DOMAIN new.tx.made \cap DOMAIN cycle[d].tx.made = {}
  PROVE  DiscoveryInv'
<1>0. /\ RowTypes /\ CycleTypes /\ EverySourceHasOneCreator
      /\ \A d \in Cycles : Stands(d)
      /\ \A d, e \in Cycles : d # e => Apart(d, e)
  BY InvFacts
<1>1. /\ cycle' \in [Cycles -> Cycle] /\ cycle'[c] = new
      /\ \A d \in Cycles \ {c} : cycle'[d] = cycle[d]
  BY <1>0 DEF CycleTypes
<1>2. CycleTypes'
  <2>1. \A d \in Cycles : cycle'[d].at = cycle[d].at
    BY <1>1
  <2> QED
    BY <1>0, <1>1, <2>1 DEF CycleTypes
<1>3. RowTypes'
  BY <1>0 DEF RowTypes
<1>4. Key(c)' = Key(c)
  BY <1>1 DEF Key
<1>5. RunIsOpen(c)'
  BY <1>0, <1>1, <1>4 DEF Stands, RunIsOpen, Active
<1>6. \A d \in Cycles : Stands(d)'
  <2>1. Stands(c)'
    BY <1>5 DEF Stands
  <2>2. ASSUME NEW d \in Cycles, d # c PROVE Stands(d)'
    BY <1>0, <1>1, <2>2, OtherStands
  <2> QED
    BY <2>1, <2>2
<1>7. \A d, e \in Cycles : d # e => Apart(d, e)'
  <2>1. ASSUME NEW d \in Cycles \ {c} PROVE Apart(c, d)' /\ Apart(d, c)'
    <3>1. Apart(c, d) /\ Apart(d, c)
      BY <1>0
    <3>2. Key(d)' = Key(d) /\ cycle'[d] = cycle[d]
      BY <1>1 DEF Key
    <3>3. DOMAIN new.tx.made \cap DOMAIN cycle[d].tx.made = {}
      OBVIOUS
    <3> QED
      BY <1>1, <1>4, <3>1, <3>2, <3>3 DEF Apart, Active
  <2>2. ASSUME NEW d \in Cycles \ {c}, NEW e \in Cycles \ {c}, d # e PROVE Apart(d, e)'
    BY <1>0, <1>1, <2>2, OthersStayApart
  <2> QED
    BY <2>1, <2>2
<1>8. EverySourceHasOneCreator'
  BY <1>0, CreatorsStay
<1> QED
  BY <1>2, <1>3, <1>6, <1>7, <1>8 DEF DiscoveryInv, Stands

(* A cycle that leaves its run, with its transaction rolled back. *)
LEMMA LeavingKeeps ==
  ASSUME DiscoveryInv, NEW c \in Cycles, NEW new \in Cycle,
         new.pc \in {"start", "done", "aborted"}, new.tx = NoRows, new.at \in 1..Len(Plan[c]),
         cycle' = [cycle EXCEPT ![c] = new], UNCHANGED <<sources, aliases>>,
         \/ runs' = runs
         \/ cycle[c].pc \in Active /\ runs' = FailedRun(c)
  PROVE  DiscoveryInv'
<1>0. /\ RowTypes /\ CycleTypes /\ EverySourceHasOneCreator
      /\ \A d \in Cycles : Stands(d)
      /\ \A d, e \in Cycles : d # e => Apart(d, e)
  BY InvFacts
<1>1. /\ cycle' \in [Cycles -> Cycle] /\ cycle'[c] = new
      /\ \A d \in Cycles \ {c} : cycle'[d] = cycle[d]
  BY <1>0 DEF CycleTypes
<1>2. CycleTypes'
  BY <1>0, <1>1 DEF CycleTypes
<1>3. /\ runs' \in [Keys -> {None} \cup Run]
      /\ \A k \in Keys : \/ runs'[k] = runs[k]
                         \/ /\ k = Key(c) /\ cycle[c].pc \in Active
                            /\ runs[k].results = {} /\ runs'[k] # None /\ runs'[k].results = {}
  <2>1. CASE runs' = runs
    BY <1>0, <2>1 DEF RowTypes
  <2>2. CASE cycle[c].pc \in Active /\ runs' = FailedRun(c)
    <3>1. /\ runs[Key(c)] \in Run /\ runs[Key(c)].results = {} /\ Key(c) \in Keys
          /\ runs \in [Keys -> {None} \cup Run]
      BY <1>0, <2>2, CycleFacts DEF RowTypes, Stands, RunIsOpen
    <3>2. runs' = [runs EXCEPT ![Key(c)] = [runs[Key(c)] EXCEPT !.status = "failed"]]
      BY <2>2 DEF FailedRun
    <3>3. /\ [runs[Key(c)] EXCEPT !.status = "failed"] \in Run
          /\ [runs[Key(c)] EXCEPT !.status = "failed"].results = {}
      BY <3>1 DEF Run
    <3> QED
      BY <2>2, <3>1, <3>2, <3>3, NoneFacts
  <2> QED
    BY <2>1, <2>2
<1>4. RowTypes'
  BY <1>0, <1>3 DEF RowTypes
<1>5. \A d \in Cycles : Stands(d)'
  <2>1. Stands(c)'
    <3>1. new.pc \notin Active /\ new.pc \notin Storing
      BY DEF Active, Storing
    <3>2. /\ DOMAIN new.tx.made = {} /\ DOMAIN new.tx.links = {} /\ new.tx.results = {}
      BY NoRowsFacts
    <3>3. AtWork(c)' /\ RunIsOpen(c)' /\ LookupsStand(c)'
      BY <1>1, <3>1 DEF AtWork, RunIsOpen, LookupsStand, Storing
    <3>4. MadeAreCounted(c)' /\ MadeAreNew(c)' /\ OwnersYield(c)'
      BY <1>1, <3>2 DEF MadeAreCounted, MadeAreNew, OwnersYield
    <3> QED
      BY <3>3, <3>4 DEF Stands
  <2>2. ASSUME NEW d \in Cycles, d # c PROVE Stands(d)'
    <3>1. cycle[d].pc \in Active => runs'[Key(d)] = runs[Key(d)]
      <4>1. Apart(c, d) /\ Key(d) \in Keys
        BY <1>0, <2>2, CycleFacts
      <4> QED
        BY <1>3, <4>1 DEF Apart
    <3> QED
      BY <1>0, <1>1, <2>2, <3>1, OtherStands
  <2> QED
    BY <2>1, <2>2
<1>6. \A d, e \in Cycles : d # e => Apart(d, e)'
  <2>1. ASSUME NEW d \in Cycles \ {c} PROVE Apart(c, d)' /\ Apart(d, c)'
    BY <1>1, NoRowsFacts DEF Apart, Active, Storing
  <2>2. ASSUME NEW d \in Cycles \ {c}, NEW e \in Cycles \ {c}, d # e PROVE Apart(d, e)'
    BY <1>0, <1>1, <2>2, OthersStayApart
  <2> QED
    BY <2>1, <2>2
<1>7. EverySourceHasOneCreator'
  <2>1. \A k \in Keys : \/ runs'[k] = runs[k]
                        \/ /\ runs[k] = None \/ runs[k].results = {}
                           /\ runs'[k] # None /\ runs'[k].results = {}
    BY <1>3
  <2> QED
    BY <1>0, <2>1, CreatorsStay
<1> QED
  BY <1>2, <1>4, <1>5, <1>6, <1>7 DEF DiscoveryInv, Stands

(* Where a cycle stands after a run. *)
LEMMA AfterTheRun ==
  ASSUME CycleTypes, NEW c \in Cycles, NEW outcome
  PROVE  \E new \in Cycle :
           /\ NextKey(c, outcome) = [cycle EXCEPT ![c] = new]
           /\ new.pc \in {"start", "done", "aborted"} /\ new.tx = NoRows
           /\ new.at \in 1..Len(Plan[c])
<1>1. PICK n \in Nat \ {0} : n = Len(Plan[c])
  BY PlanFacts
<1>2. PICK old \in 1..n : old = cycle[c].at
  BY <1>1, CycleFacts
<1>3. PICK pc \in {"start", "done", "aborted"} :
        pc = IF outcome = "aborted" THEN "aborted" ELSE IF old = n THEN "done" ELSE "start"
  OBVIOUS
<1>4. PICK at \in 1..n : at = IF old = n THEN old ELSE old + 1
  BY <1>2
<1> DEFINE new == [Fresh EXCEPT !.pc = pc, !.at = at]
<1>5. NextKey(c, outcome) = [cycle EXCEPT ![c] = new]
  BY <1>1, <1>2, <1>3, <1>4 DEF NextKey
<1>6. Fresh \in Cycle /\ Fresh.tx = NoRows
  BY FreshFacts
<1>7. at \in Nat /\ pc \in {"start", "done", "aborted"} \cup Active
  BY <1>1
<1>8. new \in Cycle /\ new.pc = pc /\ new.at = at /\ new.tx = NoRows
  BY <1>6, <1>7 DEF Cycle
<1> HIDE DEF new
<1> QED
  BY <1>1, <1>5, <1>8

-----------------------------------------------------------------------------
(* Discovery: the steps                                                    *)

LEMMA FailsSafe ==
  ASSUME DiscoveryInv, NEW c \in Cycles, cycle[c].pc \in Active, NEW flood, Fails(c, flood)
  PROVE  DiscoveryInv'
<1>1. PICK outcome : cycle' = NextKey(c, outcome)
  BY DEF Fails
<1>2. CycleTypes
  BY InvFacts
<1>3. PICK new \in Cycle :
        /\ cycle' = [cycle EXCEPT ![c] = new]
        /\ new.pc \in {"start", "done", "aborted"} /\ new.tx = NoRows
        /\ new.at \in 1..Len(Plan[c])
  BY <1>1, <1>2, AfterTheRun
<1>4. runs' = FailedRun(c) /\ UNCHANGED <<sources, aliases>>
  BY DEF Fails
<1> QED
  BY <1>3, <1>4, LeavingKeeps

LEMMA DiesSafe ==
  ASSUME DiscoveryInv, NEW c \in Cycles, Dies(c)
  PROVE  DiscoveryInv'
<1>1. cycle' = NextKey(c, "aborted") /\ UNCHANGED <<runs, sources, aliases>>
  BY DEF Dies
<1>2. CycleTypes
  BY InvFacts
<1>3. PICK new \in Cycle :
        /\ cycle' = [cycle EXCEPT ![c] = new]
        /\ new.pc \in {"start", "done", "aborted"} /\ new.tx = NoRows
        /\ new.at \in 1..Len(Plan[c])
  BY <1>1, <1>2, AfterTheRun
<1> QED
  BY <1>1, <1>3, LeavingKeeps

LEMMA DeadlockSafe ==
  ASSUME DiscoveryInv, NEW c \in Cycles, DeadlockDetected(c)
  PROVE  DiscoveryInv'
<1>1. Holders(c) # {} /\ Fails(c, FALSE)
  BY DEF DeadlockDetected, InDeadlock
<1>2. cycle[c].pc \in Active
  BY <1>1 DEF Holders, Active, Storing
<1> QED
  BY <1>1, <1>2, FailsSafe

LEMMA StartSafe ==
  ASSUME DiscoveryInv, NEW c \in Cycles, Start(c)
  PROVE  DiscoveryInv'
<1>0. /\ RowTypes /\ CycleTypes /\ EverySourceHasOneCreator
      /\ \A d \in Cycles : Stands(d)
      /\ \A d, e \in Cycles : d # e => Apart(d, e)
  BY InvFacts
<1>1. cycle[c].pc = "start" /\ UNCHANGED <<sources, aliases>>
  BY DEF Start
<1>2. ASSUME NEW outcome, cycle' = NextKey(c, outcome), runs' = runs PROVE DiscoveryInv'
  <2>1. PICK new \in Cycle :
          /\ cycle' = [cycle EXCEPT ![c] = new]
          /\ new.pc \in {"start", "done", "aborted"} /\ new.tx = NoRows
          /\ new.at \in 1..Len(Plan[c])
    BY <1>0, <1>2, AfterTheRun
  <2> QED
    BY <1>1, <1>2, <2>1, LeavingKeeps
<1>3. ASSUME runs[Key(c)] = None, runs' = StartedRun(c),
             cycle' = [cycle EXCEPT ![c].pc = "discover", ![c].known = KnownIdentities]
      PROVE  DiscoveryInv'
  <2> DEFINE new == [cycle[c] EXCEPT !.pc = "discover", !.known = KnownIdentities]
             row == [status |-> "running", requested |-> Requested[c], results |-> {}]
  <2>1. KnownIdentities \subseteq Identities \cup References
    <3>1. \A i \in Identities : sources[i] # None => sources[i].refs \subseteq References
      BY <1>0 DEF RowTypes, Source
    <3> QED
      BY <3>1 DEF KnownIdentities
  <2>2. cycle[c] \in Cycle /\ Key(c) \in Keys /\ cycle \in [Cycles -> Cycle]
    BY <1>0, CycleFacts DEF CycleTypes
  <2>3. /\ new \in Cycle /\ new.pc = "discover" /\ new.at = cycle[c].at /\ new.tx = cycle[c].tx
    BY <2>1, <2>2 DEF Cycle, Active
  <2>4. cycle' = [cycle EXCEPT ![c] = new]
    BY <1>3
  <2> HIDE DEF new
  <2>5. /\ cycle' \in [Cycles -> Cycle] /\ cycle'[c] = new
        /\ \A d \in Cycles \ {c} : cycle'[d] = cycle[d]
    BY <2>2, <2>3, <2>4
  <2>6. row \in Run /\ row # None /\ row.status = "running" /\ row.results = {}
    <3>1. row \in Run
      BY PlanFacts DEF Run
    <3> QED
      BY <3>1, NoneFacts
  <2>7. runs' = [runs EXCEPT ![Key(c)] = row]
    BY <1>3 DEF StartedRun
  <2> HIDE DEF row
  <2>8. /\ runs' \in [Keys -> {None} \cup Run] /\ runs'[Key(c)] = row
        /\ \A k \in Keys : k # Key(c) => runs'[k] = runs[k]
    BY <1>0, <2>2, <2>6, <2>7 DEF RowTypes
  <2>9. RowTypes'
    BY <1>0, <1>1, <2>8 DEF RowTypes
  <2>10. CycleTypes'
    <3>1. \A d \in Cycles : cycle'[d].at = cycle[d].at
      BY <2>3, <2>5
    <3> QED
      BY <1>0, <2>5, <3>1 DEF CycleTypes
  <2>11. Key(c)' = Key(c)
    BY <2>3, <2>5 DEF Key
  <2>12. \A d \in Cycles : Stands(d)'
    <3>1. new.tx = NoRows
      BY <1>0, <1>1, <2>3 DEF Stands, AtWork, Storing
    <3>2. AtWork(c)' /\ LookupsStand(c)'
      BY <2>3, <2>5, <3>1 DEF AtWork, LookupsStand, Storing
    <3>3. RunIsOpen(c)'
      BY <2>6, <2>8, <2>11 DEF RunIsOpen
    <3>4. MadeAreCounted(c)' /\ MadeAreNew(c)' /\ OwnersYield(c)'
      BY <2>3, <2>5, <3>1, NoRowsFacts DEF MadeAreCounted, MadeAreNew, OwnersYield
    <3>5. ASSUME NEW d \in Cycles, d # c PROVE Stands(d)'
      <4>1. cycle[d].pc \in Active => Key(d) \in Keys /\ Key(d) # Key(c)
        BY <1>0, <1>3, CycleFacts DEF Stands, RunIsOpen
      <4>2. cycle[d].pc \in Active => runs'[Key(d)] = runs[Key(d)]
        BY <2>8, <4>1
      <4> QED
        BY <1>0, <1>1, <2>5, <3>5, <4>2, OtherStands
    <3> QED
      BY <3>2, <3>3, <3>4, <3>5 DEF Stands
  <2>13. \A d, e \in Cycles : d # e => Apart(d, e)'
    <3>1. ASSUME NEW d \in Cycles \ {c} PROVE Apart(c, d)' /\ Apart(d, c)'
      <4>1. cycle[d].pc \in Active => Key(d) # Key(c)
        BY <1>0, <1>3 DEF Stands, RunIsOpen
      <4>2. Key(d)' = Key(d) /\ cycle'[d] = cycle[d]
        BY <2>5 DEF Key
      <4>3. DOMAIN new.tx.made = {}
        BY <1>0, <1>1, <2>3, NoRowsFacts DEF Stands, AtWork, Storing
      <4> QED
        BY <2>3, <2>5, <2>11, <4>1, <4>2, <4>3 DEF Apart, Storing
    <3>2. ASSUME NEW d \in Cycles \ {c}, NEW e \in Cycles \ {c}, d # e PROVE Apart(d, e)'
      BY <1>0, <2>5, <3>2, OthersStayApart
    <3> QED
      BY <3>1, <3>2
  <2>14. EverySourceHasOneCreator'
    <3>1. \A k \in Keys : \/ runs'[k] = runs[k]
                          \/ /\ runs[k] = None \/ runs[k].results = {}
                             /\ runs'[k] # None /\ runs'[k].results = {}
      BY <1>3, <2>6, <2>8
    <3> QED
      BY <1>0, <1>1, <3>1, CreatorsStay
  <2> QED
    BY <2>9, <2>10, <2>12, <2>13, <2>14 DEF DiscoveryInv, Stands
<1> QED
  BY <1>2, <1>3 DEF Start

(* The second transaction begins: those that are open learn of it, and it of them. *)
LEMMA FindsSafe ==
  ASSUME DiscoveryInv, NEW c \in Cycles, cycle[c].pc = "discover",
         NEW batch \in Seq(Candidate), Finds(c, batch)
  PROVE  DiscoveryInv'
<1>0. /\ RowTypes /\ CycleTypes /\ EverySourceHasOneCreator
      /\ \A d \in Cycles : Stands(d)
      /\ \A d, e \in Cycles : d # e => Apart(d, e)
  BY InvFacts
<1> DEFINE beside == {d \in Cycles : InTransaction(d)}
           over == {Key(e) : e \in beside}
<1>1. PICK pc \in Storing : pc = IF batch = <<>> THEN "complete" ELSE "look"
  BY DEF Storing
<1>2. beside \subseteq Cycles /\ \A d \in Cycles : d \in beside <=> cycle[d].pc \in Storing
  BY DEF InTransaction, Storing
<1>3. c \notin beside /\ over \subseteq Keys /\ \A d \in beside : Key(d) \in over
  BY <1>0, <1>2, CycleFacts DEF Storing
<1>4. cycle' = [d \in Cycles |->
                  IF d = c THEN [cycle[c] EXCEPT !.pc = pc, !.todo = batch, !.over = over]
                  ELSE IF d \in beside THEN [cycle[d] EXCEPT !.over = cycle[d].over \cup {Key(c)}]
                  ELSE cycle[d]]
  BY <1>1 DEF Finds
<1>5. runs' = runs /\ sources' = sources /\ aliases' = aliases
  BY DEF Finds
<1> HIDE DEF beside, over
<1>6. /\ cycle'[c] = [cycle[c] EXCEPT !.pc = pc, !.todo = batch, !.over = over]
      /\ \A d \in beside : d # c => cycle'[d] = [cycle[d] EXCEPT !.over = cycle[d].over \cup {Key(c)}]
      /\ \A d \in Cycles : d # c /\ d \notin beside => cycle'[d] = cycle[d]
  BY <1>2, <1>4
<1>7. /\ cycle'[c] \in Cycle /\ cycle'[c].pc = pc /\ cycle'[c].todo = batch /\ cycle'[c].over = over
      /\ cycle'[c].at = cycle[c].at /\ cycle'[c].tx = cycle[c].tx
  <2>1. cycle[c] \in Cycle /\ pc \in {"start", "done", "aborted"} \cup Active
    BY <1>0, CycleFacts DEF Active
  <2> QED
    BY <1>3, <1>6, <2>1 DEF Cycle
<1>8. ASSUME NEW d \in beside
      PROVE  /\ cycle'[d] \in Cycle /\ cycle'[d].over = cycle[d].over \cup {Key(c)}
             /\ cycle'[d].pc = cycle[d].pc /\ cycle'[d].at = cycle[d].at /\ cycle'[d].tx = cycle[d].tx
             /\ cycle'[d].todo = cycle[d].todo /\ cycle'[d].owner = cycle[d].owner
             /\ cycle'[d].refs = cycle[d].refs /\ cycle'[d].new = cycle[d].new
  <2>1. d \in Cycles /\ d # c
    BY <1>3 DEF beside
  <2>2. PICK s \in Cycle : s = cycle[d]
    BY <1>0, <2>1, CycleFacts
  <2>3. PICK over1 \in SUBSET Keys : over1 = cycle[d].over \cup {Key(c)}
    BY <1>0, <2>2, CycleFacts DEF Cycle
  <2>4. cycle'[d] = [s EXCEPT !.over = over1]
    BY <1>6, <2>1, <2>2, <2>3
  <2>5. [s EXCEPT !.over = over1] \in Cycle
    BY DEF Cycle
  <2> QED
    BY <2>2, <2>3, <2>4, <2>5 DEF Cycle
<1>9. CycleTypes'
  <2>1. \A d \in Cycles : cycle'[d] \in Cycle /\ cycle'[d].at = cycle[d].at
    BY <1>0, <1>6, <1>7, <1>8, CycleFacts
  <2>2. cycle' \in [Cycles -> Cycle]
    BY <1>4, <2>1
  <2> QED
    BY <1>0, <2>1, <2>2 DEF CycleTypes
<1>10. RowTypes' /\ EverySourceHasOneCreator'
  BY <1>0, <1>5 DEF RowTypes, EverySourceHasOneCreator
<1>11. \A d \in Cycles : Key(d)' = Key(d)
  BY <1>6, <1>7, <1>8 DEF Key
<1>12. Stands(c)'
  <2>1. cycle[c].tx = NoRows
    BY <1>0 DEF Stands, AtWork, Storing
  <2>2. pc = "look" \/ (pc = "complete" /\ batch = <<>>)
    BY <1>1
  <2>3. AtWork(c)' /\ LookupsStand(c)'
    BY <1>1, <1>7, <2>2 DEF AtWork, LookupsStand, Storing
  <2>4. RunIsOpen(c)'
    BY <1>0, <1>5, <1>11 DEF Stands, RunIsOpen, Active
  <2>5. MadeAreNew(c)' /\ OwnersYield(c)'
    BY <1>7, <2>1, <2>2, NoRowsFacts DEF MadeAreNew, OwnersYield
  <2>6. MadeAreCounted(c)'
    BY <1>7, <2>1, <2>2, NoRowsFacts DEF MadeAreCounted, RecordedResult
  <2> QED
    BY <2>3, <2>4, <2>5, <2>6 DEF Stands
<1>13. ASSUME NEW d \in Cycles, d # c PROVE Stands(d)'
  <2>1. CASE d \notin beside
    BY <1>0, <1>5, <1>6, <1>13, <2>1, OtherStands
  <2>2. CASE d \in beside
    <3>1. Stands(d)
      BY <1>0
    <3>2. AtWork(d)'
      BY <1>8, <2>2, <3>1 DEF Stands, AtWork
    <3>3. RunIsOpen(d)'
      BY <1>5, <1>8, <1>11, <2>2, <3>1 DEF Stands, RunIsOpen
    <3>4. MadeAreCounted(d)'
      BY <1>8, <2>2, <3>1 DEF Stands, MadeAreCounted, RecordedResult
    <3>5. MadeAreNew(d)'
      BY <1>5, <1>8, <2>2, <3>1 DEF Stands, MadeAreNew
    <3>6. LookupsStand(d)'
      BY <1>8, <2>2 DEF LookupsStand
    <3>7. OwnersYield(d)'
      BY <1>5, <1>8, <2>2, <3>1 DEF Stands, OwnersYield, Yields
    <3> QED
      BY <3>2, <3>3, <3>4, <3>5, <3>6, <3>7 DEF Stands
  <2> QED
    BY <2>1, <2>2
<1>14. ASSUME NEW d \in Cycles, NEW e \in Cycles, d # e PROVE Apart(d, e)'
  <2>2. CASE d = c
    <3>1. Apart(c, e) /\ e # c
      BY <1>0, <1>14, <2>2
    <3>2. /\ cycle'[e].pc = cycle[e].pc /\ cycle'[e].tx = cycle[e].tx
      BY <1>6, <1>8, <3>1
    <3>3. cycle[e].pc \in Storing => Key(e) \in over
      BY <1>2, <1>3
    <3> QED
      BY <1>7, <1>11, <2>2, <3>1, <3>2, <3>3 DEF Apart, Active
  <2>3. CASE e = c
    <3>1. Apart(d, c) /\ d # c
      BY <1>0, <1>14, <2>3
    <3>2. /\ cycle'[d].pc = cycle[d].pc /\ cycle'[d].tx = cycle[d].tx
      BY <1>6, <1>8, <3>1
    <3>3. cycle[d].pc \in Storing => Key(c) \in cycle'[d].over
      BY <1>2, <1>8
    <3> QED
      BY <1>7, <1>11, <2>3, <3>1, <3>2, <3>3 DEF Apart, Active
  <2>4. CASE d # c /\ e # c
    <3>1. Apart(d, e)
      BY <1>0, <1>14
    <3>2. /\ cycle'[d].pc = cycle[d].pc /\ cycle'[d].tx = cycle[d].tx
          /\ cycle'[e].pc = cycle[e].pc /\ cycle'[e].tx = cycle[e].tx
          /\ cycle[d].over \subseteq cycle'[d].over
      BY <1>6, <1>8, <2>4
    <3> QED
      BY <1>11, <3>1, <3>2 DEF Apart
  <2> QED
    BY <2>2, <2>3, <2>4
<1> QED
  BY <1>9, <1>10, <1>12, <1>13, <1>14 DEF DiscoveryInv, Stands

LEMMA HeadsAndTails ==
  ASSUME NEW S, NEW s \in Seq(S), s # <<>>
  PROVE  /\ Head(s) \in S /\ Tail(s) \in Seq(S)
         /\ \A n \in DOMAIN Tail(s) : n + 1 \in DOMAIN s /\ Tail(s)[n] = s[n + 1]
         /\ 1 \in DOMAIN s /\ Head(s) = s[1] /\ Len(s) \in Nat /\ Len(s) > 0
         /\ Len(s) > 1 => Tail(s) # <<>>
<1>1. Len(s) \in Nat /\ Len(s) # 0 /\ DOMAIN s = 1..Len(s)
  BY EmptySeq, LenProperties
<1>2. /\ Head(s) \in S /\ Tail(s) \in Seq(S) /\ Len(Tail(s)) = Len(s) - 1
      /\ \A n \in 1..Len(Tail(s)) : Tail(s)[n] = s[n + 1]
  BY HeadTailProperties
<1>3. DOMAIN Tail(s) = 1..Len(Tail(s)) /\ Head(s) = s[1]
  BY <1>2, LenProperties
<1>4. Len(s) > 1 => Tail(s) # <<>>
  <2>1. Len(<<>>) = 0
    OBVIOUS
  <2>2. Len(s) > 1 => Len(Tail(s)) # 0
    BY <1>1, <1>2
  <2> QED
    BY <2>1, <2>2
<1>5. \A n \in DOMAIN Tail(s) : n + 1 \in DOMAIN s
  BY <1>1, <1>2, <1>3
<1> QED
  BY <1>1, <1>2, <1>3, <1>4, <1>5

LEMMA LeastElement ==
  ASSUME NEW S, S \subseteq Nat, S # {}
  PROVE  \E t \in S : \A u \in S : t <= u
<1>1. PICK t \in S : \A u \in S : ~(<<u, t>> \in OpToRel(<, Nat))
  BY WFMin, NatLessThanWellFounded
<1>2. \A u \in S : ~(u < t)
  BY <1>1 DEF OpToRel
<1> QED
  BY <1>2

LEMMA OwnerFacts ==
  ASSUME RowTypes, CycleTypes, NEW c \in Cycles, NEW r \in References
  PROVE  OwnerOf(c, r) \in Identities \cup {None}
<1>1. r \in DOMAIN cycle[c].tx.links => cycle[c].tx.links[r] \in Identities
  <2>1. PICK S \in SUBSET References : cycle[c].tx.links \in [S -> Identities]
    BY CycleFacts DEF MadeLinks
  <2> QED
    BY <2>1
<1>2. aliases[r] # None => aliases[r].source \in Identities
  BY DEF RowTypes, Alias
<1> QED
  BY <1>1, <1>2 DEF OwnerOf

(* What a lookup finds. *)
LEMMA ExistingFacts ==
  ASSUME RowTypes, CycleTypes, NEW c \in Cycles, NEW cand \in Candidate
  PROVE  /\ Existing(c, cand) \in Identities \cup {None}
         /\ Existing(c, cand) = None =>
              \A n \in DOMAIN cand.refs : OwnerOf(c, cand.refs[n]) = None
<1> DEFINE owned == {n \in DOMAIN cand.refs : OwnerOf(c, cand.refs[n]) # None}
           first == CHOOSE n \in owned : \A m \in owned : n <= m
<1>1. /\ cand.id \in Identities /\ cand.refs \in Seq(References)
      /\ \A n \in DOMAIN cand.refs : n \in Nat /\ cand.refs[n] \in References
  <2>1. cand.id \in Identities /\ cand.refs \in Seq(References)
    BY DEF Candidate
  <2> QED
    BY <2>1, LenProperties, ElementOfSeq
<1>2. owned # {} => first \in owned
  <2> SUFFICES ASSUME owned # {} PROVE first \in owned
    OBVIOUS
  <2>1. owned \subseteq Nat
    BY <1>1
  <2> HIDE DEF owned
  <2>2. \E n \in owned : \A m \in owned : n <= m
    BY <2>1, LeastElement
  <2> QED
    BY <2>2
<1>3. Existing(c, cand) = IF HasSource(c, cand.id) THEN cand.id
                          ELSE IF owned = {} THEN None ELSE OwnerOf(c, cand.refs[first])
  BY DEF Existing
<1>4. owned # {} => /\ OwnerOf(c, cand.refs[first]) # None
                    /\ OwnerOf(c, cand.refs[first]) \in Identities \cup {None}
  BY <1>1, <1>2, OwnerFacts
<1>5. owned = {} => \A n \in DOMAIN cand.refs : OwnerOf(c, cand.refs[n]) = None
  OBVIOUS
<1> HIDE DEF owned, first
<1> QED
  BY <1>1, <1>3, <1>4, <1>5, NoneFacts

LEMMA LookSafe ==
  ASSUME DiscoveryInv, NEW c \in Cycles, Look(c)
  PROVE  DiscoveryInv'
<1>0. /\ RowTypes /\ CycleTypes /\ Stands(c)
      /\ \A d, e \in Cycles : d # e => Apart(d, e)
  BY InvFacts
<1>1. /\ cycle[c].pc = "look" /\ cycle[c] \in Cycle /\ cycle[c].todo \in Seq(Candidate)
      /\ cycle[c].todo # <<>> /\ UNCHANGED <<runs, sources, aliases>>
  BY <1>0, CycleFacts DEF Look, Stands, AtWork, Storing
<1>2. PICK cand \in Candidate : cand = Head(cycle[c].todo)
  BY <1>1, HeadsAndTails
<1>3. PICK found \in Identities \cup {None} :
        /\ found = Existing(c, cand)
        /\ found = None => \A n \in DOMAIN cand.refs : OwnerOf(c, cand.refs[n]) = None
  BY <1>0, ExistingFacts
<1>4. PICK pc \in {"create", "complete", "check"} :
        pc = IF found = None THEN "create" ELSE IF cand.refs = <<>> THEN "complete" ELSE "check"
  OBVIOUS
<1>5. PICK s \in Cycle : s = cycle[c]
  BY <1>1
<1> DEFINE new == [s EXCEPT !.pc = pc, !.owner = found, !.refs = cand.refs, !.new = FALSE]
<1>6. cycle' = [cycle EXCEPT ![c] = new]
  BY <1>2, <1>3, <1>4, <1>5 DEF Look
<1>7. pc \in Storing /\ pc \in {"start", "done", "aborted"} \cup Active /\ cand.refs \in Seq(References)
  BY <1>4 DEF Storing, Active, Candidate
<1>8. /\ new \in Cycle /\ new.pc = pc /\ new.owner = found /\ new.refs = cand.refs
      /\ new.tx = s.tx /\ new.todo = s.todo /\ new.over = s.over /\ new.at = s.at
  BY <1>7 DEF Cycle
<1>9. new.new = FALSE
  BY DEF Cycle
<1> HIDE DEF new
<1>10. cycle'[c] = new
  BY <1>0, <1>6, <1>8 DEF CycleTypes
<1>11. AtWork(c)'
  BY <1>1, <1>2, <1>4, <1>5, <1>7, <1>8, <1>10, NoneFacts DEF AtWork
<1>12. MadeAreCounted(c)'
  <2>1. \A i \in Identities : [source |-> i, created |-> TRUE] \in s.tx.results
                              <=> i \in DOMAIN s.tx.made
    BY <1>0, <1>1, <1>5 DEF Stands, MadeAreCounted
  <2>2. \A i \in Identities : [source |-> i, created |-> TRUE] # [source |-> found, created |-> FALSE]
    OBVIOUS
  <2>3. RecordedResult(c)' = s.tx.results \cup {[source |-> found, created |-> FALSE]}
    BY <1>1, <1>5, <1>8, <1>9, <1>10 DEF RecordedResult
  <2> QED
    BY <1>4, <1>8, <1>10, <2>1, <2>2, <2>3 DEF MadeAreCounted
<1>13. MadeAreNew(c)'
  BY <1>0, <1>1, <1>5, <1>8, <1>10 DEF Stands, MadeAreNew
<1>14. LookupsStand(c)'
  <2>1. pc = "create" => \A n \in DOMAIN cand.refs : OwnerOf(c, cand.refs[n]) = None
    BY <1>3, <1>4
  <2>2. cycle'[c].new = FALSE
    BY <1>9, <1>10
  <2>3. /\ cycle'[c].pc = pc /\ cycle'[c].refs = cand.refs /\ aliases' = aliases
        /\ cycle'[c].tx = cycle[c].tx
    BY <1>1, <1>5, <1>8, <1>10
  <2>4. pc = "create" =>
          \A n \in DOMAIN cycle'[c].refs :
            (IF cycle'[c].refs[n] \in DOMAIN cycle'[c].tx.links THEN cycle'[c].tx.links[cycle'[c].refs[n]]
             ELSE IF aliases'[cycle'[c].refs[n]] = None THEN None
                  ELSE aliases'[cycle'[c].refs[n]].source) = None
    BY <2>1, <2>3 DEF OwnerOf
  <2> QED
    BY <2>2, <2>3, <2>4 DEF LookupsStand, OwnerOf
<1>15. OwnersYield(c)'
  BY <1>0, <1>1, <1>4, <1>5, <1>8, <1>10 DEF Stands, OwnersYield, Yields
<1>16. \A d \in Cycles \ {c} : DOMAIN new.tx.made \cap DOMAIN cycle[d].tx.made = {}
  BY <1>0, <1>5, <1>8 DEF Apart
<1>17. cycle[c].pc \in Storing /\ new.pc \in Storing /\ new.at = cycle[c].at /\ new.over = cycle[c].over
  BY <1>1, <1>5, <1>7, <1>8 DEF Storing
<1> QED
  BY <1>1, <1>6, <1>8, <1>11, <1>12, <1>13, <1>14, <1>15, <1>16, <1>17, StatementKeeps

LEMMA CreateSafe ==
  ASSUME DiscoveryInv, NEW c \in Cycles, Create(c)
  PROVE  DiscoveryInv'
<1>0. /\ RowTypes /\ CycleTypes /\ Stands(c) /\ \A d \in Cycles : Stands(d)
      /\ \A d, e \in Cycles : d # e => Apart(d, e)
  BY InvFacts
<1>1. /\ cycle[c].pc = "create" /\ cycle[c] \in Cycle /\ cycle[c].todo \in Seq(Candidate)
      /\ cycle[c].todo # <<>> /\ Holders(c) = {}
      /\ cycle[c].refs = Head(cycle[c].todo).refs
  BY <1>0, CycleFacts DEF Create, Stands, AtWork, Storing
<1>2. PICK cand \in Candidate : cand = Head(cycle[c].todo)
  BY <1>1, HeadsAndTails
<1>3. cand.id \in Identities /\ cand.refs \in Seq(References)
  BY DEF Candidate
<1>4. CASE sources[cand.id] = None /\ HandleTaken(c, cand)
  <2>1. Fails(c, FALSE)
    BY <1>2, <1>4 DEF Create
  <2> QED
    BY <1>1, <2>1, FailsSafe DEF Active, Storing
<1>5. CASE ~(sources[cand.id] = None /\ HandleTaken(c, cand))
  <2>1. PICK pc \in {"complete", "check"} : pc = IF cand.refs = <<>> THEN "complete" ELSE "check"
    OBVIOUS
  <2>2. PICK isNew \in BOOLEAN : isNew <=> sources[cand.id] = None
    OBVIOUS
  <2>3. PICK s \in Cycle : s = cycle[c]
    BY <1>1
  <2>4. PICK made : made = IF sources[cand.id] = None THEN With(s.tx.made, cand.id, cand.refs) ELSE s.tx.made
    OBVIOUS
  <2>5. /\ made \in MadeSources
        /\ DOMAIN made = IF sources[cand.id] = None THEN DOMAIN s.tx.made \cup {cand.id} ELSE DOMAIN s.tx.made
    <3>1. s.tx.made \in MadeSources
      BY <1>0, <2>3, CycleFacts
    <3>2. /\ With(s.tx.made, cand.id, cand.refs) \in MadeSources
          /\ DOMAIN With(s.tx.made, cand.id, cand.refs) = DOMAIN s.tx.made \cup {cand.id}
      <4>1. PICK f \in MadeSources, x \in Identities, v \in Seq(References) :
              f = s.tx.made /\ x = cand.id /\ v = cand.refs
        BY <1>3, <3>1
      <4>2. With(f, x, v) \in MadeSources /\ DOMAIN With(f, x, v) = DOMAIN f \cup {x}
        BY MadeFacts
      <4> QED
        BY <4>1, <4>2
    <3>3. CASE sources[cand.id] = None
      <4>1. made = With(s.tx.made, cand.id, cand.refs)
        BY <2>4, <3>3
      <4> QED
        BY <3>2, <3>3, <4>1
    <3>4. CASE sources[cand.id] # None
      <4>1. made = s.tx.made
        BY <2>4, <3>4
      <4> QED
        BY <3>1, <3>4, <4>1
    <3> QED
      BY <3>3, <3>4
  <2> DEFINE tx == [s.tx EXCEPT !.made = made]
             new == [s EXCEPT !.pc = pc, !.owner = cand.id, !.new = (sources[cand.id] = None), !.tx = tx]
  <2>6. /\ cycle' = [cycle EXCEPT ![c].pc = IF cand.refs = <<>> THEN "complete" ELSE "check",
                                  ![c].owner = cand.id,
                                  ![c].new = (sources[cand.id] = None),
                                  ![c].tx.made = IF sources[cand.id] = None
                                                 THEN With(cycle[c].tx.made, cand.id, cand.refs)
                                                 ELSE cycle[c].tx.made]
        /\ UNCHANGED <<runs, sources, aliases>>
    BY <1>2, <1>5 DEF Create
  <2>7. cycle' = [cycle EXCEPT ![c] = new]
    <3>1. PICK b : b = (sources[cand.id] = None)
      OBVIOUS
    <3>2. cycle' = [cycle EXCEPT ![c].pc = pc, ![c].owner = cand.id, ![c].new = b, ![c].tx.made = made]
      BY <2>1, <2>3, <2>4, <2>6, <3>1
    <3>3. cycle' = [cycle EXCEPT ![c] = [s EXCEPT !.pc = pc, !.owner = cand.id, !.new = b,
                                                  !.tx = [s.tx EXCEPT !.made = made]]]
      BY <2>3, <3>2
    <3> QED
      BY <3>1, <3>3
  <2>8. /\ tx \in Transaction /\ tx.made = made /\ tx.links = s.tx.links /\ tx.results = s.tx.results
    BY <2>5 DEF Transaction, Cycle
  <2> HIDE DEF tx
  <2>9. /\ new \in Cycle /\ new.pc = pc /\ new.owner = cand.id /\ new.refs = s.refs
        /\ new.tx = tx /\ new.todo = s.todo /\ new.over = s.over /\ new.at = s.at
    BY <1>3, <2>8 DEF Cycle, Active, Storing
  <2>10. new.new <=> sources[cand.id] = None
    BY DEF Cycle
  <2> HIDE DEF new
  <2>11. cycle'[c] = new
    BY <1>0, <2>7, <2>9 DEF CycleTypes
  <2>12. AtWork(c)'
    <3>1. pc = "check" => s.refs # <<>>
      BY <1>1, <1>2, <2>1, <2>3
    <3>2. cycle'[c].pc \in {"complete", "check"} /\ cycle'[c].pc \in Storing
      BY <2>9, <2>11 DEF Storing
    <3> QED
      BY <1>1, <1>3, <2>3, <2>9, <2>11, <3>1, <3>2 DEF AtWork
  <2>13. MadeAreCounted(c)'
    <3>1. \A i \in Identities : [source |-> i, created |-> TRUE] \in s.tx.results
                                <=> i \in DOMAIN s.tx.made
      BY <1>0, <1>1, <2>3 DEF Stands, MadeAreCounted
    <3>2. RecordedResult(c)' = s.tx.results \cup {[source |-> cand.id, created |-> new.new]}
      BY <1>1, <2>3, <2>8, <2>9, <2>11 DEF RecordedResult
    <3>3. \A i \in Identities : [source |-> i, created |-> TRUE] \in RecordedResult(c)'
                                <=> i \in DOMAIN made
      <4>1. CASE sources[cand.id] = None
        <5>1. new.new = TRUE
          BY <2>10, <4>1 DEF new
        <5>2. \A i \in Identities : [source |-> i, created |-> TRUE] = [source |-> cand.id, created |-> TRUE]
                                    <=> i = cand.id
          OBVIOUS
        <5> QED
          BY <2>5, <3>1, <3>2, <4>1, <5>1, <5>2
      <4>2. CASE sources[cand.id] # None
        <5>1. new.new = FALSE
          BY <2>10, <4>2 DEF new
        <5>2. \A i \in Identities : [source |-> i, created |-> TRUE] # [source |-> cand.id, created |-> FALSE]
          OBVIOUS
        <5> QED
          BY <2>5, <3>1, <3>2, <4>2, <5>1, <5>2
      <4> QED
        BY <4>1, <4>2
    <3>4. cycle'[c].pc \in {"check", "upsert", "complete"} /\ cycle'[c].tx.made = made
      BY <2>8, <2>9, <2>11
    <3> QED
      BY <3>3, <3>4 DEF MadeAreCounted
  <2>14. MadeAreNew(c)'
    <3>1. \A i \in DOMAIN s.tx.made : sources[i] = None
      BY <1>0, <2>3 DEF Stands, MadeAreNew
    <3> QED
      BY <2>5, <2>6, <2>8, <2>9, <2>11, <3>1 DEF MadeAreNew
  <2>15. LookupsStand(c)'
    <3>1. s.over = {} => \A n \in DOMAIN s.refs : OwnerOf(c, s.refs[n]) = None
      BY <1>0, <1>1, <2>3 DEF Stands, LookupsStand
    <3>2. /\ cycle'[c].refs = s.refs /\ aliases' = aliases /\ cycle'[c].over = s.over
          /\ cycle'[c].tx.links = cycle[c].tx.links /\ cycle'[c].pc # "create"
      BY <2>1, <2>3, <2>6, <2>8, <2>9, <2>11
    <3>3. s.over = {} =>
            \A n \in DOMAIN cycle'[c].refs :
              (IF cycle'[c].refs[n] \in DOMAIN cycle'[c].tx.links THEN cycle'[c].tx.links[cycle'[c].refs[n]]
               ELSE IF aliases'[cycle'[c].refs[n]] = None THEN None
                    ELSE aliases'[cycle'[c].refs[n]].source) = None
      BY <3>1, <3>2 DEF OwnerOf
    <3> QED
      BY <3>2, <3>3 DEF LookupsStand, OwnerOf
  <2>16. OwnersYield(c)'
    <3>1. \A q \in DOMAIN s.tx.links : Yields(c, q, s.tx.links[q])
      BY <1>0, <2>3 DEF Stands, OwnersYield
    <3>2. /\ cycle'[c].tx.links = s.tx.links /\ cycle'[c].over = cycle[c].over /\ aliases' = aliases
          /\ cycle'[c].pc # "upsert"
      BY <2>1, <2>3, <2>6, <2>8, <2>9, <2>11
    <3> QED
      BY <3>1, <3>2 DEF OwnersYield, Yields
  <2>17. \A d \in Cycles \ {c} : DOMAIN new.tx.made \cap DOMAIN cycle[d].tx.made = {}
    <3> SUFFICES ASSUME NEW d \in Cycles \ {c} PROVE DOMAIN made \cap DOMAIN cycle[d].tx.made = {}
      BY <2>8, <2>9
    <3>1. DOMAIN s.tx.made \cap DOMAIN cycle[d].tx.made = {}
      BY <1>0, <2>3 DEF Apart
    <3>2. cand.id \notin DOMAIN cycle[d].tx.made
      <4>1. CASE InTransaction(d)
        BY <1>1, <1>2, <4>1 DEF Holders
      <4>2. CASE ~InTransaction(d)
        <5>1. cycle[d].tx = NoRows
          BY <1>0, <4>2 DEF Stands, AtWork, InTransaction, Storing
        <5> QED
          BY <5>1, NoRowsFacts
      <4> QED
        BY <4>1, <4>2
    <3> QED
      BY <2>5, <3>1, <3>2
  <2>18. cycle[c].pc \in Storing /\ new.pc \in Storing /\ new.at = cycle[c].at /\ new.over = cycle[c].over
    BY <1>1, <2>3, <2>9 DEF Storing
  <2> QED
    BY <2>6, <2>7, <2>9, <2>12, <2>13, <2>14, <2>15, <2>16, <2>17, <2>18, StatementKeeps
<1> QED
  BY <1>4, <1>5

LEMMA CheckSafe ==
  ASSUME DiscoveryInv, NEW c \in Cycles, CheckOwner(c)
  PROVE  DiscoveryInv'
<1>0. /\ RowTypes /\ CycleTypes /\ Stands(c)
      /\ \A d, e \in Cycles : d # e => Apart(d, e)
  BY InvFacts
<1>1. /\ cycle[c].pc = "check" /\ cycle[c] \in Cycle /\ cycle[c].refs \in Seq(References)
      /\ cycle[c].refs # <<>> /\ cycle[c].owner \in Identities /\ cycle[c].todo # <<>>
  BY <1>0, CycleFacts DEF CheckOwner, Stands, AtWork, Storing
<1>2. PICK r \in References : r = Head(cycle[c].refs)
  BY <1>1, HeadsAndTails
<1>3. CASE OwnerOf(c, r) \notin {None, cycle[c].owner}
  <2>1. Fails(c, FALSE)
    BY <1>2, <1>3 DEF CheckOwner
  <2> QED
    BY <1>1, <2>1, FailsSafe DEF Active, Storing
<1>4. CASE OwnerOf(c, r) \in {None, cycle[c].owner}
  <2>1. PICK s \in Cycle : s = cycle[c]
    BY <1>1
  <2> DEFINE new == [s EXCEPT !.pc = "upsert"]
  <2>2. cycle' = [cycle EXCEPT ![c] = new] /\ UNCHANGED <<runs, sources, aliases>>
    BY <1>2, <1>4, <2>1 DEF CheckOwner, Proceeds
  <2>3. /\ new \in Cycle /\ new.pc = "upsert" /\ new.owner = s.owner /\ new.refs = s.refs
        /\ new.tx = s.tx /\ new.todo = s.todo /\ new.over = s.over /\ new.at = s.at
    BY DEF Cycle, Active, Storing
  <2>4. new.new = s.new
    BY DEF Cycle
  <2> HIDE DEF new
  <2>5. cycle'[c] = new
    BY <1>0, <2>2, <2>3 DEF CycleTypes
  <2>6. AtWork(c)'
    BY <1>1, <2>1, <2>3, <2>5 DEF AtWork, Storing
  <2>7. MadeAreCounted(c)'
    <3>1. RecordedResult(c)' = RecordedResult(c)
      BY <2>1, <2>3, <2>4, <2>5 DEF RecordedResult
    <3> QED
      BY <1>0, <1>1, <2>1, <2>3, <2>5, <3>1 DEF Stands, MadeAreCounted
  <2>8. MadeAreNew(c)'
    BY <1>0, <2>1, <2>2, <2>3, <2>5 DEF Stands, MadeAreNew
  <2>9. LookupsStand(c)'
    <3>1. /\ cycle'[c].refs = cycle[c].refs /\ aliases' = aliases /\ cycle'[c].over = cycle[c].over
          /\ cycle'[c].tx = cycle[c].tx /\ cycle'[c].pc = "upsert" /\ cycle'[c].owner = cycle[c].owner
      BY <2>1, <2>2, <2>3, <2>5
    <3>2. cycle'[c].new = cycle[c].new
      BY <2>1, <2>4, <2>5
    <3> QED
      BY <1>0, <1>1, <3>1, <3>2 DEF Stands, LookupsStand, OwnerOf
  <2>10. OwnersYield(c)'
    <3>1. r \in DOMAIN s.tx.links => s.tx.links[r] \in Identities
      <4>1. PICK S \in SUBSET References : cycle[c].tx.links \in [S -> Identities]
        BY <1>0, CycleFacts DEF MadeLinks
      <4> QED
        BY <2>1, <4>1
    <3>2. IF r \in DOMAIN s.tx.links THEN s.tx.links[r] = s.owner ELSE Yields(c, r, s.owner)
      <4>1. aliases[r] # None => aliases[r].source \in Identities
        BY <1>0 DEF RowTypes, Alias
      <4> QED
        BY <1>4, <2>1, <3>1, <4>1, NoneFacts DEF OwnerOf, Yields
    <3>3. \A q \in DOMAIN s.tx.links : Yields(c, q, s.tx.links[q])
      BY <1>0, <2>1 DEF Stands, OwnersYield
    <3>4. /\ cycle'[c].tx = s.tx /\ cycle'[c].owner = s.owner /\ Head(cycle'[c].refs) = r
          /\ cycle'[c].over = cycle[c].over /\ aliases' = aliases
      BY <1>2, <2>1, <2>2, <2>3, <2>5
    <3> QED
      BY <3>2, <3>3, <3>4 DEF OwnersYield, Yields
  <2>11. \A d \in Cycles \ {c} : DOMAIN new.tx.made \cap DOMAIN cycle[d].tx.made = {}
    BY <1>0, <2>1, <2>3 DEF Apart
  <2>12. cycle[c].pc \in Storing /\ new.pc \in Storing /\ new.at = cycle[c].at /\ new.over = cycle[c].over
    BY <1>1, <2>1, <2>3 DEF Storing
  <2> QED
    BY <2>2, <2>3, <2>6, <2>7, <2>8, <2>9, <2>10, <2>11, <2>12, StatementKeeps
<1> QED
  BY <1>3, <1>4

LEMMA UpsertSafe ==
  ASSUME DiscoveryInv, NEW c \in Cycles, Upsert(c)
  PROVE  DiscoveryInv'
<1>0. /\ RowTypes /\ CycleTypes /\ Stands(c)
      /\ \A d, e \in Cycles : d # e => Apart(d, e)
  BY InvFacts
<1>1. /\ cycle[c].pc = "upsert" /\ cycle[c] \in Cycle /\ cycle[c].refs \in Seq(References)
      /\ cycle[c].refs # <<>> /\ cycle[c].owner \in Identities /\ cycle[c].todo # <<>>
      /\ cycle[c].tx.links \in MadeLinks
  BY <1>0, CycleFacts DEF Upsert, Stands, AtWork, Storing
<1>2. PICK s \in Cycle : s = cycle[c]
  BY <1>1
<1>3. PICK r \in References, rest \in Seq(References) :
        /\ r = Head(s.refs) /\ rest = Tail(s.refs)
        /\ \A n \in DOMAIN rest : n + 1 \in DOMAIN s.refs /\ rest[n] = s.refs[n + 1]
  <2>1. PICK refs \in Seq(References) : refs = s.refs /\ refs # <<>>
    BY <1>1, <1>2
  <2>2. /\ Head(refs) \in References /\ Tail(refs) \in Seq(References)
        /\ \A n \in DOMAIN Tail(refs) : n + 1 \in DOMAIN refs /\ Tail(refs)[n] = refs[n + 1]
    BY <2>1, HeadsAndTails
  <2> QED
    BY <2>1, <2>2
<1>4. PICK owner \in Identities : owner = s.owner
  BY <1>1, <1>2
<1>5. PICK pc \in {"complete", "check"} : pc = IF rest = <<>> THEN "complete" ELSE "check"
  OBVIOUS
<1>6. PICK links \in MadeLinks :
        /\ links = With(s.tx.links, r, owner) /\ DOMAIN links = DOMAIN s.tx.links \cup {r}
        /\ links[r] = owner /\ \A q \in DOMAIN s.tx.links : q # r => links[q] = s.tx.links[q]
  <2>1. PICK f \in MadeLinks : f = s.tx.links
    BY <1>1, <1>2
  <2>2. /\ With(f, r, owner) \in MadeLinks /\ DOMAIN With(f, r, owner) = DOMAIN f \cup {r}
        /\ With(f, r, owner)[r] = owner
        /\ \A q \in DOMAIN f : q # r => With(f, r, owner)[q] = f[q]
    BY LinkFacts
  <2> QED
    BY <2>1, <2>2
<1> DEFINE tx == [s.tx EXCEPT !.links = links]
           new == [s EXCEPT !.pc = pc, !.refs = rest, !.tx = tx]
<1>7. cycle' = [cycle EXCEPT ![c] = new] /\ UNCHANGED <<runs, sources, aliases>>
  <2>1. /\ cycle' = [cycle EXCEPT ![c].pc = pc, ![c].refs = rest, ![c].tx.links = links]
        /\ UNCHANGED <<runs, sources, aliases>>
    BY <1>2, <1>3, <1>4, <1>5, <1>6 DEF Upsert
  <2> QED
    BY <1>2, <2>1
<1>8. tx \in Transaction /\ tx.made = s.tx.made /\ tx.links = links /\ tx.results = s.tx.results
  BY DEF Transaction, Cycle
<1> HIDE DEF tx
<1>9. /\ new \in Cycle /\ new.pc = pc /\ new.owner = s.owner /\ new.refs = rest
      /\ new.tx = tx /\ new.todo = s.todo /\ new.over = s.over /\ new.at = s.at
  BY <1>8 DEF Cycle, Active, Storing
<1>10. new.new = s.new
  BY DEF Cycle
<1> HIDE DEF new
<1>11. cycle'[c] = new
  BY <1>0, <1>7, <1>9 DEF CycleTypes
<1>12. AtWork(c)'
  <2>1. pc = "check" => rest # <<>>
    BY <1>5
  <2>2. cycle'[c].pc \in {"complete", "check"} /\ cycle'[c].pc \in Storing
    BY <1>9, <1>11 DEF Storing
  <2>3. cycle'[c].owner \in Identities /\ cycle'[c].todo # <<>> /\ cycle'[c].refs = rest
        /\ cycle'[c].pc = pc
    BY <1>1, <1>2, <1>9, <1>11
  <2> QED
    BY <2>1, <2>2, <2>3 DEF AtWork
<1>13. MadeAreCounted(c)'
  <2>1. RecordedResult(c)' = RecordedResult(c)
    BY <1>2, <1>8, <1>9, <1>10, <1>11 DEF RecordedResult
  <2>2. \A i \in Identities : [source |-> i, created |-> TRUE] \in RecordedResult(c)
                              <=> i \in DOMAIN cycle[c].tx.made
    BY <1>0, <1>1 DEF Stands, MadeAreCounted
  <2>3. cycle'[c].pc \in {"check", "upsert", "complete"} /\ cycle'[c].tx.made = cycle[c].tx.made
    BY <1>2, <1>8, <1>9, <1>11
  <2> QED
    BY <2>1, <2>2, <2>3 DEF MadeAreCounted
<1>14. MadeAreNew(c)'
  BY <1>0, <1>2, <1>7, <1>8, <1>9, <1>11 DEF Stands, MadeAreNew
<1>15. LookupsStand(c)'
  <2> SUFFICES ASSUME cycle'[c].over = {}, cycle'[c].pc = "check", cycle'[c].new,
                      NEW n \in DOMAIN cycle'[c].refs
               PROVE  (IF cycle'[c].refs[n] \in DOMAIN cycle'[c].tx.links
                       THEN cycle'[c].tx.links[cycle'[c].refs[n]]
                       ELSE IF aliases'[cycle'[c].refs[n]] = None THEN None
                            ELSE aliases'[cycle'[c].refs[n]].source) \in {None, cycle'[c].owner}
    BY <1>9, <1>11 DEF LookupsStand, OwnerOf
  <2>1. cycle'[c].new = cycle[c].new
    BY <1>2, <1>10, <1>11
  <2>2. /\ cycle[c].over = {} /\ cycle'[c].refs = rest /\ cycle'[c].tx.links = links
        /\ cycle'[c].owner = owner /\ aliases' = aliases
    BY <1>2, <1>4, <1>7, <1>8, <1>9, <1>11
  <2>3. \A m \in DOMAIN s.refs : OwnerOf(c, s.refs[m]) \in {None, owner}
    BY <1>0, <1>1, <1>2, <1>4, <2>1, <2>2 DEF Stands, LookupsStand
  <2>4. PICK q : q = rest[n] /\ OwnerOf(c, q) \in {None, owner}
    BY <1>3, <2>2, <2>3
  <2>5. (IF q \in DOMAIN links THEN links[q] ELSE IF aliases[q] = None THEN None ELSE aliases[q].source)
          \in {None, owner}
    BY <1>2, <1>6, <2>4 DEF OwnerOf
  <2> QED
    BY <2>2, <2>4, <2>5
<1>16. OwnersYield(c)'
  <2>1. \A q \in DOMAIN s.tx.links : Yields(c, q, s.tx.links[q])
    BY <1>0, <1>2 DEF Stands, OwnersYield
  <2>2. IF r \in DOMAIN s.tx.links THEN s.tx.links[r] = owner ELSE Yields(c, r, owner)
    BY <1>0, <1>1, <1>2, <1>3, <1>4 DEF Stands, OwnersYield
  <2>3. \A q \in DOMAIN links : Yields(c, q, links[q])
    BY <1>6, <2>1, <2>2
  <2>4. /\ cycle'[c].tx.links = links /\ cycle'[c].over = cycle[c].over /\ aliases' = aliases
        /\ cycle'[c].pc # "upsert"
    BY <1>2, <1>7, <1>8, <1>9, <1>11
  <2> QED
    BY <2>3, <2>4 DEF OwnersYield, Yields
<1>17. \A d \in Cycles \ {c} : DOMAIN new.tx.made \cap DOMAIN cycle[d].tx.made = {}
  BY <1>0, <1>2, <1>8, <1>9 DEF Apart
<1>18. cycle[c].pc \in Storing /\ new.pc \in Storing /\ new.at = cycle[c].at /\ new.over = cycle[c].over
  BY <1>1, <1>2, <1>9 DEF Storing
<1> QED
  BY <1>7, <1>9, <1>12, <1>13, <1>14, <1>15, <1>16, <1>17, <1>18, StatementKeeps

(* What a candidate or a whole run has to record. *)
LEMMA ResultFacts ==
  ASSUME DiscoveryInv, NEW c \in Cycles, cycle[c].pc = "complete"
  PROVE  /\ RecordedResult(c) \subseteq DiscoveryResults
         /\ \A i \in Identities : [source |-> i, created |-> TRUE] \in RecordedResult(c)
                                  <=> i \in DOMAIN cycle[c].tx.made
<1>0. CycleTypes /\ Stands(c)
  BY InvFacts
<1>1. /\ cycle[c].tx.results \subseteq DiscoveryResults /\ cycle[c].new \in BOOLEAN
      /\ cycle[c].todo # <<>> => cycle[c].owner \in Identities
  BY <1>0, CycleFacts DEF Stands, AtWork
<1>2. cycle[c].todo # <<>> => [source |-> cycle[c].owner, created |-> cycle[c].new] \in DiscoveryResults
  BY <1>1 DEF DiscoveryResults
<1>3. RecordedResult(c) \subseteq DiscoveryResults
  BY <1>1, <1>2 DEF RecordedResult
<1> QED
  BY <1>0, <1>3 DEF Stands, MadeAreCounted

LEMMA NextCandidateSafe ==
  ASSUME DiscoveryInv, NEW c \in Cycles, cycle[c].pc = "complete", Len(cycle[c].todo) > 1,
         cycle' = [cycle EXCEPT ![c].pc = "look", ![c].todo = Tail(cycle[c].todo),
                                ![c].tx.results = RecordedResult(c)],
         UNCHANGED <<runs, sources, aliases>>
  PROVE  DiscoveryInv'
<1>0. /\ RowTypes /\ CycleTypes /\ Stands(c)
      /\ \A d, e \in Cycles : d # e => Apart(d, e)
  BY InvFacts
<1>1. cycle[c] \in Cycle /\ cycle[c].todo \in Seq(Candidate) /\ cycle[c].todo # <<>>
  <2>1. cycle[c] \in Cycle /\ cycle[c].todo \in Seq(Candidate)
    BY <1>0, CycleFacts
  <2>2. Len(<<>>) = 0
    OBVIOUS
  <2>3. ~(0 > 1)
    OBVIOUS
  <2> QED
    BY <2>1, <2>2, <2>3
<1>2. PICK s \in Cycle : s = cycle[c]
  BY <1>1
<1>3. PICK rest \in Seq(Candidate) : rest = Tail(s.todo) /\ rest # <<>>
  BY <1>1, <1>2, HeadsAndTails
<1>4. PICK results \in SUBSET DiscoveryResults :
        /\ results = RecordedResult(c)
        /\ \A i \in Identities : [source |-> i, created |-> TRUE] \in results <=> i \in DOMAIN s.tx.made
  BY <1>2, ResultFacts
<1> DEFINE tx == [s.tx EXCEPT !.results = results]
           new == [s EXCEPT !.pc = "look", !.todo = rest, !.tx = tx]
<1>5. cycle' = [cycle EXCEPT ![c] = new]
  <2>1. PICK pc : pc = "look"
    OBVIOUS
  <2>2. cycle' = [cycle EXCEPT ![c].pc = pc, ![c].todo = rest, ![c].tx.results = results]
    BY <1>2, <1>3, <1>4, <2>1
  <2>3. cycle' = [cycle EXCEPT ![c] = [s EXCEPT !.pc = pc, !.todo = rest, !.tx = tx]]
    BY ONLY <1>2, <2>2
  <2> QED
    BY <2>1, <2>3
<1>6. tx \in Transaction /\ tx.made = s.tx.made /\ tx.links = s.tx.links /\ tx.results = results
  BY DEF Transaction, Cycle
<1> HIDE DEF tx
<1>7. /\ new \in Cycle /\ new.pc = "look" /\ new.tx = tx /\ new.todo = rest /\ new.over = s.over
      /\ new.at = s.at
  BY <1>6 DEF Cycle, Active, Storing
<1> HIDE DEF new
<1>8. cycle'[c] = new
  BY <1>0, <1>5, <1>7 DEF CycleTypes
<1>9. AtWork(c)'
  BY <1>3, <1>7, <1>8 DEF AtWork, Storing
<1>10. MadeAreCounted(c)'
  BY <1>4, <1>6, <1>7, <1>8 DEF MadeAreCounted
<1>11. MadeAreNew(c)'
  BY <1>0, <1>2, <1>6, <1>7, <1>8 DEF Stands, MadeAreNew
<1>12. LookupsStand(c)'
  BY <1>7, <1>8 DEF LookupsStand
<1>13. OwnersYield(c)'
  <2>1. \A q \in DOMAIN s.tx.links : Yields(c, q, s.tx.links[q])
    BY <1>0, <1>2 DEF Stands, OwnersYield
  <2>2. /\ cycle'[c].tx.links = s.tx.links /\ cycle'[c].over = cycle[c].over /\ aliases' = aliases
        /\ cycle'[c].pc # "upsert"
    BY <1>2, <1>6, <1>7, <1>8
  <2> QED
    BY <2>1, <2>2 DEF OwnersYield, Yields
<1>14. \A d \in Cycles \ {c} : DOMAIN new.tx.made \cap DOMAIN cycle[d].tx.made = {}
  BY <1>0, <1>2, <1>6, <1>7 DEF Apart
<1>15. cycle[c].pc \in Storing /\ new.pc \in Storing /\ new.at = cycle[c].at /\ new.over = cycle[c].over
  BY <1>2, <1>7 DEF Storing
<1> QED
  BY <1>5, <1>7, <1>9, <1>10, <1>11, <1>12, <1>13, <1>14, <1>15, StatementKeeps

(* The commit: the sources and the owners the run made, and its end. *)
Commits(c) ==
    /\ runs' = CompletedRun(c, RecordedResult(c))
    /\ sources' = [i \in Identities |->
                     IF i \in DOMAIN cycle[c].tx.made
                     THEN [by |-> Key(c), refs |-> Range(cycle[c].tx.made[i])]
                     ELSE sources[i]]
    /\ aliases' = [r \in References |->
                     IF r \in DOMAIN cycle[c].tx.links
                     THEN [source |-> cycle[c].tx.links[r], by |-> Key(c)]
                     ELSE aliases[r]]
    /\ cycle' = NextKey(c, "stored")

LEMMA CommitWrites ==
  ASSUME DiscoveryInv, NEW c \in Cycles, cycle[c].pc = "complete", Commits(c)
  PROVE  /\ RowTypes'
         /\ runs'[Key(c)] # None /\ runs'[Key(c)].status = "completed"
         /\ runs'[Key(c)].results = RecordedResult(c)
         /\ \A k \in Keys : k # Key(c) => runs'[k] = runs[k]
         /\ \A i \in Identities :
              IF i \in DOMAIN cycle[c].tx.made THEN sources'[i] # None /\ sources'[i].by = Key(c)
              ELSE sources'[i] = sources[i]
         /\ \A r \in References :
              IF r \in DOMAIN cycle[c].tx.links
              THEN /\ aliases'[r] # None /\ aliases'[r].by = Key(c)
                   /\ aliases'[r].source = cycle[c].tx.links[r]
              ELSE aliases'[r] = aliases[r]
<1>0. RowTypes /\ CycleTypes /\ Stands(c)
  BY InvFacts
<1>1. PICK k \in Keys : k = Key(c)
  BY <1>0, CycleFacts
<1>2. PICK results \in SUBSET DiscoveryResults : results = RecordedResult(c)
  BY ResultFacts
<1>3. PICK row \in Run : row = runs[k]
  BY <1>0, <1>1 DEF RowTypes, Stands, RunIsOpen, Active, Storing
<1>4. runs' = [runs EXCEPT ![k] = [row EXCEPT !.status = "completed", !.results = results]]
  BY <1>1, <1>2, <1>3 DEF Commits, CompletedRun
<1>5. /\ [row EXCEPT !.status = "completed", !.results = results] \in Run
      /\ [row EXCEPT !.status = "completed", !.results = results].status = "completed"
      /\ [row EXCEPT !.status = "completed", !.results = results].results = results
  BY DEF Run
<1>6. /\ runs' \in [Keys -> {None} \cup Run] /\ runs'[k] \in Run
      /\ runs'[k].status = "completed" /\ runs'[k].results = results
      /\ \A l \in Keys : l # k => runs'[l] = runs[l]
  BY <1>0, <1>4, <1>5 DEF RowTypes
<1>7. ASSUME NEW i \in Identities
      PROVE  IF i \in DOMAIN cycle[c].tx.made THEN sources'[i] \in Source /\ sources'[i].by = k
             ELSE sources'[i] = sources[i]
  <2>1. i \in DOMAIN cycle[c].tx.made => cycle[c].tx.made[i] \in Seq(References)
    <3>1. PICK S \in SUBSET Identities : cycle[c].tx.made \in [S -> Seq(References)]
      BY <1>0, CycleFacts DEF MadeSources
    <3> QED
      BY <3>1
  <2>2. i \in DOMAIN cycle[c].tx.made => Range(cycle[c].tx.made[i]) \subseteq References
    <3> SUFFICES ASSUME i \in DOMAIN cycle[c].tx.made
                 PROVE  Range(cycle[c].tx.made[i]) \subseteq References
      OBVIOUS
    <3>1. PICK refs \in Seq(References) : refs = cycle[c].tx.made[i]
      BY <2>1
    <3>2. \A n \in DOMAIN refs : refs[n] \in References
      BY LenProperties, ElementOfSeq
    <3> QED
      BY <3>1, <3>2 DEF Range
  <2>3. sources'[i] = IF i \in DOMAIN cycle[c].tx.made
                      THEN [by |-> k, refs |-> Range(cycle[c].tx.made[i])] ELSE sources[i]
    BY <1>1 DEF Commits
  <2> QED
    BY <2>2, <2>3 DEF Source
<1>8. ASSUME NEW r \in References
      PROVE  IF r \in DOMAIN cycle[c].tx.links
             THEN /\ aliases'[r] \in Alias /\ aliases'[r].by = k
                  /\ aliases'[r].source = cycle[c].tx.links[r]
             ELSE aliases'[r] = aliases[r]
  <2>1. r \in DOMAIN cycle[c].tx.links => cycle[c].tx.links[r] \in Identities
    <3>1. PICK S \in SUBSET References : cycle[c].tx.links \in [S -> Identities]
      BY <1>0, CycleFacts DEF MadeLinks
    <3> QED
      BY <3>1
  <2>2. aliases'[r] = IF r \in DOMAIN cycle[c].tx.links
                      THEN [source |-> cycle[c].tx.links[r], by |-> k] ELSE aliases[r]
    BY <1>1 DEF Commits
  <2> QED
    BY <2>1, <2>2 DEF Alias
<1>9. sources' \in [Identities -> {None} \cup Source]
  <2>1. \A i \in Identities : sources'[i] \in {None} \cup Source
    BY <1>0, <1>7 DEF RowTypes
  <2> QED
    BY <2>1 DEF Commits
<1>10. aliases' \in [References -> {None} \cup Alias]
  <2>1. \A r \in References : aliases'[r] \in {None} \cup Alias
    BY <1>0, <1>8 DEF RowTypes
  <2> QED
    BY <2>1 DEF Commits
<1>11. RowTypes'
  BY <1>6, <1>9, <1>10 DEF RowTypes
<1> QED
  BY <1>1, <1>2, <1>6, <1>7, <1>8, <1>11, NoneFacts

LEMMA CommitSafe ==
  ASSUME DiscoveryInv, NEW c \in Cycles, cycle[c].pc = "complete", Commits(c)
  PROVE  DiscoveryInv'
<1>0. /\ RowTypes /\ CycleTypes /\ EverySourceHasOneCreator
      /\ \A d \in Cycles : Stands(d)
      /\ \A d, e \in Cycles : d # e => Apart(d, e)
  BY InvFacts
<1>1. cycle[c].pc \in Active /\ cycle[c].pc \in Storing
  BY DEF Active, Storing
<1>2. /\ RowTypes'
      /\ runs'[Key(c)] # None /\ runs'[Key(c)].status = "completed"
      /\ runs'[Key(c)].results = RecordedResult(c)
      /\ \A k \in Keys : k # Key(c) => runs'[k] = runs[k]
  BY CommitWrites
<1>3. \A i \in Identities :
        IF i \in DOMAIN cycle[c].tx.made THEN sources'[i] # None /\ sources'[i].by = Key(c)
        ELSE sources'[i] = sources[i]
  BY CommitWrites
<1>4. \A r \in References :
        IF r \in DOMAIN cycle[c].tx.links
        THEN /\ aliases'[r] # None /\ aliases'[r].by = Key(c)
             /\ aliases'[r].source = cycle[c].tx.links[r]
        ELSE aliases'[r] = aliases[r]
  BY CommitWrites
<1>5. PICK new \in Cycle :
        /\ NextKey(c, "stored") = [cycle EXCEPT ![c] = new]
        /\ new.pc \in {"start", "done", "aborted"} /\ new.tx = NoRows
        /\ new.at \in 1..Len(Plan[c])
  BY <1>0, AfterTheRun
<1>6. /\ cycle' \in [Cycles -> Cycle] /\ cycle'[c] = new
      /\ \A d \in Cycles \ {c} : cycle'[d] = cycle[d]
  BY <1>0, <1>5 DEF CycleTypes, Commits
<1>7. CycleTypes'
  BY <1>0, <1>5, <1>6 DEF CycleTypes
<1>8. Stands(c)'
  <2>1. new.pc \notin Active /\ new.pc \notin Storing
    BY <1>5 DEF Active, Storing
  <2>2. /\ DOMAIN new.tx.made = {} /\ DOMAIN new.tx.links = {} /\ new.tx.results = {}
    BY <1>5, NoRowsFacts
  <2>3. AtWork(c)' /\ RunIsOpen(c)' /\ LookupsStand(c)'
    BY <1>5, <1>6, <2>1 DEF AtWork, RunIsOpen, LookupsStand, Storing
  <2>4. MadeAreCounted(c)' /\ MadeAreNew(c)' /\ OwnersYield(c)'
    BY <1>5, <1>6, <2>2 DEF MadeAreCounted, MadeAreNew, OwnersYield
  <2> QED
    BY <2>3, <2>4 DEF Stands
<1>9. ASSUME NEW d \in Cycles, d # c PROVE Stands(d)'
  <2>1. Stands(d) /\ Apart(c, d) /\ Apart(d, c) /\ cycle'[d] = cycle[d]
    BY <1>0, <1>6, <1>9
  <2>2. Key(d)' = Key(d) /\ Key(d) \in Keys
    BY <1>0, <2>1, CycleFacts DEF Key
  <2>3. AtWork(d)'
    BY <2>1 DEF Stands, AtWork
  <2>4. RunIsOpen(d)'
    <3>1. cycle[d].pc \in Active => runs'[Key(d)] = runs[Key(d)]
      BY <1>1, <1>2, <2>1, <2>2 DEF Apart
    <3> QED
      BY <2>1, <2>2, <3>1 DEF Stands, RunIsOpen
  <2>5. MadeAreCounted(d)'
    BY <2>1 DEF Stands, MadeAreCounted, RecordedResult
  <2>6. MadeAreNew(d)'
    <3>1. ASSUME NEW i \in DOMAIN cycle[d].tx.made PROVE sources'[i] = None
      <4>1. sources[i] = None /\ i \in Identities /\ i \notin DOMAIN cycle[c].tx.made
        BY <1>0, <2>1, <3>1, CycleFacts DEF Stands, MadeAreNew, Apart
      <4> QED
        BY <1>3, <4>1
    <3> QED
      BY <2>1, <3>1 DEF MadeAreNew
  <2>7. cycle[d].pc \in Storing => Key(c) \in cycle[d].over
    BY <1>1, <2>1 DEF Apart
  <2>8. LookupsStand(d)'
    <3>1. cycle'[d].over = {} => cycle'[d].pc \notin Storing
      BY <2>1, <2>7
    <3> QED
      BY <3>1 DEF LookupsStand, Storing
  <2>9. ASSUME NEW r \in References, NEW owner, cycle[d].pc \in Storing, Yields(d, r, owner)
        PROVE  aliases'[r] # None /\ aliases'[r].source # owner => aliases'[r].by \in cycle'[d].over
    <3>1. CASE r \in DOMAIN cycle[c].tx.links
      BY <1>4, <2>1, <2>7, <2>9, <3>1
    <3>2. CASE r \notin DOMAIN cycle[c].tx.links
      BY <1>4, <2>1, <2>9, <3>2 DEF Yields
    <3> QED
      BY <3>1, <3>2
  <2>10. OwnersYield(d)'
    <3>1. CASE cycle[d].pc \notin Storing
      <4>1. cycle'[d].tx = NoRows /\ cycle'[d].pc # "upsert"
        BY <2>1, <3>1 DEF Stands, AtWork, Storing
      <4> QED
        BY <4>1, NoRowsFacts DEF OwnersYield
    <3>2. CASE cycle[d].pc \in Storing
      <4>1. \A r \in DOMAIN cycle[d].tx.links :
              /\ r \in References
              /\ aliases'[r] # None /\ aliases'[r].source # cycle[d].tx.links[r]
                   => aliases'[r].by \in cycle'[d].over
        BY <1>0, <2>1, <2>9, <3>2, CycleFacts DEF Stands, OwnersYield
      <4>2. \A r \in DOMAIN cycle'[d].tx.links :
              aliases'[r] # None /\ aliases'[r].source # cycle'[d].tx.links[r]
                => aliases'[r].by \in cycle'[d].over
        BY <2>1, <4>1
      <4>3. ASSUME cycle[d].pc = "upsert", NEW r \in References, r = Head(cycle[d].refs)
            PROVE  IF r \in DOMAIN cycle[d].tx.links THEN cycle[d].tx.links[r] = cycle[d].owner
                   ELSE aliases'[r] # None /\ aliases'[r].source # cycle[d].owner
                          => aliases'[r].by \in cycle'[d].over
        BY <2>1, <2>9, <3>2, <4>3 DEF Stands, OwnersYield
      <4>4. cycle[d].pc = "upsert" => Head(cycle[d].refs) \in References
        <5>1. cycle[d].pc = "upsert" => cycle[d].refs \in Seq(References) /\ cycle[d].refs # <<>>
          BY <1>0, <2>1, CycleFacts DEF Stands, AtWork
        <5> QED
          BY <5>1, HeadsAndTails
      <4>5. cycle'[d].pc = "upsert" =>
              IF Head(cycle'[d].refs) \in DOMAIN cycle'[d].tx.links
              THEN cycle'[d].tx.links[Head(cycle'[d].refs)] = cycle'[d].owner
              ELSE aliases'[Head(cycle'[d].refs)] # None
                   /\ aliases'[Head(cycle'[d].refs)].source # cycle'[d].owner
                     => aliases'[Head(cycle'[d].refs)].by \in cycle'[d].over
        BY <2>1, <4>3, <4>4
      <4> QED
        BY <4>2, <4>5 DEF OwnersYield, Yields
    <3> QED
      BY <3>1, <3>2
  <2> QED
    BY <2>3, <2>4, <2>5, <2>6, <2>8, <2>10 DEF Stands
<1>10. \A d, e \in Cycles : d # e => Apart(d, e)'
  <2>1. ASSUME NEW d \in Cycles \ {c} PROVE Apart(c, d)' /\ Apart(d, c)'
    BY <1>5, <1>6, NoRowsFacts DEF Apart, Active, Storing
  <2>2. ASSUME NEW d \in Cycles \ {c}, NEW e \in Cycles \ {c}, d # e PROVE Apart(d, e)'
    BY <1>0, <1>6, <2>2, OthersStayApart
  <2> QED
    BY <2>1, <2>2
<1>11. EverySourceHasOneCreator'
  <2> SUFFICES ASSUME NEW i \in Identities
               PROVE  LET creators == {k \in Keys : runs'[k] # None
                                         /\ [source |-> i, created |-> TRUE] \in runs'[k].results}
                      IN  /\ sources'[i] # None => creators = {sources'[i].by}
                          /\ sources'[i] = None => creators = {}
                          /\ \A k \in creators : runs'[k].status = "completed"
    BY DEF EverySourceHasOneCreator
  <2> DEFINE old == {k \in Keys : runs[k] # None /\ [source |-> i, created |-> TRUE] \in runs[k].results}
             creators == {k \in Keys : runs'[k] # None
                            /\ [source |-> i, created |-> TRUE] \in runs'[k].results}
  <2>1. /\ sources[i] # None => old = {sources[i].by}
        /\ sources[i] = None => old = {}
        /\ \A k \in old : runs[k].status = "completed"
    BY <1>0 DEF EverySourceHasOneCreator
  <2>2. Key(c) \in Keys /\ Key(c) \notin old
    BY <1>0, <1>1, CycleFacts DEF Stands, RunIsOpen
  <2>3. [source |-> i, created |-> TRUE] \in RecordedResult(c) <=> i \in DOMAIN cycle[c].tx.made
    BY ResultFacts
  <2>4. creators = IF i \in DOMAIN cycle[c].tx.made THEN old \cup {Key(c)} ELSE old
    BY <1>2, <2>2, <2>3
  <2>5. \A k \in old : k # Key(c) /\ runs'[k] = runs[k]
    BY <1>2, <2>2
  <2> HIDE DEF old, creators
  <2>6. \A k \in creators : runs'[k].status = "completed"
    BY <1>2, <2>1, <2>4, <2>5
  <2>7. sources'[i] # None => creators = {sources'[i].by}
    <3>1. i \in DOMAIN cycle[c].tx.made => sources[i] = None
      BY <1>0 DEF Stands, MadeAreNew
    <3> QED
      BY <1>3, <2>1, <2>4, <3>1
  <2>8. sources'[i] = None => creators = {}
    BY <1>3, <2>1, <2>4
  <2> QED
    BY <2>6, <2>7, <2>8 DEF creators
<1> QED
  BY <1>2, <1>7, <1>8, <1>9, <1>10, <1>11 DEF DiscoveryInv, Stands

LEMMA CompleteSafe ==
  ASSUME DiscoveryInv, NEW c \in Cycles, Complete(c)
  PROVE  DiscoveryInv'
<1>1. cycle[c].pc = "complete"
  BY DEF Complete
<1>2. CASE Len(cycle[c].todo) > 1
  BY <1>1, <1>2, NextCandidateSafe DEF Complete
<1>3. CASE ~(Len(cycle[c].todo) > 1)
  <2>1. Commits(c)
    BY <1>3 DEF Complete, Commits
  <2> QED
    BY <1>1, <2>1, CommitSafe
<1> QED
  BY <1>2, <1>3

LEMMA UnknownFacts ==
  ASSUME NEW c \in Cycles, NEW k \in Keys, NEW batch \in Found[k], NEW new \in Unknown(c, batch)
  PROVE  new \in Seq(Candidate)
<1>1. batch \in Seq(Candidate)
  BY FoundAssumption
<1> DEFINE unknown == {n \in DOMAIN batch : IsUnknown(c, batch[n])}
<1>2. PICK p \in [1..Cardinality(unknown) -> unknown] : new = [i \in DOMAIN p |-> batch[p[i]]]
  BY DEF Unknown
<1>3. Cardinality(unknown) \in Nat
  <2>1. IsFiniteSet(1..Len(batch))
    <3>1. PICK n \in Nat : n = Len(batch)
      BY <1>1, LenProperties
    <3>2. 1 \in Int /\ n \in Int
      OBVIOUS
    <3> QED
      BY <3>1, <3>2, FS_Interval, Zenon
  <2>2. unknown \subseteq 1..Len(batch)
    BY <1>1, LenProperties
  <2>3. IsFiniteSet(unknown)
    BY <2>1, <2>2, FS_Subset
  <2> QED
    BY <2>3, FS_CardinalityType
<1>4. \A n \in DOMAIN batch : batch[n] \in Candidate
  BY <1>1, LenProperties, ElementOfSeq
<1> HIDE DEF unknown
<1>5. PICK m \in Nat : m = Cardinality(unknown)
  BY <1>3
<1>6. \A i \in 1..m : p[i] \in DOMAIN batch
  BY <1>2, <1>5 DEF unknown
<1>7. new \in [1..m -> Candidate]
  BY <1>2, <1>4, <1>5, <1>6
<1> QED
  BY <1>7

LEMMA DiscoversSafe ==
  ASSUME DiscoveryInv, NEW c \in Cycles,
         GraphDiscovers(c) \/ TelegramDiscovers(c) \/ WebDiscovers(c)
  PROVE  DiscoveryInv'
<1>1. cycle[c].pc = "discover" /\ Key(c) \in Keys
  BY InvFacts, CycleFacts DEF GraphDiscovers, TelegramDiscovers, WebDiscovers
<1>2. ASSUME NEW flood, Fails(c, flood) PROVE DiscoveryInv'
  BY <1>1, <1>2, FailsSafe DEF Active
<1>3. ASSUME NEW batch \in Found[Key(c)], NEW new \in Unknown(c, batch), Finds(c, new)
      PROVE  DiscoveryInv'
  <2>1. new \in Seq(Candidate)
    BY <1>1, UnknownFacts
  <2> QED
    BY <1>1, <1>3, <2>1, FindsSafe
<1>4. ASSUME NEW batch \in Found[Key(c)], NEW n \in 0..Len(batch), Finds(c, SubSeq(batch, 1, n))
      PROVE  DiscoveryInv'
  <2>1. batch \in Seq(Candidate)
    BY <1>1, FoundAssumption
  <2>2. SubSeq(batch, 1, n) \in Seq(Candidate)
    <3>1. PICK len \in Nat : len = Len(batch) /\ n \in 0..len
      BY <2>1, LenProperties
    <3>2. \A i \in 1..n : batch[i] \in Candidate
      BY <2>1, <3>1, ElementOfSeq
    <3> QED
      BY <2>1, <3>1, <3>2, SubSeqProperties
  <2> QED
    BY <1>1, <1>4, <2>2, FindsSafe
<1> QED
  BY <1>2, <1>3, <1>4 DEF GraphDiscovers, TelegramDiscovers, WebDiscovers

LEMMA InitDiscovery == DiscoveryInit => DiscoveryInv
<1> SUFFICES ASSUME DiscoveryInit PROVE DiscoveryInv
  OBVIOUS
<1>1. RowTypes
  BY DEF DiscoveryInit, RowTypes
<1>2. \A c \in Cycles : cycle[c] = Fresh
  BY DEF DiscoveryInit
<1>3. CycleTypes
  <2>1. \A c \in Cycles : 1 \in 1..Len(Plan[c])
    BY PlanFacts
  <2> QED
    BY <1>2, <2>1, FreshFacts DEF DiscoveryInit, CycleTypes
<1>4. ASSUME NEW c \in Cycles
      PROVE  /\ AtWork(c) /\ RunIsOpen(c) /\ MadeAreCounted(c) /\ MadeAreNew(c)
             /\ LookupsStand(c) /\ OwnersYield(c)
  <2>1. /\ cycle[c].pc = "start" /\ cycle[c].tx = NoRows
    BY <1>2, FreshFacts
  <2>2. AtWork(c) /\ RunIsOpen(c) /\ LookupsStand(c)
    BY <2>1 DEF AtWork, RunIsOpen, LookupsStand, Active, Storing
  <2>3. MadeAreCounted(c) /\ MadeAreNew(c) /\ OwnersYield(c)
    BY <2>1, NoRowsFacts DEF MadeAreCounted, MadeAreNew, OwnersYield
  <2> QED
    BY <2>2, <2>3
<1>5. ASSUME NEW c \in Cycles, NEW d \in Cycles, c # d PROVE Apart(c, d)
  BY <1>2, FreshFacts, NoRowsFacts DEF Apart, Active, Storing
<1>6. EverySourceHasOneCreator
  BY DEF DiscoveryInit, EverySourceHasOneCreator
<1> QED
  BY <1>1, <1>3, <1>4, <1>5, <1>6 DEF DiscoveryInv

LEMMA NextDiscovery == DiscoveryInv /\ [DiscoveryNext]_discoveryVars => DiscoveryInv'
<1> SUFFICES ASSUME DiscoveryInv, [DiscoveryNext]_discoveryVars PROVE DiscoveryInv'
  OBVIOUS
<1>1. ASSUME UNCHANGED discoveryVars PROVE DiscoveryInv'
  <2>1. runs' = runs /\ sources' = sources /\ aliases' = aliases /\ cycle' = cycle
    BY <1>1 DEF discoveryVars
  <2>2. RowTypes' /\ CycleTypes' /\ EverySourceHasOneCreator'
    BY <2>1, InvFacts DEF RowTypes, CycleTypes, EverySourceHasOneCreator
  <2>3. \A c \in Cycles : Stands(c)'
    BY <2>1, InvFacts, OtherStands
  <2>4. \A c, d \in Cycles : c # d => Apart(c, d)'
    BY <2>1, InvFacts, OthersStayApart
  <2> QED
    BY <2>2, <2>3, <2>4 DEF DiscoveryInv, Stands
<1>2. ASSUME NEW c \in Cycles, Start(c) PROVE DiscoveryInv'
  BY <1>2, StartSafe
<1>3. ASSUME NEW c \in Cycles, GraphDiscovers(c) \/ TelegramDiscovers(c) \/ WebDiscovers(c)
      PROVE  DiscoveryInv'
  BY <1>3, DiscoversSafe
<1>4. ASSUME NEW c \in Cycles, Look(c) PROVE DiscoveryInv'
  BY <1>4, LookSafe
<1>5. ASSUME NEW c \in Cycles, Create(c) PROVE DiscoveryInv'
  BY <1>5, CreateSafe
<1>6. ASSUME NEW c \in Cycles, CheckOwner(c) PROVE DiscoveryInv'
  BY <1>6, CheckSafe
<1>7. ASSUME NEW c \in Cycles, Upsert(c) PROVE DiscoveryInv'
  BY <1>7, UpsertSafe
<1>8. ASSUME NEW c \in Cycles, Complete(c) PROVE DiscoveryInv'
  BY <1>8, CompleteSafe
<1>9. ASSUME NEW c \in Cycles, DeadlockDetected(c) PROVE DiscoveryInv'
  BY <1>9, DeadlockSafe
<1>10. ASSUME NEW c \in Cycles, Dies(c) PROVE DiscoveryInv'
  BY <1>10, DiesSafe
<1> QED
  BY <1>1, <1>2, <1>3, <1>4, <1>5, <1>6, <1>7, <1>8, <1>9, <1>10 DEF DiscoveryNext

LEMMA DiscoveryStaysSafe == DiscoverySpec => []DiscoveryInv
BY InitDiscovery, NextDiscovery, PTL DEF DiscoverySpec

(* Every committed source was created by exactly one run, which completed. *)
THEOREM SourcesHaveOneCreator == DiscoverySpec => []EverySourceHasOneCreator
<1>1. DiscoveryInv => EverySourceHasOneCreator
  BY DEF DiscoveryInv
<1> QED
  BY <1>1, DiscoveryStaysSafe, PTL

(* A chat known by a reference is not made a second source, unless another *)
(* run was stored at the same time.                                        *)
THEOREM NewSourcesOwnTheirReferences == DiscoverySpec => []NewSourceOwnsItsReferences
<1>1. DiscoveryInv => NewSourceOwnsItsReferences
  <2> SUFFICES ASSUME DiscoveryInv, NEW c \in Cycles,
                      cycle[c].pc \in {"check", "upsert"}, cycle[c].new, cycle[c].over = {}
               PROVE  OwnerOf(c, Head(cycle[c].refs)) \in {None, cycle[c].owner}
    BY DEF NewSourceOwnsItsReferences
  <2>1. CycleTypes /\ AtWork(c) /\ LookupsStand(c)
    BY DEF DiscoveryInv
  <2>2. /\ cycle[c].refs \in Seq(References) /\ cycle[c].refs # <<>>
        /\ \A n \in DOMAIN cycle[c].refs : OwnerOf(c, cycle[c].refs[n]) \in {None, cycle[c].owner}
    BY <2>1, CycleFacts DEF AtWork, LookupsStand
  <2>3. 1 \in DOMAIN cycle[c].refs /\ Head(cycle[c].refs) = cycle[c].refs[1]
    BY <2>2, HeadsAndTails
  <2> QED
    BY <2>2, <2>3
<1> QED
  BY <1>1, DiscoveryStaysSafe, PTL

(* What a step may do to the owners: only a commit writes them, and it     *)
(* takes a reference from another source only if the run that set it was   *)
(* stored beside it.                                                       *)
LEMMA OnlyCommitsMoveAliases ==
  ASSUME DiscoveryInv, NEW r \in References, aliases[r] # None,
         aliases'[r].source # aliases[r].source, DiscoveryNext
  PROVE  \E c \in Cycles : /\ cycle[c].pc = "complete" /\ cycle'[c].pc # "complete"
                           /\ aliases[r].by \in cycle[c].over
<1>1. aliases' # aliases
  OBVIOUS
<1>2. PICK c \in Cycles : Complete(c)
  BY <1>1 DEF DiscoveryNext, discoveryVars, Start, GraphDiscovers, TelegramDiscovers, WebDiscovers, Finds,
              Fails, Look, Create, CheckOwner, Proceeds, Upsert, DeadlockDetected, Dies
<1>3. cycle[c].pc = "complete" /\ Commits(c)
  BY <1>1, <1>2 DEF Complete, Commits
<1>4. CycleTypes /\ Stands(c)
  BY InvFacts
<1>5. PICK new \in Cycle : /\ NextKey(c, "stored") = [cycle EXCEPT ![c] = new]
                           /\ new.pc \in {"start", "done", "aborted"} /\ new.tx = NoRows
                           /\ new.at \in 1..Len(Plan[c])
  BY <1>4, AfterTheRun
<1>6. cycle'[c].pc # "complete"
  BY <1>3, <1>4, <1>5 DEF Commits, CycleTypes
<1>7. r \in DOMAIN cycle[c].tx.links /\ cycle[c].tx.links[r] # aliases[r].source
  BY <1>3, CommitWrites
<1>8. aliases[r].by \in cycle[c].over
  BY <1>4, <1>7 DEF Stands, OwnersYield, Yields
<1> QED
  BY <1>3, <1>6, <1>8

(* The owner of a reference is only taken away by a run that was stored at *)
(* the same time as the run that set it.                                   *)
THEOREM AliasesOnlyMoveInOverlap == DiscoverySpec => AliasesMoveOnlyInOverlap
<1>1. DiscoveryInv /\ [DiscoveryNext]_discoveryVars =>
        [\A r \in References :
           aliases[r] # None /\ aliases'[r].source # aliases[r].source =>
             \E c \in Cycles : /\ cycle[c].pc = "complete"
                               /\ cycle'[c].pc # "complete"
                               /\ aliases[r].by \in cycle[c].over]_discoveryVars
  BY OnlyCommitsMoveAliases
<1> QED
  BY <1>1, DiscoveryStaysSafe, PTL DEF DiscoverySpec, AliasesMoveOnlyInOverlap

-----------------------------------------------------------------------------
(* Discovery: the tables                                                   *)

(* What a transaction names is a source it can see.                        *)
Named(c) ==
    /\ \A r \in DOMAIN cycle[c].tx.links : HasSource(c, cycle[c].tx.links[r])
    /\ \A x \in cycle[c].tx.results : HasSource(c, x.source)
    /\ cycle[c].pc \in {"check", "upsert"} \/ (cycle[c].pc = "complete" /\ cycle[c].todo # <<>>) =>
         HasSource(c, cycle[c].owner)

(* The usernames of the sources a transaction has made are theirs alone,   *)
(* in the table, in the transaction and among the open ones.               *)
Unshared(c) ==
    \A i \in DOMAIN cycle[c].tx.made :
        /\ \A j \in DOMAIN cycle[c].tx.made :
             i # j => ~SameHandle(cycle[c].tx.made[i], cycle[c].tx.made[j])
        /\ \A j \in Identities :
             sources[j] # None => Range(cycle[c].tx.made[i]) \cap sources[j].refs \cap Handles = {}

UnsharedBy(c, d) ==
    \A i \in DOMAIN cycle[c].tx.made : \A j \in DOMAIN cycle[d].tx.made :
        ~SameHandle(cycle[c].tx.made[i], cycle[d].tx.made[j])

ResultsNameSources ==
    \A k \in {x \in Keys : runs[x] # None} :
        \A r \in runs[k].results : runs[k].status = "completed" /\ sources[r.source] # None

HandlesAreUnique ==
    \A i, j \in Identities : i # j /\ None \notin {sources[i], sources[j]} =>
        sources[i].refs \cap sources[j].refs \cap Handles = {}

AliasesNameSources == \A r \in References : aliases[r] # None => sources[aliases[r].source] # None

TablesInv ==
    /\ ResultsNameSources /\ HandlesAreUnique /\ AliasesNameSources
    /\ \A c \in Cycles : Named(c) /\ Unshared(c)
    /\ \A c, d \in Cycles : c # d => UnsharedBy(c, d)

LEMMA SameHandleIsMutual ==
  ASSUME NEW refs, NEW others, SameHandle(refs, others)
  PROVE  SameHandle(others, refs)
BY DEF SameHandle

(* A step of one cycle that writes neither sources nor references.         *)
LEMMA TablesKept ==
  ASSUME TablesInv, NEW c \in Cycles, UNCHANGED <<sources, aliases>>,
         \A k \in Keys : runs'[k] = runs[k] \/ (runs'[k] # None /\ runs'[k].results = {}),
         \A d \in Cycles \ {c} : /\ cycle'[d].tx = cycle[d].tx /\ cycle'[d].pc = cycle[d].pc
                                 /\ cycle'[d].todo = cycle[d].todo /\ cycle'[d].owner = cycle[d].owner,
         Named(c)', Unshared(c)', \A d \in Cycles \ {c} : UnsharedBy(c, d)'
  PROVE  TablesInv'
<1>1. ResultsNameSources'
  BY DEF TablesInv, ResultsNameSources
<1>2. HandlesAreUnique' /\ AliasesNameSources'
  BY DEF TablesInv, HandlesAreUnique, AliasesNameSources
<1>3. ASSUME NEW d \in Cycles \ {c} PROVE Named(d)' /\ Unshared(d)'
  <2>1. Named(d) /\ Unshared(d)
    BY DEF TablesInv
  <2>2. Named(d)'
    BY <2>1 DEF Named, HasSource
  <2>3. Unshared(d)'
    BY <2>1 DEF Unshared
  <2> QED
    BY <2>2, <2>3
<1>4. ASSUME NEW d \in Cycles \ {c} PROVE UnsharedBy(d, c)'
  BY SameHandleIsMutual DEF UnsharedBy
<1>5. ASSUME NEW d \in Cycles \ {c}, NEW e \in Cycles \ {c}, d # e PROVE UnsharedBy(d, e)'
  BY <1>5 DEF TablesInv, UnsharedBy
<1> QED
  BY <1>1, <1>2, <1>3, <1>4, <1>5 DEF TablesInv

(* ... of a cycle that has made no source in it.                           *)
LEMMA TablesKeptMakingNone ==
  ASSUME TablesInv, NEW c \in Cycles, UNCHANGED <<sources, aliases>>,
         \A k \in Keys : runs'[k] = runs[k] \/ (runs'[k] # None /\ runs'[k].results = {}),
         \A d \in Cycles \ {c} : /\ cycle'[d].tx = cycle[d].tx /\ cycle'[d].pc = cycle[d].pc
                                 /\ cycle'[d].todo = cycle[d].todo /\ cycle'[d].owner = cycle[d].owner,
         cycle'[c].tx.made = cycle[c].tx.made, Named(c)'
  PROVE  TablesInv'
<1>1. Unshared(c)'
  BY DEF TablesInv, Unshared
<1>2. \A d \in Cycles \ {c} : UnsharedBy(c, d)'
  BY DEF TablesInv, UnsharedBy
<1> QED
  BY <1>1, <1>2, TablesKept

(* ... of a cycle with nothing in its transaction.                         *)
LEMMA TablesKeptBare ==
  ASSUME TablesInv, NEW c \in Cycles, UNCHANGED <<sources, aliases>>,
         \A k \in Keys : runs'[k] = runs[k] \/ (runs'[k] # None /\ runs'[k].results = {}),
         \A d \in Cycles \ {c} : /\ cycle'[d].tx = cycle[d].tx /\ cycle'[d].pc = cycle[d].pc
                                 /\ cycle'[d].todo = cycle[d].todo /\ cycle'[d].owner = cycle[d].owner,
         cycle'[c].tx = NoRows, cycle'[c].pc \notin {"check", "upsert"},
         cycle'[c].pc = "complete" => cycle'[c].todo = <<>>
  PROVE  TablesInv'
<1>1. Named(c)' /\ Unshared(c)'
  BY NoRowsFacts DEF Named, Unshared
<1>2. \A d \in Cycles \ {c} : UnsharedBy(c, d)'
  BY NoRowsFacts DEF UnsharedBy
<1> QED
  BY <1>1, <1>2, TablesKept

LEMMA LeavingKeepsTables ==
  ASSUME DiscoveryInv, TablesInv, NEW c \in Cycles, NEW outcome, cycle' = NextKey(c, outcome),
         UNCHANGED <<sources, aliases>>,
         \A k \in Keys : runs'[k] = runs[k] \/ (runs'[k] # None /\ runs'[k].results = {})
  PROVE  TablesInv'
<1>0. CycleTypes
  BY InvFacts
<1>1. PICK new \in Cycle :
        /\ cycle' = [cycle EXCEPT ![c] = new]
        /\ new.pc \in {"start", "done", "aborted"} /\ new.tx = NoRows
        /\ new.at \in 1..Len(Plan[c])
  BY <1>0, AfterTheRun
<1>2. cycle'[c] = new /\ \A d \in Cycles \ {c} : cycle'[d] = cycle[d]
  BY <1>0, <1>1 DEF CycleTypes
<1>3. cycle'[c].pc \notin {"check", "upsert", "complete"} /\ cycle'[c].tx = NoRows
  BY <1>1, <1>2
<1> QED
  BY <1>2, <1>3, TablesKeptBare

LEMMA FailsKeepsTables ==
  ASSUME DiscoveryInv, TablesInv, NEW c \in Cycles, cycle[c].pc \in Active, NEW flood, Fails(c, flood)
  PROVE  TablesInv'
<1>0. RowTypes /\ CycleTypes /\ Stands(c)
  BY InvFacts
<1>1. PICK outcome : cycle' = NextKey(c, outcome)
  BY DEF Fails
<1>2. runs' = FailedRun(c) /\ UNCHANGED <<sources, aliases>>
  BY DEF Fails
<1>3. \A k \in Keys : runs'[k] = runs[k] \/ (runs'[k] # None /\ runs'[k].results = {})
  <2>1. /\ runs[Key(c)] \in Run /\ runs[Key(c)].results = {} /\ Key(c) \in Keys
        /\ runs \in [Keys -> {None} \cup Run]
    BY <1>0, CycleFacts DEF RowTypes, Stands, RunIsOpen
  <2>2. runs' = [runs EXCEPT ![Key(c)] = [runs[Key(c)] EXCEPT !.status = "failed"]]
    BY <1>2 DEF FailedRun
  <2>3. /\ [runs[Key(c)] EXCEPT !.status = "failed"] \in Run
        /\ [runs[Key(c)] EXCEPT !.status = "failed"].results = {}
    BY <2>1 DEF Run
  <2> QED
    BY <2>1, <2>2, <2>3, NoneFacts
<1> QED
  BY <1>1, <1>2, <1>3, LeavingKeepsTables

LEMMA StartKeepsTables ==
  ASSUME DiscoveryInv, TablesInv, NEW c \in Cycles, Start(c)
  PROVE  TablesInv'
<1>0. RowTypes /\ CycleTypes /\ Stands(c) /\ cycle[c] \in Cycle /\ Key(c) \in Keys
  BY InvFacts, CycleFacts
<1>1. UNCHANGED <<sources, aliases>> /\ cycle[c].pc = "start"
  BY DEF Start
<1>2. CASE runs' = runs /\ \E outcome : cycle' = NextKey(c, outcome)
  BY <1>1, <1>2, LeavingKeepsTables
<1>3. CASE /\ runs' = StartedRun(c)
           /\ cycle' = [cycle EXCEPT ![c].pc = "discover", ![c].known = KnownIdentities]
  <2>1. \A k \in Keys : runs'[k] = runs[k] \/ (runs'[k] # None /\ runs'[k].results = {})
    <3>1. Requested[c] \in Nat
      BY PlanFacts
    <3>2. [status |-> "running", requested |-> Requested[c], results |-> {}] \in Run
      BY <3>1 DEF Run
    <3> QED
      BY <1>0, <1>3, <3>2, NoneFacts DEF RowTypes, StartedRun
  <2>2. PICK s \in Cycle : s = cycle[c]
    BY <1>0
  <2>3. cycle' = [cycle EXCEPT ![c] = [s EXCEPT !.pc = "discover", !.known = KnownIdentities]]
    BY <1>3, <2>2
  <2>4. /\ cycle'[c] = [s EXCEPT !.pc = "discover", !.known = KnownIdentities]
        /\ \A d \in Cycles \ {c} : cycle'[d] = cycle[d]
    BY <1>0, <2>3 DEF CycleTypes
  <2>5. cycle'[c].pc = "discover" /\ cycle'[c].tx = s.tx
    BY <2>4 DEF Cycle
  <2>6. s.tx = NoRows
    BY <1>0, <1>1, <2>2 DEF Stands, AtWork, Storing
  <2> QED
    BY <1>1, <2>1, <2>4, <2>5, <2>6, TablesKeptBare
<1> QED
  BY <1>2, <1>3 DEF Start

LEMMA FindsKeepsTables ==
  ASSUME DiscoveryInv, TablesInv, NEW c \in Cycles, cycle[c].pc = "discover",
         NEW batch, Finds(c, batch)
  PROVE  TablesInv'
<1>0. RowTypes /\ CycleTypes /\ \A d \in Cycles : Stands(d) /\ cycle[d] \in Cycle
  BY InvFacts, CycleFacts
<1> DEFINE beside == {d \in Cycles : InTransaction(d)}
<1>1. cycle' = [d \in Cycles |->
                  IF d = c THEN [cycle[c] EXCEPT !.pc = IF batch = <<>> THEN "complete" ELSE "look",
                                                 !.todo = batch, !.over = {Key(e) : e \in beside}]
                  ELSE IF d \in beside THEN [cycle[d] EXCEPT !.over = @ \cup {Key(c)}]
                  ELSE cycle[d]]
  BY DEF Finds
<1>2. UNCHANGED <<runs, sources, aliases>>
  BY DEF Finds
<1>3. PICK over : over = {Key(e) : e \in beside}
  OBVIOUS
<1>4. PICK pc : pc = IF batch = <<>> THEN "complete" ELSE "look"
  OBVIOUS
<1>5. cycle'[c] = [cycle[c] EXCEPT !.pc = pc, !.todo = batch, !.over = over]
  BY <1>1, <1>3, <1>4
<1>6. cycle'[c].tx = cycle[c].tx /\ cycle'[c].pc = pc /\ cycle'[c].todo = batch
  BY <1>0, <1>5 DEF Cycle
<1>7. cycle[c].tx = NoRows
  BY <1>0 DEF Stands, AtWork, Storing
<1>8. ASSUME NEW d \in Cycles \ {c}
      PROVE  /\ cycle'[d].tx = cycle[d].tx /\ cycle'[d].pc = cycle[d].pc
             /\ cycle'[d].todo = cycle[d].todo /\ cycle'[d].owner = cycle[d].owner
  <2>1. PICK over1 : over1 = cycle[d].over \cup {Key(c)}
    OBVIOUS
  <2>2. cycle'[d] = cycle[d] \/ cycle'[d] = [cycle[d] EXCEPT !.over = over1]
    BY <1>1, <2>1
  <2>3. cycle[d] \in Cycle
    BY <1>0
  <2> QED
    BY <2>2, <2>3 DEF Cycle
<1>9. pc \notin {"check", "upsert"} /\ (pc = "complete" => batch = <<>>)
  BY <1>4
<1> HIDE DEF beside
<1> QED
  BY <1>2, <1>6, <1>7, <1>8, <1>9, TablesKeptBare

(* A lookup finds a source the transaction can see.                        *)
LEMMA ExistingIsThere ==
  ASSUME DiscoveryInv, TablesInv, NEW c \in Cycles, NEW cand \in Candidate,
         Existing(c, cand) # None
  PROVE  HasSource(c, Existing(c, cand))
<1>0. RowTypes /\ CycleTypes
  BY InvFacts
<1> DEFINE owned == {n \in DOMAIN cand.refs : OwnerOf(c, cand.refs[n]) # None}
           first == CHOOSE n \in owned : \A m \in owned : n <= m
<1>1. Existing(c, cand) = IF HasSource(c, cand.id) THEN cand.id
                          ELSE IF owned = {} THEN None ELSE OwnerOf(c, cand.refs[first])
  BY DEF Existing
<1>2. ASSUME ~HasSource(c, cand.id), owned # {} PROVE first \in DOMAIN cand.refs
  <2>1. \A n \in DOMAIN cand.refs : n \in Nat
    <3>1. cand.refs \in Seq(References)
      BY DEF Candidate
    <3> QED
      BY <3>1, LenProperties
  <2>2. owned \subseteq Nat /\ owned \subseteq DOMAIN cand.refs
    BY <2>1
  <2>3. owned # {}
    BY <1>2
  <2> HIDE DEF owned
  <2>4. \E n \in owned : \A m \in owned : n <= m
    BY <2>2, <2>3, LeastElement
  <2> QED
    BY <2>2, <2>4
<1>3. \A n \in DOMAIN cand.refs : cand.refs[n] \in References
  <2>1. cand.refs \in Seq(References)
    BY DEF Candidate
  <2> QED
    BY <2>1, LenProperties, ElementOfSeq
<1>4. ASSUME NEW r \in References, OwnerOf(c, r) # None PROVE HasSource(c, OwnerOf(c, r))
  <2>1. CASE r \in DOMAIN cycle[c].tx.links
    BY <2>1 DEF TablesInv, Named, OwnerOf
  <2>2. CASE r \notin DOMAIN cycle[c].tx.links
    BY <1>4, <2>2 DEF TablesInv, AliasesNameSources, OwnerOf, HasSource
  <2> QED
    BY <2>1, <2>2
<1> HIDE DEF owned, first
<1> QED
  BY <1>1, <1>2, <1>3, <1>4

LEMMA LookKeepsTables ==
  ASSUME DiscoveryInv, TablesInv, NEW c \in Cycles, Look(c)
  PROVE  TablesInv'
<1>0. CycleTypes /\ Stands(c)
  BY InvFacts
<1>1. /\ cycle[c].pc = "look" /\ cycle[c] \in Cycle /\ cycle[c].todo \in Seq(Candidate)
      /\ cycle[c].todo # <<>> /\ UNCHANGED <<runs, sources, aliases>>
  BY <1>0, CycleFacts DEF Look, Stands, AtWork, Storing
<1>2. PICK cand \in Candidate : cand = Head(cycle[c].todo)
  BY <1>1, HeadsAndTails
<1>3. PICK found : found = Existing(c, cand) /\ (found # None => HasSource(c, found))
  BY ExistingIsThere
<1>4. PICK pc : pc = IF found = None THEN "create" ELSE IF cand.refs = <<>> THEN "complete" ELSE "check"
  OBVIOUS
<1>5. PICK s \in Cycle : s = cycle[c]
  BY <1>1
<1>6. cycle' = [cycle EXCEPT ![c] = [s EXCEPT !.pc = pc, !.owner = found, !.refs = cand.refs, !.new = FALSE]]
  BY <1>2, <1>3, <1>4, <1>5 DEF Look
<1>7. /\ cycle'[c] = [s EXCEPT !.pc = pc, !.owner = found, !.refs = cand.refs, !.new = FALSE]
      /\ \A d \in Cycles \ {c} : cycle'[d] = cycle[d]
  BY <1>0, <1>6 DEF CycleTypes
<1>8. cycle'[c].tx = cycle[c].tx /\ cycle'[c].pc = pc /\ cycle'[c].owner = found
  BY <1>5, <1>7 DEF Cycle
<1>9. pc # "create" => HasSource(c, found)
  BY <1>3, <1>4
<1>10. Named(c)'
  BY <1>1, <1>8, <1>9 DEF TablesInv, Named, HasSource
<1> QED
  BY <1>1, <1>7, <1>8, <1>10, TablesKeptMakingNone

LEMMA CreateKeepsTables ==
  ASSUME DiscoveryInv, TablesInv, NEW c \in Cycles, Create(c)
  PROVE  TablesInv'
<1>0. CycleTypes /\ Stands(c) /\ \A d \in Cycles : Stands(d)
  BY InvFacts
<1>1. /\ cycle[c].pc = "create" /\ cycle[c] \in Cycle /\ cycle[c].todo \in Seq(Candidate)
      /\ cycle[c].todo # <<>> /\ Holders(c) = {}
  BY <1>0, CycleFacts DEF Create, Stands, AtWork, Storing
<1>2. PICK cand \in Candidate : cand = Head(cycle[c].todo)
  BY <1>1, HeadsAndTails
<1>3. cand.id \in Identities /\ cand.refs \in Seq(References)
  BY DEF Candidate
<1>4. PICK s \in Cycle : s = cycle[c]
  BY <1>1
<1>5. CASE sources[cand.id] = None /\ HandleTaken(c, cand)
  <2>1. Fails(c, FALSE)
    BY <1>2, <1>5 DEF Create
  <2> QED
    BY <1>1, <2>1, FailsKeepsTables DEF Active, Storing
<1>6. CASE ~(sources[cand.id] = None /\ HandleTaken(c, cand))
  <2>1. PICK pc : pc = IF cand.refs = <<>> THEN "complete" ELSE "check"
    OBVIOUS
  <2>2. PICK isNew : isNew = (sources[cand.id] = None)
    OBVIOUS
  <2>3. PICK made : made = IF sources[cand.id] = None THEN With(s.tx.made, cand.id, cand.refs) ELSE s.tx.made
    OBVIOUS
  <2>4. UNCHANGED <<runs, sources, aliases>>
    BY <1>2, <1>6 DEF Create
  <2>5. cycle' = [cycle EXCEPT ![c].pc = pc, ![c].owner = cand.id, ![c].new = isNew, ![c].tx.made = made]
    BY <1>2, <1>4, <1>6, <2>1, <2>2, <2>3 DEF Create
  <2>6. cycle' = [cycle EXCEPT ![c] = [s EXCEPT !.pc = pc, !.owner = cand.id, !.new = isNew,
                                                !.tx = [s.tx EXCEPT !.made = made]]]
    BY <1>4, <2>5
  <2>7. PICK tx : tx = [s.tx EXCEPT !.made = made]
    OBVIOUS
  <2>8. tx.made = made /\ tx.links = s.tx.links /\ tx.results = s.tx.results
    BY <2>7 DEF Cycle, Transaction
  <2>9. /\ cycle'[c] = [s EXCEPT !.pc = pc, !.owner = cand.id, !.new = isNew, !.tx = tx]
        /\ \A d \in Cycles \ {c} : cycle'[d] = cycle[d]
    BY <1>0, <2>6, <2>7 DEF CycleTypes
  <2>10. cycle'[c].pc = pc /\ cycle'[c].owner = cand.id /\ cycle'[c].tx = tx
    BY <2>9 DEF Cycle
  <2>11. s.tx.made \in MadeSources
    BY <1>0, <1>4, CycleFacts
  <2>12. sources[cand.id] = None =>
           /\ DOMAIN made = DOMAIN s.tx.made \cup {cand.id} /\ made[cand.id] = cand.refs
           /\ \A y \in DOMAIN s.tx.made : y # cand.id => made[y] = s.tx.made[y]
    <3>1. PICK f \in MadeSources, x \in Identities, v \in Seq(References) :
            f = s.tx.made /\ x = cand.id /\ v = cand.refs
      BY <1>3, <2>11
    <3>2. /\ DOMAIN With(f, x, v) = DOMAIN f \cup {x} /\ With(f, x, v)[x] = v
          /\ \A y \in DOMAIN f : y # x => With(f, x, v)[y] = f[y]
      BY MadeFacts
    <3> QED
      BY <2>3, <3>1, <3>2
  <2>13. sources[cand.id] # None => made = s.tx.made
    BY <2>3
  <2>14. DOMAIN s.tx.made \subseteq DOMAIN made /\ (cand.id \in DOMAIN made \/ sources[cand.id] # None)
    BY <2>12, <2>13
  <2>15. Named(c)'
    <3>1. \A i : HasSource(c, i) => HasSource(c, i)'
      BY <1>4, <2>4, <2>8, <2>10, <2>14 DEF HasSource
    <3>2. HasSource(c, cand.id)'
      BY <2>4, <2>8, <2>10, <2>14 DEF HasSource
    <3>3. \A r \in DOMAIN cycle[c].tx.links : HasSource(c, cycle[c].tx.links[r])'
      <4>1. \A r \in DOMAIN cycle[c].tx.links : HasSource(c, cycle[c].tx.links[r])
        BY DEF TablesInv, Named
      <4> QED
        BY <1>4, <2>4, <2>8, <2>10, <2>14, <4>1 DEF HasSource
    <3>4. \A x \in cycle[c].tx.results : HasSource(c, x.source)
      BY DEF TablesInv, Named
    <3> QED
      BY <1>4, <2>4, <2>8, <2>10, <2>14, <3>2, <3>3, <3>4 DEF Named, HasSource
  <2>16. sources[cand.id] = None =>
           /\ \A i \in DOMAIN s.tx.made : ~SameHandle(cand.refs, s.tx.made[i])
           /\ \A j \in Identities : sources[j] # None => Range(cand.refs) \cap sources[j].refs \cap Handles = {}
    BY <1>4, <1>6 DEF HandleTaken
  <2>17. Unshared(c)'
    <3>1. Unshared(c)
      BY DEF TablesInv
    <3>2. ASSUME NEW i \in DOMAIN made, NEW j \in DOMAIN made, i # j PROVE ~SameHandle(made[i], made[j])
      <4>1. CASE sources[cand.id] = None
        <5>1. CASE i = cand.id
          BY <2>12, <2>16, <3>2, <4>1, <5>1
        <5>2. CASE j = cand.id
          BY <2>12, <2>16, <3>2, <4>1, <5>2, SameHandleIsMutual
        <5>3. CASE i # cand.id /\ j # cand.id
          BY <1>4, <2>12, <3>1, <3>2, <4>1, <5>3 DEF Unshared
        <5> QED
          BY <5>1, <5>2, <5>3
      <4>2. CASE sources[cand.id] # None
        BY <1>4, <2>13, <3>1, <3>2, <4>2 DEF Unshared
      <4> QED
        BY <4>1, <4>2
    <3>3. ASSUME NEW i \in DOMAIN made, NEW j \in Identities, sources[j] # None
          PROVE  Range(made[i]) \cap sources[j].refs \cap Handles = {}
      <4>1. CASE sources[cand.id] = None /\ i = cand.id
        BY <2>12, <2>16, <3>3, <4>1
      <4>2. CASE ~(sources[cand.id] = None /\ i = cand.id)
        BY <1>4, <2>12, <2>13, <3>1, <3>3, <4>2 DEF Unshared
      <4> QED
        BY <4>1, <4>2
    <3> QED
      BY <2>4, <2>8, <2>10, <3>2, <3>3 DEF Unshared
  <2>18. ASSUME NEW d \in Cycles \ {c} PROVE UnsharedBy(c, d)'
    <3>1. UnsharedBy(c, d)
      BY DEF TablesInv
    <3>2. \A j \in DOMAIN cycle[d].tx.made : ~SameHandle(cand.refs, cycle[d].tx.made[j])
      <4>1. CASE cycle[d].pc \in Storing
        BY <1>1, <1>2, <4>1 DEF Holders, InTransaction, Storing
      <4>2. CASE cycle[d].pc \notin Storing
        <5>1. cycle[d].tx = NoRows
          BY <1>0, <4>2 DEF Stands, AtWork
        <5> QED
          BY <5>1, NoRowsFacts
      <4> QED
        BY <4>1, <4>2
    <3>3. ASSUME NEW i \in DOMAIN made, NEW j \in DOMAIN cycle[d].tx.made
          PROVE  ~SameHandle(made[i], cycle[d].tx.made[j])
      <4>1. CASE sources[cand.id] = None /\ i = cand.id
        BY <2>12, <3>2, <4>1
      <4>2. CASE ~(sources[cand.id] = None /\ i = cand.id)
        BY <1>4, <2>12, <2>13, <3>1, <4>2 DEF UnsharedBy
      <4> QED
        BY <4>1, <4>2
    <3> QED
      BY <2>8, <2>9, <2>10, <3>3 DEF UnsharedBy
  <2> QED
    BY <2>4, <2>9, <2>15, <2>17, <2>18, TablesKept
<1> QED
  BY <1>5, <1>6

LEMMA CheckKeepsTables ==
  ASSUME DiscoveryInv, TablesInv, NEW c \in Cycles, CheckOwner(c)
  PROVE  TablesInv'
<1>0. CycleTypes /\ cycle[c] \in Cycle /\ cycle[c].pc = "check"
  BY InvFacts, CycleFacts DEF CheckOwner
<1>1. CASE Fails(c, FALSE)
  BY <1>0, <1>1, FailsKeepsTables DEF Active, Storing
<1>2. CASE Proceeds(c, "upsert") /\ UNCHANGED <<runs, sources, aliases>>
  <2>1. /\ cycle'[c] = [cycle[c] EXCEPT !.pc = "upsert"]
        /\ \A d \in Cycles \ {c} : cycle'[d] = cycle[d]
    BY <1>0, <1>2 DEF CycleTypes, Proceeds
  <2>2. cycle'[c].tx = cycle[c].tx /\ cycle'[c].owner = cycle[c].owner /\ cycle'[c].pc = "upsert"
    BY <1>0, <2>1 DEF Cycle
  <2>3. Named(c)'
    BY <1>0, <1>2, <2>2 DEF TablesInv, Named, HasSource
  <2> QED
    BY <1>2, <2>1, <2>2, <2>3, TablesKeptMakingNone
<1> QED
  BY <1>1, <1>2 DEF CheckOwner

LEMMA UpsertKeepsTables ==
  ASSUME DiscoveryInv, TablesInv, NEW c \in Cycles, Upsert(c)
  PROVE  TablesInv'
<1>0. CycleTypes /\ Stands(c)
  BY InvFacts
<1>1. /\ cycle[c].pc = "upsert" /\ cycle[c] \in Cycle /\ cycle[c].refs \in Seq(References)
      /\ cycle[c].refs # <<>> /\ cycle[c].owner \in Identities /\ cycle[c].tx.links \in MadeLinks
  BY <1>0, CycleFacts DEF Upsert, Stands, AtWork, Storing
<1>2. PICK s \in Cycle : s = cycle[c]
  BY <1>1
<1>3. PICK r \in References, owner \in Identities : r = Head(s.refs) /\ owner = s.owner
  <2>1. PICK refs \in Seq(References) : refs = s.refs /\ refs # <<>>
    BY <1>1, <1>2
  <2>2. Head(refs) \in References
    BY <2>1, HeadsAndTails
  <2> QED
    BY <1>1, <1>2, <2>1, <2>2
<1>4. PICK pc, rest : pc = (IF rest = <<>> THEN "complete" ELSE "check") /\ rest = Tail(s.refs)
  OBVIOUS
<1>5. PICK links : links = With(s.tx.links, r, owner)
  OBVIOUS
<1>6. /\ DOMAIN links = DOMAIN s.tx.links \cup {r} /\ links[r] = owner
      /\ \A q \in DOMAIN s.tx.links : q # r => links[q] = s.tx.links[q]
  <2>1. PICK f \in MadeLinks : f = s.tx.links
    BY <1>1, <1>2
  <2>2. /\ DOMAIN With(f, r, owner) = DOMAIN f \cup {r} /\ With(f, r, owner)[r] = owner
        /\ \A q \in DOMAIN f : q # r => With(f, r, owner)[q] = f[q]
    BY LinkFacts
  <2> QED
    BY <1>5, <2>1, <2>2
<1>7. /\ cycle' = [cycle EXCEPT ![c].pc = pc, ![c].refs = rest, ![c].tx.links = links]
      /\ UNCHANGED <<runs, sources, aliases>>
  BY <1>2, <1>3, <1>4, <1>5 DEF Upsert
<1>8. cycle' = [cycle EXCEPT ![c] = [s EXCEPT !.pc = pc, !.refs = rest, !.tx = [s.tx EXCEPT !.links = links]]]
  BY <1>2, <1>7
<1>9. PICK tx : tx = [s.tx EXCEPT !.links = links]
  OBVIOUS
<1>10. tx.made = s.tx.made /\ tx.links = links /\ tx.results = s.tx.results
  BY <1>9 DEF Cycle, Transaction
<1>11. /\ cycle'[c] = [s EXCEPT !.pc = pc, !.refs = rest, !.tx = tx]
       /\ \A d \in Cycles \ {c} : cycle'[d] = cycle[d]
  BY <1>0, <1>8, <1>9 DEF CycleTypes
<1>12. cycle'[c].tx = tx /\ cycle'[c].owner = owner
  BY <1>3, <1>11 DEF Cycle
<1>13. Named(c)'
  <2>1. HasSource(c, owner) /\ \A q \in DOMAIN s.tx.links : HasSource(c, s.tx.links[q])
    BY <1>1, <1>2, <1>3 DEF TablesInv, Named
  <2>2. \A q \in DOMAIN links : HasSource(c, links[q])
    BY <1>6, <2>1
  <2>3. \A x \in s.tx.results : HasSource(c, x.source)
    BY <1>2 DEF TablesInv, Named
  <2> QED
    BY <1>2, <1>7, <1>10, <1>12, <2>1, <2>2, <2>3 DEF Named, HasSource
<1> QED
  BY <1>2, <1>7, <1>10, <1>11, <1>12, <1>13, TablesKeptMakingNone

LEMMA RecordedResultsAreThere ==
  ASSUME TablesInv, NEW c \in Cycles, cycle[c].pc = "complete", NEW x \in RecordedResult(c)
  PROVE  HasSource(c, x.source)
<1>1. CASE x \in cycle[c].tx.results
  BY <1>1 DEF TablesInv, Named
<1>2. CASE cycle[c].todo # <<>> /\ x = [source |-> cycle[c].owner, created |-> cycle[c].new]
  BY <1>2 DEF TablesInv, Named
<1> QED
  BY <1>1, <1>2 DEF RecordedResult

LEMMA CommitKeepsTables ==
  ASSUME DiscoveryInv, TablesInv, NEW c \in Cycles, cycle[c].pc = "complete", Commits(c)
  PROVE  TablesInv'
<1>0. RowTypes /\ CycleTypes /\ Key(c) \in Keys /\ DOMAIN cycle[c].tx.made \subseteq Identities
  BY InvFacts, CycleFacts
<1>1. /\ runs'[Key(c)] # None /\ runs'[Key(c)].status = "completed"
      /\ runs'[Key(c)].results = RecordedResult(c)
      /\ \A k \in Keys : k # Key(c) => runs'[k] = runs[k]
  BY CommitWrites
<1>2. \A i \in Identities :
        IF i \in DOMAIN cycle[c].tx.made THEN sources'[i] # None ELSE sources'[i] = sources[i]
  BY CommitWrites
<1>3. \A r \in References :
        IF r \in DOMAIN cycle[c].tx.links THEN aliases'[r].source = cycle[c].tx.links[r]
        ELSE aliases'[r] = aliases[r]
  BY CommitWrites
<1>4. \A i \in DOMAIN cycle[c].tx.made : sources'[i].refs = Range(cycle[c].tx.made[i])
  BY <1>0 DEF Commits
<1>5. \A i \in Identities : HasSource(c, i) => sources'[i] # None
  BY <1>2 DEF HasSource
<1>6. \A i \in Identities : sources[i] # None => sources'[i] # None
  BY <1>2
<1>7. ResultsNameSources'
  <2>1. ASSUME NEW k \in Keys, runs'[k] # None, NEW x \in runs'[k].results
        PROVE  runs'[k].status = "completed" /\ sources'[x.source] # None
    <3>1. CASE k = Key(c)
      <4>1. x \in RecordedResult(c)
        BY <1>1, <2>1, <3>1
      <4>2. HasSource(c, x.source) /\ x.source \in Identities
        BY <4>1, RecordedResultsAreThere, ResultFacts DEF DiscoveryResults
      <4> QED
        BY <1>1, <1>5, <3>1, <4>2
    <3>2. CASE k # Key(c)
      <4>1. runs[k] # None /\ x \in runs[k].results /\ runs'[k] = runs[k]
        BY <1>1, <2>1, <3>2
      <4>2. x.source \in Identities
        BY <1>0, <4>1 DEF RowTypes, Run, DiscoveryResults
      <4> QED
        BY <1>6, <4>1, <4>2 DEF TablesInv, ResultsNameSources
    <3> QED
      BY <3>1, <3>2
  <2> QED
    BY <2>1 DEF ResultsNameSources
<1>8. HandlesAreUnique'
  <2>1. ASSUME NEW i \in Identities, NEW j \in Identities, i # j, sources'[i] # None, sources'[j] # None
        PROVE  sources'[i].refs \cap sources'[j].refs \cap Handles = {}
    <3>1. Unshared(c) /\ HandlesAreUnique
      BY DEF TablesInv
    <3>2. CASE i \in DOMAIN cycle[c].tx.made /\ j \in DOMAIN cycle[c].tx.made
      <4>1. ~SameHandle(cycle[c].tx.made[i], cycle[c].tx.made[j])
        BY <2>1, <3>1, <3>2 DEF Unshared
      <4> QED
        BY <1>4, <3>2, <4>1 DEF SameHandle
    <3>3. CASE i \in DOMAIN cycle[c].tx.made /\ j \notin DOMAIN cycle[c].tx.made
      <4>1. sources'[j] = sources[j] /\ sources[j] # None
        BY <1>2, <2>1, <3>3
      <4>2. Range(cycle[c].tx.made[i]) \cap sources[j].refs \cap Handles = {}
        BY <3>1, <3>3, <4>1 DEF Unshared
      <4> QED
        BY <1>4, <3>3, <4>1, <4>2
    <3>4. CASE i \notin DOMAIN cycle[c].tx.made /\ j \in DOMAIN cycle[c].tx.made
      <4>1. sources'[i] = sources[i] /\ sources[i] # None
        BY <1>2, <2>1, <3>4
      <4>2. Range(cycle[c].tx.made[j]) \cap sources[i].refs \cap Handles = {}
        BY <3>1, <3>4, <4>1 DEF Unshared
      <4> QED
        BY <1>4, <3>4, <4>1, <4>2
    <3>5. CASE i \notin DOMAIN cycle[c].tx.made /\ j \notin DOMAIN cycle[c].tx.made
      BY <1>2, <2>1, <3>1, <3>5 DEF HandlesAreUnique
    <3> QED
      BY <3>2, <3>3, <3>4, <3>5
  <2> QED
    BY <2>1 DEF HandlesAreUnique
<1>9. AliasesNameSources'
  <2>1. ASSUME NEW r \in References, aliases'[r] # None PROVE sources'[aliases'[r].source] # None
    <3>1. CASE r \in DOMAIN cycle[c].tx.links
      <4>1. HasSource(c, cycle[c].tx.links[r])
        BY <3>1 DEF TablesInv, Named
      <4>2. cycle[c].tx.links[r] \in Identities
        <5>1. PICK S \in SUBSET References : cycle[c].tx.links \in [S -> Identities]
          BY <1>0, CycleFacts DEF MadeLinks
        <5> QED
          BY <3>1, <5>1
      <4> QED
        BY <1>3, <1>5, <3>1, <4>1, <4>2
    <3>2. CASE r \notin DOMAIN cycle[c].tx.links
      <4>1. aliases'[r] = aliases[r] /\ aliases[r] # None
        BY <1>3, <2>1, <3>2
      <4>2. aliases[r].source \in Identities /\ sources[aliases[r].source] # None
        BY <1>0, <4>1 DEF RowTypes, Alias, TablesInv, AliasesNameSources
      <4> QED
        BY <1>6, <4>1, <4>2
    <3> QED
      BY <3>1, <3>2
  <2> QED
    BY <2>1 DEF AliasesNameSources
<1>10. PICK new \in Cycle :
        /\ cycle' = [cycle EXCEPT ![c] = new]
        /\ new.pc \in {"start", "done", "aborted"} /\ new.tx = NoRows
        /\ new.at \in 1..Len(Plan[c])
  BY <1>0, AfterTheRun DEF Commits
<1>11. cycle'[c] = new /\ \A d \in Cycles \ {c} : cycle'[d] = cycle[d]
  BY <1>0, <1>10 DEF CycleTypes
<1>12. DOMAIN cycle'[c].tx.made = {} /\ DOMAIN cycle'[c].tx.links = {} /\ cycle'[c].tx.results = {}
  BY <1>10, <1>11, NoRowsFacts
<1>13. Named(c)' /\ Unshared(c)'
  BY <1>10, <1>11, <1>12 DEF Named, Unshared
<1>14. ASSUME NEW d \in Cycles \ {c} PROVE Named(d)' /\ Unshared(d)'
  <2>1. Named(d) /\ Unshared(d) /\ UnsharedBy(d, c) /\ cycle'[d] = cycle[d]
    BY <1>11 DEF TablesInv
  <2>2. \A i \in Identities : HasSource(d, i) => i \in DOMAIN cycle'[d].tx.made \/ sources'[i] # None
    BY <1>6, <2>1 DEF HasSource
  <2>3. Named(d)'
    <3>1. \A r \in DOMAIN cycle[d].tx.links : cycle[d].tx.links[r] \in Identities
      <4>1. PICK S \in SUBSET References : cycle[d].tx.links \in [S -> Identities]
        BY <1>0, CycleFacts DEF MadeLinks
      <4> QED
        BY <4>1
    <3>2. \A x \in cycle[d].tx.results : x.source \in Identities
      BY <1>0, CycleFacts DEF DiscoveryResults
    <3>3. cycle[d].pc \in {"check", "upsert"} \/ (cycle[d].pc = "complete" /\ cycle[d].todo # <<>>) =>
            cycle[d].owner \in Identities
      BY InvFacts DEF Stands, AtWork
    <3> QED
      BY <2>1, <2>2, <3>1, <3>2, <3>3 DEF Named, HasSource
  <2>4. Unshared(d)'
    <3>1. ASSUME NEW i \in DOMAIN cycle[d].tx.made, NEW j \in Identities, sources'[j] # None
          PROVE  Range(cycle[d].tx.made[i]) \cap sources'[j].refs \cap Handles = {}
      <4>1. CASE j \in DOMAIN cycle[c].tx.made
        <5>1. ~SameHandle(cycle[d].tx.made[i], cycle[c].tx.made[j])
          BY <2>1, <4>1 DEF UnsharedBy
        <5> QED
          BY <1>4, <4>1, <5>1 DEF SameHandle
      <4>2. CASE j \notin DOMAIN cycle[c].tx.made
        BY <1>2, <2>1, <3>1, <4>2 DEF Unshared
      <4> QED
        BY <4>1, <4>2
    <3>2. \A i, j \in DOMAIN cycle[d].tx.made :
            i # j => ~SameHandle(cycle[d].tx.made[i], cycle[d].tx.made[j])
      BY <2>1 DEF Unshared
    <3> QED
      BY <2>1, <3>1, <3>2 DEF Unshared
  <2> QED
    BY <2>3, <2>4
<1>15. ASSUME NEW d \in Cycles \ {c} PROVE UnsharedBy(c, d)' /\ UnsharedBy(d, c)'
  BY <1>12 DEF UnsharedBy
<1>16. ASSUME NEW d \in Cycles \ {c}, NEW e \in Cycles \ {c}, d # e PROVE UnsharedBy(d, e)'
  BY <1>11, <1>16 DEF TablesInv, UnsharedBy
<1> QED
  BY <1>7, <1>8, <1>9, <1>13, <1>14, <1>15, <1>16 DEF TablesInv

LEMMA CompleteKeepsTables ==
  ASSUME DiscoveryInv, TablesInv, NEW c \in Cycles, Complete(c)
  PROVE  TablesInv'
<1>0. CycleTypes /\ cycle[c] \in Cycle /\ cycle[c].pc = "complete"
  BY InvFacts, CycleFacts DEF Complete
<1>1. CASE ~(Len(cycle[c].todo) > 1)
  <2>1. Commits(c)
    BY <1>1 DEF Complete, Commits
  <2> QED
    BY <1>0, <2>1, CommitKeepsTables
<1>2. CASE Len(cycle[c].todo) > 1
  <2>1. PICK s \in Cycle : s = cycle[c]
    BY <1>0
  <2>2. PICK pc, results, rest : pc = "look" /\ results = RecordedResult(c) /\ rest = Tail(s.todo)
    OBVIOUS
  <2>3. /\ cycle' = [cycle EXCEPT ![c].pc = pc, ![c].todo = rest, ![c].tx.results = results]
        /\ UNCHANGED <<runs, sources, aliases>>
    BY <1>2, <2>1, <2>2 DEF Complete
  <2>4. cycle' = [cycle EXCEPT ![c] = [s EXCEPT !.pc = pc, !.todo = rest,
                                                !.tx = [s.tx EXCEPT !.results = results]]]
    BY <2>1, <2>3
  <2>5. PICK tx : tx = [s.tx EXCEPT !.results = results]
    OBVIOUS
  <2>6. tx.made = s.tx.made /\ tx.links = s.tx.links /\ tx.results = results
    BY <2>5 DEF Cycle, Transaction
  <2>7. /\ cycle'[c] = [s EXCEPT !.pc = pc, !.todo = rest, !.tx = tx]
        /\ \A d \in Cycles \ {c} : cycle'[d] = cycle[d]
    BY <1>0, <2>4, <2>5 DEF CycleTypes
  <2>8. cycle'[c].tx = tx /\ cycle'[c].pc = "look"
    BY <2>2, <2>7 DEF Cycle
  <2>9. Named(c)'
    <3>1. \A x \in results : HasSource(c, x.source)
      BY <1>0, <2>2, RecordedResultsAreThere
    <3>2. \A r \in DOMAIN s.tx.links : HasSource(c, s.tx.links[r])
      BY <2>1 DEF TablesInv, Named
    <3> QED
      BY <2>1, <2>3, <2>6, <2>8, <3>1, <3>2 DEF Named, HasSource
  <2> QED
    BY <2>1, <2>3, <2>6, <2>7, <2>8, <2>9, TablesKeptMakingNone
<1> QED
  BY <1>1, <1>2

LEMMA InitTables == DiscoveryInit => TablesInv
<1> SUFFICES ASSUME DiscoveryInit PROVE TablesInv
  OBVIOUS
<1>1. ResultsNameSources /\ HandlesAreUnique /\ AliasesNameSources
  BY DEF DiscoveryInit, ResultsNameSources, HandlesAreUnique, AliasesNameSources
<1>2. \A c \in Cycles : cycle[c].pc = "start" /\ cycle[c].tx = NoRows
  BY FreshFacts DEF DiscoveryInit
<1>3. \A c \in Cycles : Named(c) /\ Unshared(c)
  BY <1>2, NoRowsFacts DEF Named, Unshared
<1>4. \A c, d \in Cycles : UnsharedBy(c, d)
  BY <1>2, NoRowsFacts DEF UnsharedBy
<1> QED
  BY <1>1, <1>3, <1>4 DEF TablesInv

LEMMA NextTables == DiscoveryInv /\ TablesInv /\ [DiscoveryNext]_discoveryVars => TablesInv'
<1> SUFFICES ASSUME DiscoveryInv, TablesInv, [DiscoveryNext]_discoveryVars PROVE TablesInv'
  OBVIOUS
<1>1. CASE UNCHANGED discoveryVars
  BY <1>1 DEF discoveryVars, TablesInv, ResultsNameSources, HandlesAreUnique, AliasesNameSources,
              Named, Unshared, UnsharedBy, HasSource
<1>2. ASSUME NEW c \in Cycles, Start(c) PROVE TablesInv'
  BY <1>2, StartKeepsTables
<1>3. ASSUME NEW c \in Cycles, GraphDiscovers(c) \/ TelegramDiscovers(c) \/ WebDiscovers(c)
      PROVE  TablesInv'
  <2>1. cycle[c].pc = "discover" /\ cycle[c].pc \in Active
    BY <1>3 DEF GraphDiscovers, TelegramDiscovers, WebDiscovers, Active
  <2>2. (\E batch : Finds(c, batch)) \/ (\E flood : Fails(c, flood))
    BY <1>3 DEF GraphDiscovers, TelegramDiscovers, WebDiscovers
  <2> QED
    BY <2>1, <2>2, FindsKeepsTables, FailsKeepsTables
<1>4. ASSUME NEW c \in Cycles, Look(c) PROVE TablesInv'
  BY <1>4, LookKeepsTables
<1>5. ASSUME NEW c \in Cycles, Create(c) PROVE TablesInv'
  BY <1>5, CreateKeepsTables
<1>6. ASSUME NEW c \in Cycles, CheckOwner(c) PROVE TablesInv'
  BY <1>6, CheckKeepsTables
<1>7. ASSUME NEW c \in Cycles, Upsert(c) PROVE TablesInv'
  BY <1>7, UpsertKeepsTables
<1>8. ASSUME NEW c \in Cycles, Complete(c) PROVE TablesInv'
  BY <1>8, CompleteKeepsTables
<1>9. ASSUME NEW c \in Cycles, DeadlockDetected(c) PROVE TablesInv'
  <2>1. Holders(c) # {} /\ Fails(c, FALSE)
    BY <1>9 DEF DeadlockDetected, InDeadlock
  <2>2. cycle[c].pc \in Active
    BY <2>1 DEF Holders, Active, Storing
  <2> QED
    BY <2>1, <2>2, FailsKeepsTables
<1>10. ASSUME NEW c \in Cycles, Dies(c) PROVE TablesInv'
  BY <1>10, LeavingKeepsTables DEF Dies
<1> QED
  BY <1>1, <1>2, <1>3, <1>4, <1>5, <1>6, <1>7, <1>8, <1>9, <1>10 DEF DiscoveryNext

(* The tables of discovery hold what their constraints say: results name   *)
(* runs that completed and sources that exist, references name sources, a  *)
(* username belongs to one source, and a transaction leaves nothing behind.*)
THEOREM DiscoveryTypeCorrect == DiscoverySpec => []DiscoveryTypes
<1>1. DiscoverySpec => []TablesInv
  BY InitTables, NextTables, DiscoveryStaysSafe, PTL DEF DiscoverySpec
<1>2. DiscoveryInv /\ TablesInv => DiscoveryTypes
  <2> SUFFICES ASSUME DiscoveryInv, TablesInv PROVE DiscoveryTypes
    OBVIOUS
  <2>1. RowTypes /\ CycleTypes /\ \A c \in Cycles : Stands(c)
    BY InvFacts
  <2>2. DiscoveryRuns /\ SourceIdentities /\ ReferenceAliases
    BY <2>1 DEF RowTypes, TablesInv, ResultsNameSources, HandlesAreUnique, AliasesNameSources,
                DiscoveryRuns, SourceIdentities, ReferenceAliases
  <2>3. ASSUME NEW c \in Cycles
        PROVE  /\ cycle[c].tx.results \subseteq DiscoveryResults
               /\ ~InTransaction(c) => cycle[c].tx = NoRows
               /\ InTransaction(c) => runs[Key(c)].status = "running"
    BY <2>1, CycleFacts DEF Stands, AtWork, RunIsOpen, InTransaction, Active, Storing
  <2> QED
    BY <2>2, <2>3 DEF DiscoveryTypes
<1> QED
  BY <1>1, <1>2, DiscoveryStaysSafe, PTL

=============================================================================
