------------------------ MODULE SubscriptionProofs ------------------------
(***************************************************************************)
(* Proofs about Subscription, for any number of database connections, any  *)
(* finite set of notifications the provider may send, any length of the    *)
(* trial and any clock.                                                    *)
(***************************************************************************)
EXTENDS Subscription, FiniteSetTheorems, WellFoundedInduction, TLAPS

-----------------------------------------------------------------------------
(* The projection of trial and periods on a state                          *)

LEMMA PaymentsAreFinite == IsFiniteSet(Payments)
<1> DEFINE payment == [e \in Offers |-> e.payment]
<1>1. payment \in Surjection(Offers, Payments)
  BY DEF Surjection, Payments
<1> HIDE DEF payment
<1> QED
  BY <1>1, FS_Surjection, OffersAreEvents

(* Of the active periods there is one that ends last, and starts last      *)
(* among those: the one with the fewest later ones.                        *)
LEMMA LatestPeriodIsActive ==
  ASSUME NEW rows \in [Payments -> Offers \cup {None}],
         NEW active \in SUBSET Payments, active # {},
         \A p \in active : rows[p] # None
  PROVE  LatestPeriod(rows, active) \in active
<1> DEFINE Late(p, q) == \/ rows[p].to > rows[q].to
                         \/ rows[p].to = rows[q].to /\ rows[p].from >= rows[q].from
           later == [p \in active |-> {q \in active : ~Late(p, q)}]
           ranks == {Cardinality(later[p]) : p \in active}
<1>1. \A p \in active : rows[p].to \in Int /\ rows[p].from \in Int
  BY OffersAreEvents
<1>2. \A p \in active : later[p] \subseteq active /\ p \notin later[p]
  BY <1>1
<1>3. \A p \in active : \A q \in later[p] : later[q] \subseteq later[p]
  BY <1>1
<1>4. IsFiniteSet(active)
  BY PaymentsAreFinite, FS_Subset
<1>5. \A p \in active : IsFiniteSet(later[p]) /\ Cardinality(later[p]) \in Nat
  BY <1>2, <1>4, FS_Subset, FS_CardinalityType
<1>6. PICK p \in active : \A q \in active : ~(Cardinality(later[q]) < Cardinality(later[p]))
  <2>1. ranks \in SUBSET Nat /\ ranks # {}
    BY <1>5
  <2> HIDE DEF ranks
  <2>2. PICK n \in ranks : \A m \in ranks : <<m, n>> \notin OpToRel(<, Nat)
    BY <2>1, WFMin, NatLessThanWellFounded
  <2>3. \A m \in ranks : ~(m < n)
    BY <2>1, <2>2 DEF OpToRel
  <2> QED
    BY <2>3 DEF ranks
<1>7. later[p] = {}
  <2> SUFFICES ASSUME NEW q \in later[p] PROVE FALSE
    OBVIOUS
  <2>1. q \in active /\ later[q] \in SUBSET later[p] /\ later[q] # later[p]
    BY <1>2, <1>3
  <2> HIDE DEF later
  <2>2. Cardinality(later[q]) < Cardinality(later[p])
    BY <1>5, <2>1, FS_Subset
  <2> QED
    BY <1>6, <2>1, <2>2
<1>8. \A q \in active : Late(p, q)
  BY <1>7
<1>9. \E m \in active : \A q \in active :
        \/ rows[m].to > rows[q].to
        \/ rows[m].to = rows[q].to /\ rows[m].from >= rows[q].from
  BY <1>8
<1> QED
  BY <1>9 DEF LatestPeriod

NaturalStates == {"trial_not_started", "trial_active", "paid_active", "expired"}

Active(rows, at) == {p \in Payments : rows[p] # None /\ Covers(rows[p], at)}

(* The three cases of _natural_projection.                                 *)
LEMMA ProjectionCases ==
  ASSUME NEW rows \in [Payments -> Offers \cup {None}], NEW started, NEW at
  PROVE  LET natural == NaturalProjection(started, rows, at)
         IN  /\ natural = [state |-> natural.state, period |-> natural.period]
             /\ natural.state \in NaturalStates
             /\ Active(rows, at) # {} =>
                  natural.state = "paid_active" /\ natural.period \in Active(rows, at)
             /\ Active(rows, at) = {} /\ started # None =>
                  /\ natural.period = None
                  /\ natural.state = IF InTrial(started, at) THEN "trial_active" ELSE "expired"
             /\ Active(rows, at) = {} /\ started = None =>
                  natural.period = None /\ natural.state \in {"expired", "trial_not_started"}
<1> DEFINE paid == {p \in Payments : rows[p] # None}
           active == {p \in paid : Covers(rows[p], at)}
           natural == NaturalProjection(started, rows, at)
<1>1. active = Active(rows, at)
  BY DEF Active
<1>2. natural =
        CASE active # {} -> [state |-> "paid_active", period |-> LatestPeriod(rows, active)]
          [] active = {} /\ started # None ->
               [state |-> IF InTrial(started, at) THEN "trial_active" ELSE "expired",
                period |-> None]
          [] OTHER -> [state |-> IF paid # {} THEN "expired" ELSE "trial_not_started",
                       period |-> None]
  BY DEF NaturalProjection
<1>3. active # {} => LatestPeriod(rows, active) \in active
  BY LatestPeriodIsActive
<1> HIDE DEF natural, active, paid
<1>4. CASE active # {}
  <2>1. natural = [state |-> "paid_active", period |-> LatestPeriod(rows, active)]
    BY <1>2, <1>4
  <2> QED
    BY <1>1, <1>3, <1>4, <2>1 DEF NaturalStates, natural
<1>5. CASE active = {} /\ started # None
  <2>1. natural = [state |-> IF InTrial(started, at) THEN "trial_active" ELSE "expired",
                   period |-> None]
    BY <1>2, <1>5
  <2> QED
    BY <1>1, <1>5, <2>1 DEF NaturalStates, natural
<1>6. CASE active = {} /\ started = None
  <2>1. natural = [state |-> IF paid # {} THEN "expired" ELSE "trial_not_started",
                   period |-> None]
    BY <1>2, <1>6
  <2> QED
    BY <1>1, <1>6, <2>1 DEF NaturalStates, natural
<1> QED
  BY <1>4, <1>5, <1>6

(* A row the projection fits: its state is a natural one, and it names a   *)
(* stored period exactly when it is paid.                                  *)
Fits(row, rows) ==
  /\ row.state \in States
  /\ row.period \in Payments \cup {None}
  /\ row.state = "paid_active" <=> row.period # None
  /\ row.period # None => rows[row.period] # None

LEMMA ProjectionFits ==
  ASSUME NEW rows \in [Payments -> Offers \cup {None}], NEW started, NEW at
  PROVE  Fits(NaturalProjection(started, rows, at), rows)
<1> DEFINE natural == NaturalProjection(started, rows, at)
<1>1. /\ natural.state \in NaturalStates
      /\ Active(rows, at) # {} =>
           natural.state = "paid_active" /\ natural.period \in Active(rows, at)
      /\ Active(rows, at) = {} => natural.period = None /\ natural.state # "paid_active"
  BY ProjectionCases
<1> HIDE DEF natural
<1>2. None \notin Payments
  BY OffersAreEvents
<1>3. Fits(natural, rows)
  BY <1>1, <1>2 DEF Fits, Active, NaturalStates, States
<1> QED
  BY <1>3 DEF natural

-----------------------------------------------------------------------------
(* The rows that the operations write                                      *)

(* One more version, in a state the projection gives or a stopped one.     *)
NextRow(row, before, rows) ==
  row \in SubscriptionState /\ row.version = before.version + 1 /\ Fits(row, rows)

LEMMA RowOfProjection ==
  ASSUME NEW rows \in [Payments -> Offers \cup {None}], NEW started, NEW at,
         NEW before \in SubscriptionState
  PROVE  NextRow(Row(NaturalProjection(started, rows, at), before.version + 1), before, rows)
<1> DEFINE natural == NaturalProjection(started, rows, at)
<1>1. Fits(natural, rows)
  BY ProjectionFits
<1> HIDE DEF natural
<1>2. before.version + 1 \in Nat
  BY DEF SubscriptionState
<1>3. NextRow(Row(natural, before.version + 1), before, rows)
  BY <1>1, <1>2 DEF NextRow, Row, Fits, SubscriptionState
<1> QED
  BY <1>3 DEF natural

LEMMA ReconciledRow ==
  ASSUME NEW rows \in [Payments -> Offers \cup {None}], NEW started, NEW at,
         NEW row \in SubscriptionState
  PROVE  \/ Reconciled(row, started, rows, at) = row /\ row # NoSub
         \/ /\ row.state \notin Stopped
            /\ NextRow(Reconciled(row, started, rows, at), row, rows)
            /\ Reconciled(row, started, rows, at)
                 = Row(NaturalProjection(started, rows, at), row.version + 1)
<1> DEFINE natural == NaturalProjection(started, rows, at)
           after == Reconciled(row, started, rows, at)
<1>1. after = IF row = NoSub THEN Row(natural, 1)
              ELSE IF row.state \in Stopped \/ SameProjection(row, natural) THEN row
              ELSE Row(natural, row.version + 1)
  BY DEF Reconciled, Transition
<1>2. NextRow(Row(natural, row.version + 1), row, rows)
  BY RowOfProjection
<1> HIDE DEF natural, after
<1>3. CASE row = NoSub
  <2>1. after = Row(natural, row.version + 1) /\ row.state \notin Stopped
    BY <1>1, <1>3 DEF NoSub, Stopped
  <2> QED
    BY <1>2, <2>1 DEF after, natural
<1>4. CASE row # NoSub
  BY <1>1, <1>2, <1>4 DEF after, natural
<1> QED
  BY <1>3, <1>4

-----------------------------------------------------------------------------
(* What the open transactions hold                                         *)

(* Only a webhook holds evidence: an event it inserted is stored by nobody *)
(* yet, nor is a period, and what it found stored is still there.          *)
EvidenceHeld ==
  \A t \in Tx :
    /\ tx[t].op = "none" <=> tx[t].step = "none"
    /\ tx[t].step \in {"evidenced", "paid"} => tx[t].op = "webhook"
    /\ tx[t].step = "paid" => tx[t].offer.status = "succeeded"
    /\ tx[t].newEvent => tx[t].step \in {"evidenced", "paid"} /\ event[tx[t].offer.id] = None
    /\ tx[t].newPeriod => tx[t].step = "paid" /\ period[tx[t].offer.payment] = None
    /\ tx[t].step \in {"evidenced", "paid"} /\ ~tx[t].newEvent =>
         event[tx[t].offer.id] = tx[t].offer
    /\ tx[t].op = "none" => tx[t] = NoTx

(* The unique keys let one open transaction insert an event or a period.   *)
KeysAreHeldOnce ==
  \A t, u \in Tx : t # u =>
    /\ tx[t].newEvent /\ tx[u].newEvent => tx[t].offer.id # tx[u].offer.id
    /\ tx[t].newPeriod /\ tx[u].newPeriod => tx[t].offer.payment # tx[u].offer.payment

(* The types of the evidence and of the transactions.                      *)
EvidenceTypes ==
  /\ event \in [EventIds -> Offers \cup {None}] /\ period \in [Payments -> Offers \cup {None}]
  /\ tx \in [Tx -> Transaction]
  /\ \A t \in Tx : tx[t].offer # None <=> tx[t].op = "webhook"

(* What a step of a transaction does to it and to the evidence.            *)
Started(t) ==
  /\ tx[t] = NoTx
  /\ tx'[t] \in Transaction /\ tx'[t].op # "none" /\ tx'[t].step = "begun"
  /\ ~tx'[t].newEvent /\ ~tx'[t].newPeriod
  /\ tx'[t].offer # None <=> tx'[t].op = "webhook"
  /\ UNCHANGED <<event, period>>
EventInserted(t) ==
  /\ Open(t, "webhook", "begun") /\ event[tx[t].offer.id] \in {None, tx[t].offer}
  /\ event[tx[t].offer.id] = None =>
       \A u \in Tx : u # t /\ tx[u].newEvent => tx[u].offer.id # tx[t].offer.id
  /\ tx'[t] = [tx[t] EXCEPT !.step = "evidenced", !.newEvent = event[tx[t].offer.id] = None]
  /\ UNCHANGED <<event, period>>
PeriodInserted(t) ==
  /\ Open(t, "webhook", "evidenced") /\ tx[t].offer.status = "succeeded"
  /\ period[tx[t].offer.payment] = None =>
       \A u \in Tx : u # t /\ tx[u].newPeriod => tx[u].offer.payment # tx[t].offer.payment
  /\ tx'[t] = [tx[t] EXCEPT !.step = "paid", !.newPeriod = period[tx[t].offer.payment] = None]
  /\ UNCHANGED <<event, period>>
Ended(t) ==
  tx'[t] = NoTx /\ UNCHANGED <<event, period>>
EvidenceCommitted(t) ==
  /\ tx'[t] = NoTx
  /\ event' = IF tx[t].newEvent THEN [event EXCEPT ![tx[t].offer.id] = tx[t].offer] ELSE event
  /\ period' = IF tx[t].newPeriod THEN [period EXCEPT ![tx[t].offer.payment] = tx[t].offer]
               ELSE period

Moves(t) ==
  /\ \A u \in Tx : u # t => tx'[u] = tx[u]
  /\ tx' \in [Tx -> Transaction]
  /\ Started(t) \/ EventInserted(t) \/ PeriodInserted(t) \/ Ended(t) \/ EvidenceCommitted(t)

LEMMA NoTxIsATransaction == MaxTime \in Nat => NoTx \in Transaction
BY DEF NoTx, Transaction, Time

LEMMA BoundsOfTime == MaxTime \in Nat /\ MaxCommands \in Nat /\ TrialDays \in Nat \ {0}
BY BoundsAreNaturals

LEMMA BeginningMoves ==
  ASSUME EvidenceTypes, now \in Time, NEW t \in Tx,
         NEW op \in {"check", "webhook", "activate", "pause", "cancel", "resume"},
         NEW offer \in Offers \cup {None}, offer # None <=> op = "webhook", Begins(t, op, offer)
  PROVE  Moves(t)
<1> DEFINE new == [NoTx EXCEPT !.op = op, !.step = "begun", !.started = now, !.offer = offer]
<1>1. tx[t] = NoTx /\ tx' = [tx EXCEPT ![t] = new] /\ UNCHANGED <<event, period>>
  BY DEF Begins
<1>2. /\ new \in Transaction /\ new.op = op /\ new.step = "begun" /\ new.offer = offer
      /\ ~new.newEvent /\ ~new.newPeriod
  BY DEF NoTx, Transaction
<1> HIDE DEF new
<1>3. tx'[t] = new /\ tx' \in [Tx -> Transaction] /\ \A u \in Tx : u # t => tx'[u] = tx[u]
  BY <1>1, <1>2 DEF EvidenceTypes
<1> QED
  BY <1>1, <1>2, <1>3 DEF Moves, Started

LEMMA RollingBackMoves ==
  ASSUME EvidenceTypes, NEW t \in Tx, RollsBack(t)
  PROVE  Moves(t)
<1>1. tx' = [tx EXCEPT ![t] = NoTx] /\ UNCHANGED <<event, period>>
  BY DEF RollsBack
<1>2. /\ tx'[t] = NoTx /\ tx' \in [Tx -> Transaction]
      /\ \A u \in Tx : u # t => tx'[u] = tx[u]
  BY <1>1, NoTxIsATransaction, BoundsOfTime DEF EvidenceTypes
<1> QED
  BY <1>1, <1>2 DEF Moves, Ended

LEMMA CommittingMoves ==
  ASSUME EvidenceTypes, NEW t \in Tx, NEW row, Commits(t, row)
  PROVE  Moves(t)
<1>1. tx' = [tx EXCEPT ![t] = NoTx]
  BY DEF Commits
<1>2. /\ tx'[t] = NoTx /\ tx' \in [Tx -> Transaction]
      /\ \A u \in Tx : u # t => tx'[u] = tx[u]
  BY <1>1, NoTxIsATransaction, BoundsOfTime DEF EvidenceTypes
<1> QED
  BY <1>2 DEF Moves, EvidenceCommitted, Commits, SeenPeriods

LEMMA RecordingEventMoves ==
  ASSUME EvidenceTypes, NEW t \in Tx, RecordsEvent(t)
  PROVE  Moves(t)
<1> DEFINE offer == tx[t].offer
<1>1. Open(t, "webhook", "begun") /\ ~Blocked(t)
  BY DEF RecordsEvent
<1>2. CASE event[offer.id] \in {None, offer}
  <2> DEFINE new == [tx[t] EXCEPT !.step = "evidenced", !.newEvent = event[offer.id] = None]
  <2>1. tx' = [tx EXCEPT ![t] = new] /\ UNCHANGED <<event, period>>
    BY <1>2 DEF RecordsEvent
  <2>2. new \in Transaction
    BY DEF EvidenceTypes, Transaction
  <2>3. tx'[t] = new /\ tx' \in [Tx -> Transaction] /\ \A u \in Tx : u # t => tx'[u] = tx[u]
    BY <2>1, <2>2 DEF EvidenceTypes
  <2>4. \A u \in Tx : u # t /\ tx[u].newEvent => tx[u].offer.id # offer.id
    BY <1>1 DEF Blocked, WaitsFor
  <2> QED
    BY <1>1, <1>2, <2>1, <2>3, <2>4 DEF Moves, EventInserted
<1>3. CASE event[offer.id] \notin {None, offer}
  BY <1>3, RollingBackMoves DEF RecordsEvent
<1> QED
  BY <1>2, <1>3

LEMMA RecordingPeriodMoves ==
  ASSUME EvidenceTypes, NEW t \in Tx, RecordsPeriod(t)
  PROVE  Moves(t)
<1> DEFINE offer == tx[t].offer
           stored == period[offer.payment]
<1>1. Open(t, "webhook", "evidenced") /\ ~Blocked(t) /\ offer.status = "succeeded"
  BY DEF RecordsPeriod
<1>2. CASE stored = None \/ SamePeriod(stored, offer)
  <2> DEFINE new == [tx[t] EXCEPT !.step = "paid", !.newPeriod = stored = None]
  <2>1. tx' = [tx EXCEPT ![t] = new] /\ UNCHANGED <<event, period>>
    BY <1>2 DEF RecordsPeriod
  <2>2. new \in Transaction
    BY DEF EvidenceTypes, Transaction
  <2>3. tx'[t] = new /\ tx' \in [Tx -> Transaction] /\ \A u \in Tx : u # t => tx'[u] = tx[u]
    BY <2>1, <2>2 DEF EvidenceTypes
  <2>4. \A u \in Tx : u # t /\ tx[u].newPeriod => tx[u].offer.payment # offer.payment
    BY <1>1 DEF Blocked, WaitsFor
  <2> QED
    BY <1>1, <2>1, <2>3, <2>4 DEF Moves, PeriodInserted
<1>3. CASE ~(stored = None \/ SamePeriod(stored, offer))
  BY <1>3, RollingBackMoves DEF RecordsPeriod
<1> QED
  BY <1>2, <1>3

LEMMA StoppingMoves ==
  ASSUME EvidenceTypes, NEW t \in Tx, Pauses(t) \/ Cancels(t)
  PROVE  Moves(t)
<1>1. tx' = [tx EXCEPT ![t] = NoTx] /\ UNCHANGED <<event, period>>
  BY DEF Pauses, Cancels, Stops, RollsBack
<1>2. /\ tx'[t] = NoTx /\ tx' \in [Tx -> Transaction]
      /\ \A u \in Tx : u # t => tx'[u] = tx[u]
  BY <1>1, NoTxIsATransaction, BoundsOfTime DEF EvidenceTypes
<1> QED
  BY <1>1, <1>2 DEF Moves, Ended

(* Every step is one of the clock, or moves one transaction.               *)
LEMMA EveryStepMoves ==
  ASSUME EvidenceTypes, now \in Time, [Next]_vars
  PROVE  UNCHANGED <<tx, event, period>> \/ \E t \in Tx : Moves(t)
<1>1. CASE UNCHANGED vars
  BY <1>1 DEF vars
<1>2. CASE Tick
  BY <1>2 DEF Tick
<1>3. ASSUME NEW t \in Tx, BeginsCheck(t) \/ BeginsWebhook(t) \/ BeginsCommand(t)
      PROVE  Moves(t)
  <2>0. None \notin Offers
    BY OffersAreEvents
  <2>1. CASE BeginsCheck(t)
    BY <2>1, BeginningMoves DEF BeginsCheck
  <2>2. CASE BeginsWebhook(t)
    BY <2>0, <2>2, BeginningMoves DEF BeginsWebhook
  <2>3. CASE BeginsCommand(t)
    <3>1. PICK op \in {"activate", "pause", "cancel", "resume"} : Begins(t, op, None)
      BY <2>3 DEF BeginsCommand
    <3> QED
      BY <3>1, BeginningMoves
  <2> QED
    BY <1>3, <2>1, <2>2, <2>3
<1>4. ASSUME NEW t \in Tx, Steps(t)
      PROVE  Moves(t)
  BY <1>4, RecordingEventMoves, RecordingPeriodMoves, CommittingMoves, StoppingMoves
     DEF Steps, RecordsUnpaidEvent, ConfirmsPayment, Checks, Activates, Resumes
<1>5. ASSUME NEW t \in Tx, DeadlockAborts(t) \/ Fails(t)
      PROVE  Moves(t)
  BY <1>5, RollingBackMoves DEF DeadlockAborts, Fails
<1> QED
  BY <1>1, <1>2, <1>3, <1>4, <1>5 DEF Next

-----------------------------------------------------------------------------
(* The evidence: events, periods and what the transactions hold of them    *)

EvidenceInv ==
  /\ EvidenceTypes /\ EvidenceHeld /\ KeysAreHeldOnce
  /\ PaymentProviderEvents /\ SubscriptionPeriods

LEMMA OfferHasKeys ==
  ASSUME NEW offer \in Offers
  PROVE  offer.id \in EventIds /\ offer.payment \in Payments
BY DEF EventIds, Payments

(* A transaction that holds evidence has the notification it is about.     *)
LEMMA HolderHasOffer ==
  ASSUME EvidenceInv, NEW t \in Tx, tx[t].step \in {"evidenced", "paid"}
  PROVE  tx[t].offer \in Offers /\ tx[t].offer.id \in EventIds /\ tx[t].offer.payment \in Payments
<1>1. tx[t].op = "webhook"
  BY DEF EvidenceInv, EvidenceHeld
<1>2. tx[t].offer \in Offers
  BY <1>1 DEF EvidenceInv, EvidenceTypes, Transaction
<1> QED
  BY <1>2, OfferHasKeys

(* A commit adds the evidence of its transaction where there was none.     *)
LEMMA CommitAddsEvidence ==
  ASSUME EvidenceInv, NEW t \in Tx, EvidenceCommitted(t)
  PROVE  /\ event' \in [EventIds -> Offers \cup {None}]
         /\ period' \in [Payments -> Offers \cup {None}]
         /\ \A i \in EventIds :
              \/ event'[i] = event[i]
              \/ /\ event[i] = None /\ event'[i] = tx[t].offer
                 /\ tx[t].newEvent /\ tx[t].offer.id = i /\ tx[t].offer \in Offers
         /\ \A p \in Payments :
              \/ period'[p] = period[p]
              \/ /\ period[p] = None /\ period'[p] = tx[t].offer
                 /\ tx[t].newPeriod /\ tx[t].offer.payment = p /\ tx[t].offer \in Offers
         /\ tx[t].newPeriod => event'[tx[t].offer.id] = tx[t].offer
<1>1. /\ tx[t].newEvent => tx[t].step \in {"evidenced", "paid"} /\ event[tx[t].offer.id] = None
      /\ tx[t].newPeriod => tx[t].step = "paid" /\ period[tx[t].offer.payment] = None
      /\ tx[t].step \in {"evidenced", "paid"} /\ ~tx[t].newEvent =>
           event[tx[t].offer.id] = tx[t].offer
  BY DEF EvidenceInv, EvidenceHeld
<1>2. tx[t].newEvent \/ tx[t].newPeriod =>
        tx[t].offer \in Offers /\ tx[t].offer.id \in EventIds /\ tx[t].offer.payment \in Payments
  BY <1>1, HolderHasOffer
<1>3. event \in [EventIds -> Offers \cup {None}] /\ period \in [Payments -> Offers \cup {None}]
  BY DEF EvidenceInv, EvidenceTypes
<1>4. /\ event' = IF tx[t].newEvent THEN [event EXCEPT ![tx[t].offer.id] = tx[t].offer] ELSE event
      /\ period' = IF tx[t].newPeriod THEN [period EXCEPT ![tx[t].offer.payment] = tx[t].offer]
                   ELSE period
  BY DEF EvidenceCommitted
<1>5. CASE tx[t].newEvent
  BY <1>1, <1>2, <1>3, <1>4, <1>5
<1>6. CASE ~tx[t].newEvent
  BY <1>1, <1>2, <1>3, <1>4, <1>6
<1> QED
  BY <1>5, <1>6

LEMMA EvidenceOnlyGrows ==
  ASSUME EvidenceInv, NEW t \in Tx, Moves(t)
  PROVE  /\ event' \in [EventIds -> Offers \cup {None}]
         /\ period' \in [Payments -> Offers \cup {None}]
         /\ \A i \in EventIds : event[i] # None => event'[i] = event[i]
         /\ \A p \in Payments : period[p] # None => period'[p] = period[p]
<1>1. CASE EvidenceCommitted(t)
  BY <1>1, CommitAddsEvidence
<1>2. CASE ~EvidenceCommitted(t)
  BY <1>2 DEF Moves, Started, EventInserted, PeriodInserted, Ended, EvidenceInv, EvidenceTypes
<1> QED
  BY <1>1, <1>2

LEMMA TypesOfEvidenceStay ==
  ASSUME EvidenceInv, NEW t \in Tx, Moves(t)
  PROVE  EvidenceTypes'
<1>1. event' \in [EventIds -> Offers \cup {None}] /\ period' \in [Payments -> Offers \cup {None}]
  BY EvidenceOnlyGrows
<1>2. tx[t] \in Transaction /\ (tx[t].offer # None <=> tx[t].op = "webhook")
  BY DEF EvidenceInv, EvidenceTypes
<1>3. tx'[t].offer # None <=> tx'[t].op = "webhook"
  <2>1. CASE Started(t)
    BY <2>1 DEF Started
  <2>2. CASE EventInserted(t) \/ PeriodInserted(t)
    <3>1. tx'[t].offer = tx[t].offer /\ tx'[t].op = tx[t].op
      BY <1>2, <2>2 DEF EventInserted, PeriodInserted, Transaction
    <3> QED
      BY <1>2, <3>1
  <2>3. CASE Ended(t) \/ EvidenceCommitted(t)
    BY <2>3 DEF Ended, EvidenceCommitted, NoTx
  <2> QED
    BY <2>1, <2>2, <2>3 DEF Moves
<1>4. \A u \in Tx : u # t => tx'[u] = tx[u]
  BY DEF Moves
<1>5. tx' \in [Tx -> Transaction]
  BY DEF Moves
<1>6. \A u \in Tx : tx'[u].offer # None <=> tx'[u].op = "webhook"
  BY <1>3, <1>4 DEF EvidenceTypes, EvidenceInv
<1> QED
  BY <1>1, <1>5, <1>6 DEF EvidenceTypes

LEMMA TablesOfEvidenceStay ==
  ASSUME EvidenceInv, NEW t \in Tx, Moves(t)
  PROVE  PaymentProviderEvents' /\ SubscriptionPeriods'
<1>1. CASE EvidenceCommitted(t)
  <2>1. PaymentProviderEvents'
    BY <1>1, CommitAddsEvidence, OffersAreEvents DEF PaymentProviderEvents, EvidenceInv
  <2>2. ASSUME NEW p \in Payments, period'[p] # None
        PROVE  /\ period'[p] \in Offers /\ period'[p].payment = p
               /\ period'[p].status = "succeeded" /\ event'[period'[p].id] = period'[p]
    <3>1. CASE period'[p] = period[p]
      <4>1. /\ period[p] \in Offers /\ period[p].payment = p
            /\ period[p].status = "succeeded" /\ event[period[p].id] = period[p]
        BY <2>2, <3>1 DEF SubscriptionPeriods, EvidenceInv
      <4>2. period[p].id \in EventIds /\ event[period[p].id] # None
        BY <4>1, OfferHasKeys, OffersAreEvents
      <4>3. event'[period[p].id] = event[period[p].id]
        BY <4>2, EvidenceOnlyGrows
      <4> QED
        BY <3>1, <4>1, <4>3
    <3>2. CASE period'[p] # period[p]
      <4>1. /\ period'[p] = tx[t].offer /\ tx[t].newPeriod /\ tx[t].offer.payment = p
            /\ tx[t].offer \in Offers /\ event'[tx[t].offer.id] = tx[t].offer
        BY <1>1, <3>2, CommitAddsEvidence
      <4>2. tx[t].offer.status = "succeeded"
        BY <4>1 DEF EvidenceInv, EvidenceHeld
      <4> QED
        BY <4>1, <4>2
    <3> QED
      BY <3>1, <3>2
  <2> QED
    BY <2>1, <2>2 DEF SubscriptionPeriods
<1>2. CASE ~EvidenceCommitted(t)
  BY <1>2 DEF Moves, Started, EventInserted, PeriodInserted, Ended, EvidenceInv,
     PaymentProviderEvents, SubscriptionPeriods
<1> QED
  BY <1>1, <1>2

(* What one transaction holds, alone and beside another.                   *)
Holds(x) ==
  /\ x.op = "none" <=> x.step = "none"
  /\ x.step \in {"evidenced", "paid"} => x.op = "webhook"
  /\ x.step = "paid" => x.offer.status = "succeeded"
  /\ x.newEvent => x.step \in {"evidenced", "paid"} /\ event[x.offer.id] = None
  /\ x.newPeriod => x.step = "paid" /\ period[x.offer.payment] = None
  /\ x.step \in {"evidenced", "paid"} /\ ~x.newEvent => event[x.offer.id] = x.offer
  /\ x.op = "none" => x = NoTx

LEMMA MoverHoldsItsEvidence ==
  ASSUME EvidenceInv, NEW t \in Tx, Moves(t), ~EvidenceCommitted(t)
  PROVE  Holds(tx'[t])
<1>1. Holds(tx[t]) /\ tx[t] \in Transaction
  BY DEF EvidenceInv, EvidenceHeld, EvidenceTypes, Holds
<1>2. CASE Started(t)
  BY <1>2 DEF Started, Holds
<1>3. CASE EventInserted(t)
  <2>1. /\ tx'[t].op = "webhook" /\ tx'[t].step = "evidenced" /\ tx'[t].offer = tx[t].offer
        /\ ~tx'[t].newPeriod /\ tx'[t].newEvent = (event[tx[t].offer.id] = None)
    BY <1>1, <1>3 DEF EventInserted, Open, Holds, Transaction
  <2> QED
    BY <1>3, <2>1 DEF EventInserted, Holds
<1>4. CASE PeriodInserted(t)
  <2>1. /\ tx'[t].op = "webhook" /\ tx'[t].step = "paid" /\ tx'[t].offer = tx[t].offer
        /\ tx'[t].newEvent = tx[t].newEvent
        /\ tx'[t].newPeriod = (period[tx[t].offer.payment] = None)
    BY <1>1, <1>4 DEF PeriodInserted, Open, Transaction
  <2> QED
    BY <1>1, <1>4, <2>1 DEF PeriodInserted, Open, Holds
<1>5. CASE Ended(t)
  BY <1>5 DEF Ended, Holds, NoTx
<1> QED
  BY <1>2, <1>3, <1>4, <1>5 DEF Moves

LEMMA EvidenceStaysHeld ==
  ASSUME EvidenceInv, NEW t \in Tx, Moves(t)
  PROVE  EvidenceHeld'
<1>1. \A u \in Tx : Holds(tx[u]) /\ tx[u] \in Transaction
  BY DEF EvidenceInv, EvidenceHeld, EvidenceTypes, Holds
<1>2. CASE ~EvidenceCommitted(t)
  <2>1. event' = event /\ period' = period
    BY <1>2 DEF Moves, Started, EventInserted, PeriodInserted, Ended
  <2>2. \A u \in Tx : Holds(tx'[u])
    BY <1>1, <1>2, MoverHoldsItsEvidence DEF Moves
  <2> QED
    BY <2>1, <2>2 DEF EvidenceHeld, Holds
<1>3. CASE EvidenceCommitted(t)
  <2>1. tx'[t] = NoTx /\ \A u \in Tx : u # t => tx'[u] = tx[u]
    BY <1>3 DEF Moves, EvidenceCommitted
  <2>2. ASSUME NEW u \in Tx, u # t
        PROVE  /\ tx[u].newEvent => event'[tx[u].offer.id] = None
               /\ tx[u].newPeriod => period'[tx[u].offer.payment] = None
               /\ tx[u].step \in {"evidenced", "paid"} /\ ~tx[u].newEvent =>
                    event'[tx[u].offer.id] = tx[u].offer
    <3>1. tx[u].newEvent \/ tx[u].newPeriod \/ tx[u].step \in {"evidenced", "paid"} =>
            /\ tx[u].offer \in Offers
            /\ tx[u].offer.id \in EventIds /\ tx[u].offer.payment \in Payments
      BY <1>1, HolderHasOffer DEF Holds
    <3>2. /\ tx[t].newEvent /\ tx[u].newEvent => tx[t].offer.id # tx[u].offer.id
          /\ tx[t].newPeriod /\ tx[u].newPeriod => tx[t].offer.payment # tx[u].offer.payment
      BY <2>2 DEF EvidenceInv, KeysAreHeldOnce
    <3>3. tx[u].newEvent => event'[tx[u].offer.id] = None
      BY <1>1, <1>3, <3>1, <3>2, CommitAddsEvidence DEF Holds
    <3>4. tx[u].newPeriod => period'[tx[u].offer.payment] = None
      BY <1>1, <1>3, <3>1, <3>2, CommitAddsEvidence DEF Holds
    <3>5. tx[u].step \in {"evidenced", "paid"} /\ ~tx[u].newEvent =>
            event'[tx[u].offer.id] = tx[u].offer
      BY <1>1, <3>1, EvidenceOnlyGrows, OffersAreEvents DEF Holds
    <3> QED
      BY <3>3, <3>4, <3>5
  <2>3. ASSUME NEW u \in Tx, u # t
        PROVE  Holds(tx[u])'
    BY <1>1, <2>1, <2>2, <2>3 DEF Holds
  <2>4. Holds(tx[t])'
    <3>1. /\ tx'[t].op = "none" /\ tx'[t].step = "none"
          /\ ~tx'[t].newEvent /\ ~tx'[t].newPeriod
      BY <2>1 DEF NoTx
    <3> QED
      BY <2>1, <3>1 DEF Holds
  <2> QED
    BY <2>3, <2>4 DEF EvidenceHeld, Holds
<1> QED
  BY <1>2, <1>3

LEMMA KeysStayHeldOnce ==
  ASSUME EvidenceInv, NEW t \in Tx, Moves(t)
  PROVE  KeysAreHeldOnce'
<1> SUFFICES ASSUME NEW u \in Tx, u # t
             PROVE  /\ tx'[t].newEvent /\ tx[u].newEvent => tx'[t].offer.id # tx[u].offer.id
                    /\ tx'[t].newPeriod /\ tx[u].newPeriod =>
                         tx'[t].offer.payment # tx[u].offer.payment
  BY DEF KeysAreHeldOnce, EvidenceInv, Moves
<1>1. tx[t] \in Transaction /\ Holds(tx[t])
  BY DEF EvidenceInv, EvidenceTypes, EvidenceHeld, Holds
<1>2. CASE EventInserted(t)
  <2>1. /\ tx'[t].offer = tx[t].offer /\ ~tx'[t].newPeriod
        /\ tx'[t].newEvent = (event[tx[t].offer.id] = None)
    BY <1>1, <1>2 DEF EventInserted, Open, Holds, Transaction
  <2> QED
    BY <1>2, <2>1 DEF EventInserted
<1>3. CASE PeriodInserted(t)
  <2>1. /\ tx'[t].offer = tx[t].offer /\ tx'[t].newEvent = tx[t].newEvent
        /\ tx'[t].newPeriod = (period[tx[t].offer.payment] = None)
    BY <1>1, <1>3 DEF PeriodInserted, Transaction
  <2>2. tx'[t].newEvent /\ tx[u].newEvent => tx'[t].offer.id # tx[u].offer.id
    BY <2>1 DEF EvidenceInv, KeysAreHeldOnce
  <2>3. tx'[t].newPeriod /\ tx[u].newPeriod => tx'[t].offer.payment # tx[u].offer.payment
    BY <1>3, <2>1 DEF PeriodInserted
  <2> QED
    BY <2>2, <2>3
<1>4. CASE Started(t) \/ Ended(t) \/ EvidenceCommitted(t)
  BY <1>4 DEF Started, Ended, EvidenceCommitted, NoTx
<1> QED
  BY <1>2, <1>3, <1>4 DEF Moves

LEMMA EvidenceInvNext ==
  ASSUME EvidenceInv, now \in Time, [Next]_vars
  PROVE  EvidenceInv'
<1>1. EvidenceTypes
  BY DEF EvidenceInv
<1>2. CASE UNCHANGED <<tx, event, period>>
  BY <1>2 DEF EvidenceInv, EvidenceTypes, EvidenceHeld, KeysAreHeldOnce,
     PaymentProviderEvents, SubscriptionPeriods
<1>3. ASSUME NEW t \in Tx, Moves(t)
      PROVE  EvidenceInv'
  BY <1>3, TypesOfEvidenceStay, TablesOfEvidenceStay, EvidenceStaysHeld, KeysStayHeldOnce
     DEF EvidenceInv
<1> QED
  BY <1>1, <1>2, <1>3, EveryStepMoves

-----------------------------------------------------------------------------
(* The user's row and the history of its states                            *)

RowStays == sub' = sub /\ newest' = newest
RowAdvances == NextRow(sub', sub, period') /\ newest' = EventOf(sub, sub')
(* Stopping a user without a row creates it and moves it on.               *)
RowAdvancesTwice ==
  /\ sub = NoSub
  /\ sub' \in SubscriptionState /\ sub'.version = 2 /\ Fits(sub', period')
  /\ newest'.from \in States /\ newest'.to = sub'.state /\ newest'.version = 2
  /\ newest' \in StateEvent

LEMMA PeriodsSeen ==
  ASSUME EvidenceInv, NEW t \in Tx
  PROVE  /\ SeenPeriods(t) \in [Payments -> Offers \cup {None}]
         /\ tx[t].op # "webhook" => SeenPeriods(t) = period
<1>1. /\ tx[t].newPeriod => tx[t].step = "paid"
      /\ tx[t].step = "paid" => tx[t].op = "webhook"
      /\ period \in [Payments -> Offers \cup {None}]
  BY DEF EvidenceInv, EvidenceHeld, EvidenceTypes
<1>2. tx[t].newPeriod => tx[t].offer \in Offers
  BY <1>1, HolderHasOffer
<1> QED
  BY <1>1, <1>2 DEF SeenPeriods

LEMMA CommitOfRow ==
  ASSUME NEW t \in Tx, NEW row, Commits(t, row),
         row = sub \/ NextRow(row, sub, SeenPeriods(t))
  PROVE  RowStays \/ RowAdvances
<1>1. sub' = row /\ newest' = EventOf(sub, row) /\ period' = SeenPeriods(t)
  BY DEF Commits
<1> QED
  BY <1>1 DEF RowStays, RowAdvances, EventOf

LEMMA ReconcilingAdvances ==
  ASSUME EvidenceInv, sub \in SubscriptionState, NEW t \in Tx
  PROVE  ReconciledBy(t) = sub \/ NextRow(ReconciledBy(t), sub, SeenPeriods(t))
BY PeriodsSeen, ReconciledRow DEF ReconciledBy

LEMMA ResumingAdvances ==
  ASSUME EvidenceInv, sub \in SubscriptionState, NEW t \in Tx, tx[t].op = "resume"
  PROVE  ResumedRow(t) = sub \/ NextRow(ResumedRow(t), sub, SeenPeriods(t))
<1> DEFINE natural == NaturalProjection(trial, period, tx[t].started)
<1>1. SeenPeriods(t) = period /\ period \in [Payments -> Offers \cup {None}]
  BY PeriodsSeen DEF EvidenceInv, EvidenceTypes
<1>2. NextRow(Row(natural, sub.version + 1), sub, period)
  BY <1>1, RowOfProjection
<1>3. ResumedRow(t) \in {ReconciledBy(t), sub, Row(natural, sub.version + 1)}
  BY DEF ResumedRow, Transition
<1> QED
  BY <1>1, <1>2, <1>3, ReconcilingAdvances

(* Where a pause or a cancellation moves a row to.                         *)
LEMMA StoppedRow ==
  ASSUME NEW rows, NEW t \in Tx, NEW current \in SubscriptionState, NEW state \in Stopped
  PROVE  \/ MovesTo(t, current, state) = current /\ current.state = state
         \/ /\ NextRow(MovesTo(t, current, state), current, rows)
            /\ MovesTo(t, current, state).state = state /\ current.state # state
<1>1. CASE current.state = state
  BY <1>1 DEF MovesTo
<1>2. CASE current.state # state
  <2> DEFINE row == [state |-> state, version |-> current.version + 1, period |-> None]
  <2>1. MovesTo(t, current, state) = row
    BY <1>2 DEF MovesTo, Transition, Row
  <2>2. current.version + 1 \in Nat /\ state \in States /\ state # "paid_active"
    BY DEF SubscriptionState, Stopped, States
  <2>3. NextRow(row, current, rows)
    BY <2>2 DEF NextRow, SubscriptionState, Fits
  <2> QED
    BY <1>2, <2>1, <2>3
<1> QED
  BY <1>1, <1>2

LEMMA StoppingMovesRow ==
  ASSUME EvidenceInv, sub \in SubscriptionState, newest \in StateEvent,
         NEW t \in Tx, NEW op \in {"pause", "cancel"}, NEW state \in Stopped, NEW allowed,
         Stops(t, op, state, allowed)
  PROVE  RowStays \/ RowAdvances \/ RowAdvancesTwice
<1> DEFINE created == StateForTransition(t)
           row == MovesTo(t, created, state)
<1>1. tx[t].op = op /\ SeenPeriods(t) = period /\ period' = period
  BY PeriodsSeen DEF Stops, Locks, RollsBack
<1>2. CASE created.state \notin allowed \cup {state}
  BY <1>2 DEF Stops, RollsBack, RowStays
<1>3. CASE created.state \in allowed \cup {state}
  <2>1. /\ sub' = row
        /\ newest' = IF row = created THEN EventOf(sub, row) ELSE EventOf(created, row)
    BY <1>3 DEF Stops
  <2>2. \/ created = sub /\ sub # NoSub
        \/ sub = NoSub /\ (created = sub \/ NextRow(created, sub, period))
    BY <1>1, ReconcilingAdvances DEF StateForTransition
  <2>3. created \in SubscriptionState
    BY <2>2 DEF NextRow
  <2>4. \/ row = created
        \/ NextRow(row, created, period) /\ row.state = state
    BY <2>3, StoppedRow
  <2> HIDE DEF created, row
  <2>5. CASE row = created /\ created = sub
    BY <2>1, <2>5 DEF RowStays, EventOf
  <2>6. CASE row = created /\ NextRow(created, sub, period)
    BY <1>1, <2>1, <2>6 DEF RowAdvances
  <2>7. CASE row # created /\ created = sub
    BY <1>1, <2>1, <2>4, <2>7 DEF RowAdvances
  <2>8. CASE row # created /\ created # sub
    <3>1. /\ sub = NoSub /\ NextRow(created, sub, period) /\ NextRow(row, created, period)
      BY <2>2, <2>4, <2>8
    <3>2. /\ created.version = 1 /\ row.version = 2 /\ created.state \in States
          /\ row \in SubscriptionState /\ Fits(row, period) /\ row.state \in States
      BY <3>1 DEF NextRow, NoSub, Fits
    <3>3. newest' = [from |-> created.state, to |-> row.state, version |-> row.version]
      BY <2>1, <2>8 DEF EventOf
    <3> QED
      BY <1>1, <2>1, <3>1, <3>2, <3>3 DEF RowAdvancesTwice, StateEvent
  <2> QED
    BY <2>2, <2>4, <2>5, <2>6, <2>7, <2>8
<1> QED
  BY <1>2, <1>3

LEMMA EveryStepMovesRow ==
  ASSUME EvidenceInv, sub \in SubscriptionState, newest \in StateEvent, [Next]_vars
  PROVE  RowStays \/ RowAdvances \/ RowAdvancesTwice
<1>1. CASE UNCHANGED vars
  BY <1>1 DEF vars, RowStays
<1>2. CASE Tick
  BY <1>2 DEF Tick, RowStays
<1>3. ASSUME NEW t \in Tx, BeginsCheck(t) \/ BeginsWebhook(t) \/ BeginsCommand(t)
      PROVE  RowStays
  BY <1>3 DEF BeginsCheck, BeginsWebhook, BeginsCommand, Begins, RowStays
<1>4. ASSUME NEW t \in Tx, Steps(t)
      PROVE  RowStays \/ RowAdvances \/ RowAdvancesTwice
  <2>1. CASE RecordsEvent(t) \/ RecordsPeriod(t)
    BY <2>1 DEF RecordsEvent, RecordsPeriod, RollsBack, RowStays
  <2>2. CASE RecordsUnpaidEvent(t) \/ Activates(t)
    BY <2>2, CommitOfRow DEF RecordsUnpaidEvent, Activates
  <2>3. CASE ConfirmsPayment(t) \/ Checks(t)
    BY <2>3, CommitOfRow, ReconcilingAdvances DEF ConfirmsPayment, Checks
  <2>4. CASE Resumes(t)
    BY <2>4, CommitOfRow, ResumingAdvances DEF Resumes, Locks
  <2>5. CASE Pauses(t)
    BY <2>5, StoppingMovesRow DEF Pauses, Stopped
  <2>6. CASE Cancels(t)
    BY <2>6, StoppingMovesRow DEF Cancels, Stopped
  <2> QED
    BY <1>4, <2>1, <2>2, <2>3, <2>4, <2>5, <2>6 DEF Steps
<1>5. ASSUME NEW t \in Tx, DeadlockAborts(t) \/ Fails(t)
      PROVE  RowStays
  BY <1>5 DEF DeadlockAborts, Fails, RollsBack, RowStays
<1> QED
  BY <1>1, <1>2, <1>3, <1>4, <1>5 DEF Next

(* The row and its history: the last event names the state and the version *)
(* of the row.                                                             *)
HistoryEndsAtRow == newest.to = sub.state /\ newest.version = sub.version

RowInv ==
  /\ sub \in SubscriptionState /\ newest \in StateEvent
  /\ SubscriptionStates /\ SubscriptionStateEvents /\ HistoryEndsAtRow

LEMMA RowInvNext ==
  ASSUME EvidenceInv, RowInv, \A p \in Payments : period[p] # None => period'[p] = period[p],
         RowStays \/ RowAdvances \/ RowAdvancesTwice
  PROVE  RowInv'
<1>0. /\ sub \in SubscriptionState /\ newest \in StateEvent
      /\ SubscriptionStates /\ SubscriptionStateEvents
      /\ newest.to = sub.state /\ newest.version = sub.version
  BY DEF RowInv, HistoryEndsAtRow
<1>1. CASE RowStays
  <2>1. SubscriptionStates'
    BY <1>0, <1>1 DEF RowStays, SubscriptionStates, SubscriptionState
  <2> QED
    BY <1>0, <1>1, <2>1 DEF RowStays, RowInv, SubscriptionStateEvents, HistoryEndsAtRow
<1>2. CASE RowAdvances
  <2>1. /\ sub' \in SubscriptionState /\ sub'.version = sub.version + 1 /\ Fits(sub', period')
        /\ sub.version \in Nat
    BY <1>0, <1>2 DEF RowAdvances, NextRow, SubscriptionState
  <2>2. newest' = [from |-> sub.state, to |-> sub'.state, version |-> sub'.version]
    <3>1. sub' # sub
      BY <2>1
    <3> QED
      BY <1>2, <3>1 DEF RowAdvances, EventOf
  <2>3. SubscriptionStates'
    BY <2>1 DEF SubscriptionStates, Fits
  <2>4. sub.state = "none" <=> sub.version = 0
    BY <1>0 DEF SubscriptionStates, NoSub, States
  <2>5. /\ newest' \in StateEvent /\ newest'.to = sub'.state /\ newest'.version = sub'.version
        /\ newest'.from = sub.state
    BY <1>0, <2>1, <2>2 DEF StateEvent, SubscriptionState
  <2>6. SubscriptionStateEvents'
    <3>1. newest'.from \in States \cup {"none"} /\ newest'.to \in States
      BY <1>0, <2>1, <2>5 DEF SubscriptionState, Fits
    <3>2. newest'.from = "none" <=> newest'.version = 1
      BY <2>1, <2>4, <2>5
    <3> QED
      BY <2>5, <3>1, <3>2 DEF SubscriptionStateEvents
  <2> QED
    BY <2>1, <2>3, <2>5, <2>6 DEF RowInv, HistoryEndsAtRow
<1>3. CASE RowAdvancesTwice
  <2>1. /\ sub' \in SubscriptionState /\ sub'.version = 2 /\ Fits(sub', period')
        /\ newest'.from \in States /\ newest'.to = sub'.state /\ newest'.version = 2
        /\ newest' \in StateEvent
    BY <1>3 DEF RowAdvancesTwice
  <2>2. SubscriptionStates'
    BY <2>1 DEF SubscriptionStates, Fits
  <2>3. SubscriptionStateEvents'
    BY <2>1 DEF SubscriptionStateEvents, Fits, States
  <2> QED
    BY <2>1, <2>2, <2>3 DEF RowInv, HistoryEndsAtRow
<1> QED
  BY <1>1, <1>2, <1>3

-----------------------------------------------------------------------------
(* The invariant of the module                                             *)

ClockInv ==
  /\ now \in Time /\ trial \in Time \cup {None} /\ commands \in 0..MaxCommands
  /\ \A t \in Tx : tx[t].started <= now

SubscriptionInv == ClockInv /\ EvidenceInv /\ RowInv

LEMMA ClockInvNext ==
  ASSUME SubscriptionInv, [Next]_vars
  PROVE  ClockInv'
<1> USE BoundsOfTime
<1>0. /\ now \in Time /\ trial \in Time \cup {None} /\ commands \in 0..MaxCommands
      /\ \A t \in Tx : tx[t].started <= now /\ tx[t] \in Transaction
      /\ tx \in [Tx -> Transaction]
  BY DEF SubscriptionInv, ClockInv, EvidenceInv, EvidenceTypes
<1>1. CASE UNCHANGED vars
  BY <1>0, <1>1 DEF vars, ClockInv
<1>2. CASE Tick
  <2>1. now \in Nat /\ now' = now + 1 /\ now' \in Time
    BY <1>0, <1>2 DEF Tick, Time
  <2>2. \A t \in Tx : tx[t].started \in Nat
    BY <1>0 DEF Transaction, Time
  <2> QED
    BY <1>0, <1>2, <2>1, <2>2 DEF Tick, ClockInv
<1>3. ASSUME NEW t \in Tx, NEW op, NEW offer, Begins(t, op, offer)
      PROVE  now' = now /\ trial' = trial /\ \A u \in Tx : tx'[u].started <= now'
  <2>1. /\ tx' = [tx EXCEPT ![t] = [NoTx EXCEPT !.op = op, !.step = "begun", !.started = now,
                                              !.offer = offer]]
        /\ now' = now /\ trial' = trial
    BY <1>3 DEF Begins
  <2>2. tx'[t].started = now /\ \A u \in Tx : u # t => tx'[u] = tx[u]
    BY <1>0, <2>1 DEF NoTx
  <2>3. now \in Nat
    BY <1>0 DEF Time
  <2> QED
    BY <1>0, <2>1, <2>2, <2>3
<1>4. ASSUME NEW t \in Tx, BeginsCheck(t) \/ BeginsWebhook(t) \/ BeginsCommand(t)
      PROVE  ClockInv'
  <2>1. commands' \in 0..MaxCommands
    BY <1>0, <1>4 DEF BeginsCheck, BeginsWebhook, BeginsCommand
  <2>2. now' = now /\ trial' = trial /\ \A u \in Tx : tx'[u].started <= now'
    BY <1>3, <1>4 DEF BeginsCheck, BeginsWebhook, BeginsCommand
  <2> QED
    BY <1>0, <2>1, <2>2 DEF ClockInv
<1>5. ASSUME NEW t \in Tx, Steps(t) \/ DeadlockAborts(t) \/ Fails(t)
      PROVE  ClockInv'
  <2>1. now' = now
    BY <1>5 DEF Steps, RecordsEvent, RecordsPeriod, RecordsUnpaidEvent, ConfirmsPayment, Checks,
       Activates, Pauses, Cancels, Stops, Resumes, DeadlockAborts, Fails, RollsBack, Commits
  <2>2. commands' \in 0..MaxCommands
    BY <1>0, <1>5 DEF Steps, RecordsEvent, RecordsPeriod, RecordsUnpaidEvent, ConfirmsPayment,
       Checks, Activates, Pauses, Cancels, Stops, Resumes, DeadlockAborts, Fails
  <2>3. trial' \in {trial, tx[t].started}
    BY <1>5 DEF Steps, RecordsEvent, RecordsPeriod, RecordsUnpaidEvent, ConfirmsPayment, Checks,
       Activates, Pauses, Cancels, Stops, Resumes, DeadlockAborts, Fails, RollsBack
  <2>4. trial' \in Time \cup {None}
    BY <1>0, <2>3 DEF Transaction
  <2>5. \A u \in Tx : tx'[u].started \in {tx[u].started, 0}
    <3>1. CASE tx' = [tx EXCEPT ![t] = NoTx]
      BY <1>0, <3>1 DEF NoTx
    <3>2. CASE tx' # [tx EXCEPT ![t] = NoTx]
      <4>1. RecordsEvent(t) \/ RecordsPeriod(t)
        BY <1>5, <3>2 DEF Steps, RecordsUnpaidEvent, ConfirmsPayment, Checks, Activates, Pauses,
           Cancels, Stops, Resumes, DeadlockAborts, Fails, RollsBack, Commits
      <4>2. tx[t] \in Transaction
        BY <1>0
      <4>3. CASE RecordsEvent(t)
        <5>1. tx' = [tx EXCEPT ![t].step = "evidenced",
                               ![t].newEvent = event[tx[t].offer.id] = None]
          BY <3>2, <4>3 DEF RecordsEvent, RollsBack
        <5> QED
          BY <1>0, <4>2, <5>1 DEF Transaction
      <4>4. CASE RecordsPeriod(t)
        <5>1. tx' = [tx EXCEPT ![t].step = "paid",
                               ![t].newPeriod = period[tx[t].offer.payment] = None]
          BY <3>2, <4>4 DEF RecordsPeriod, RollsBack
        <5> QED
          BY <1>0, <4>2, <5>1 DEF Transaction
      <4> QED
        BY <4>1, <4>3, <4>4
    <3> QED
      BY <3>1, <3>2
  <2>6. \A u \in Tx : tx'[u].started <= now'
    <3>1. now \in Nat
      BY <1>0 DEF Time
    <3> QED
      BY <1>0, <2>1, <2>5, <3>1
  <2> QED
    BY <1>0, <2>1, <2>2, <2>4, <2>6 DEF ClockInv
<1> QED
  BY <1>1, <1>2, <1>4, <1>5 DEF Next

LEMMA SubscriptionInvHolds == Spec => []SubscriptionInv
<1>1. Init => SubscriptionInv
  <2> SUFFICES ASSUME Init PROVE SubscriptionInv
    OBVIOUS
  <2> USE BoundsOfTime DEF Init
  <2>1. NoTx \in Transaction
    BY NoTxIsATransaction
  <2>2. ClockInv
    BY DEF ClockInv, NoTx, Time
  <2>3. EvidenceTypes
    BY <2>1 DEF EvidenceTypes, NoTx
  <2>4. EvidenceHeld /\ KeysAreHeldOnce
    BY DEF EvidenceHeld, KeysAreHeldOnce, NoTx
  <2>5. PaymentProviderEvents /\ SubscriptionPeriods
    BY DEF PaymentProviderEvents, SubscriptionPeriods
  <2>6. RowInv
    BY DEF RowInv, SubscriptionState, StateEvent, SubscriptionStates, SubscriptionStateEvents,
       HistoryEndsAtRow, NoSub, NoEvent
  <2> QED
    BY <2>2, <2>3, <2>4, <2>5, <2>6 DEF SubscriptionInv, EvidenceInv
<1>2. SubscriptionInv /\ [Next]_vars => SubscriptionInv'
  <2> SUFFICES ASSUME SubscriptionInv, [Next]_vars PROVE SubscriptionInv'
    OBVIOUS
  <2>1. EvidenceInv /\ RowInv /\ now \in Time
    BY DEF SubscriptionInv, ClockInv
  <2>2. ClockInv' /\ EvidenceInv'
    BY <2>1, ClockInvNext, EvidenceInvNext
  <2>3. \A p \in Payments : period[p] # None => period'[p] = period[p]
    BY <2>1, EveryStepMoves, EvidenceOnlyGrows DEF EvidenceInv
  <2>4. RowStays \/ RowAdvances \/ RowAdvancesTwice
    BY <2>1, EveryStepMovesRow DEF RowInv
  <2> QED
    BY <2>1, <2>2, <2>3, <2>4, RowInvNext DEF SubscriptionInv
<1> QED
  BY <1>1, <1>2, PTL DEF Spec

(* The tables hold what their columns, foreign keys and check constraints  *)
(* allow (schema.py), and a transaction never evaluates in the future.     *)
THEOREM SubscriptionTypeCorrect == Spec => []TypeOK
<1>1. SubscriptionInv => TypeOK
  BY DEF SubscriptionInv, ClockInv, EvidenceInv, EvidenceTypes, EvidenceHeld, RowInv, TypeOK
<1> QED
  BY <1>1, SubscriptionInvHolds, PTL

-----------------------------------------------------------------------------
(* The properties                                                          *)

LEMMA TrialStartsOnce ==
  ASSUME [Next]_vars, trial # None
  PROVE  trial' = trial
BY DEF Next, vars, Tick, BeginsCheck, BeginsWebhook, BeginsCommand, Begins, Steps, RecordsEvent,
   RecordsPeriod, RecordsUnpaidEvent, ConfirmsPayment, Checks, Activates, Pauses, Cancels, Stops,
   Resumes, DeadlockAborts, Fails, RollsBack

LEMMA HistoryHasNoGap ==
  ASSUME RowInv, RowInv', newest' # newest, RowStays \/ RowAdvances \/ RowAdvancesTwice
  PROVE  \/ newest'.version = newest.version + 1 /\ newest'.from = newest.to
         \/ newest.version = 0 /\ newest'.version = 2
<1>1. newest.to = sub.state /\ newest.version = sub.version
  BY DEF RowInv, HistoryEndsAtRow
<1>2. CASE RowAdvances
  <2>1. newest' = [from |-> sub.state, to |-> sub'.state, version |-> sub'.version]
    BY <1>2 DEF RowAdvances, EventOf
  <2> QED
    BY <1>1, <1>2, <2>1 DEF RowAdvances, NextRow
<1>3. CASE RowAdvancesTwice
  BY <1>1, <1>3 DEF RowAdvancesTwice, NoSub
<1> QED
  BY <1>2, <1>3 DEF RowStays

(* Whatever transactions overlap, stored evidence is never rewritten, the  *)
(* trial starts once (activate_primary), and the history of the state ends *)
(* at the row without a gap: the unique keys and the lock of the user row  *)
(* let one transaction at a time add to each.                              *)
THEOREM HistoryStaysImmutable == Spec => HistoryIsImmutable
<1>1. SubscriptionInv /\ SubscriptionInv' /\ [Next]_vars =>
        [/\ newest'.to = sub'.state /\ newest'.version = sub'.version
         /\ newest' # newest =>
              \/ newest'.version = newest.version + 1 /\ newest'.from = newest.to
              \/ newest.version = 0 /\ newest'.version = 2
         /\ \A i \in EventIds : event[i] # None => event'[i] = event[i]
         /\ \A p \in Payments : period[p] # None => period'[p] = period[p]
         /\ trial # None => trial' = trial]_vars
  <2> SUFFICES ASSUME SubscriptionInv, SubscriptionInv', [Next]_vars
               PROVE  /\ newest'.to = sub'.state /\ newest'.version = sub'.version
                      /\ newest' # newest =>
                           \/ newest'.version = newest.version + 1 /\ newest'.from = newest.to
                           \/ newest.version = 0 /\ newest'.version = 2
                      /\ \A i \in EventIds : event[i] # None => event'[i] = event[i]
                      /\ \A p \in Payments : period[p] # None => period'[p] = period[p]
                      /\ trial # None => trial' = trial
    OBVIOUS
  <2>1. EvidenceInv /\ RowInv /\ RowInv' /\ now \in Time
    BY DEF SubscriptionInv, ClockInv
  <2>2. newest'.to = sub'.state /\ newest'.version = sub'.version
    BY <2>1 DEF RowInv, HistoryEndsAtRow
  <2>3. RowStays \/ RowAdvances \/ RowAdvancesTwice
    BY <2>1, EveryStepMovesRow DEF RowInv
  <2>4. /\ \A i \in EventIds : event[i] # None => event'[i] = event[i]
        /\ \A p \in Payments : period[p] # None => period'[p] = period[p]
    BY <2>1, EveryStepMoves, EvidenceOnlyGrows DEF EvidenceInv
  <2> QED
    BY <2>1, <2>2, <2>3, <2>4, HistoryHasNoGap, TrialStartsOnce
<1> QED
  BY <1>1, SubscriptionInvHolds, PTL DEF Spec, HistoryIsImmutable

(* The decision about a row that is stopped, or fits what is stored.       *)
LEMMA DecisionFollowsEvidence ==
  ASSUME NEW row \in SubscriptionState, NEW at, period \in [Payments -> Offers \cup {None}],
         \/ row.state \in Stopped
         \/ /\ row.state = NaturalProjection(trial, period, at).state
            /\ row.period = NaturalProjection(trial, period, at).period
  PROVE  LET verdict == Evaluate(row, trial, period, at)
         IN  /\ verdict.granted <=> (row.state \notin Stopped /\ HasGrounds(at))
             /\ verdict.state = row.state
<1> DEFINE natural == NaturalProjection(trial, period, at)
           verdict == Evaluate(row, trial, period, at)
<1>1. /\ natural.state \in NaturalStates
      /\ Active(period, at) # {} =>
           natural.state = "paid_active" /\ natural.period \in Active(period, at)
      /\ Active(period, at) = {} /\ trial # None =>
           /\ natural.period = None
           /\ natural.state = IF InTrial(trial, at) THEN "trial_active" ELSE "expired"
      /\ Active(period, at) = {} /\ trial = None =>
           natural.period = None /\ natural.state \in {"expired", "trial_not_started"}
  BY ProjectionCases
<1>2. verdict = IF row.state \in Stopped THEN [granted |-> FALSE, state |-> row.state]
                ELSE IF row.period # None /\ Covers(period[row.period], at)
                THEN [granted |-> TRUE, state |-> "paid_active"]
                ELSE IF trial = None
                THEN [granted |-> FALSE,
                      state |-> IF row.state = "expired" THEN "expired"
                                ELSE "trial_not_started"]
                ELSE [granted |-> InTrial(trial, at),
                      state |-> IF InTrial(trial, at) THEN "trial_active" ELSE "expired"]
  BY DEF Evaluate
<1>3. HasGrounds(at) <=> Active(period, at) # {} \/ (trial # None /\ InTrial(trial, at))
  BY DEF HasGrounds, Active
<1>4. None \notin Active(period, at) /\ \A p \in Active(period, at) : Covers(period[p], at)
  BY OffersAreEvents DEF Active
<1>5. row.state \in Stopped \/ (row.state = natural.state /\ row.period = natural.period)
  OBVIOUS
<1>6. NaturalStates \cap Stopped = {}
  BY DEF NaturalStates, Stopped
<1> HIDE DEF natural, verdict
<1>7. CASE row.state \in Stopped
  BY <1>2, <1>7 DEF verdict
<1>8. CASE row.state \notin Stopped /\ Active(period, at) # {}
  <2>1. verdict = [granted |-> TRUE, state |-> "paid_active"]
    BY <1>1, <1>2, <1>4, <1>5, <1>8
  <2> QED
    BY <1>1, <1>3, <1>5, <1>8, <2>1 DEF verdict
<1>9. CASE row.state \notin Stopped /\ Active(period, at) = {} /\ trial = None
  <2>1. verdict = [granted |-> FALSE, state |-> row.state]
    BY <1>1, <1>2, <1>5, <1>9
  <2> QED
    BY <1>3, <1>9, <2>1 DEF verdict
<1>10. CASE row.state \notin Stopped /\ Active(period, at) = {} /\ trial # None
  <2>1. verdict = [granted |-> InTrial(trial, at), state |-> row.state]
    BY <1>1, <1>2, <1>5, <1>10
  <2> QED
    BY <1>3, <1>10, <2>1 DEF verdict
<1> QED
  BY <1>7, <1>8, <1>9, <1>10

(* What a check leaves in the table is stopped or the projection.          *)
LEMMA ReconciledFits ==
  ASSUME NEW row \in SubscriptionState, NEW rows \in [Payments -> Offers \cup {None}],
         NEW started, NEW at
  PROVE  LET after == Reconciled(row, started, rows, at)
             natural == NaturalProjection(started, rows, at)
         IN  /\ after \in SubscriptionState
             /\ \/ after.state \in Stopped
                \/ after.state = natural.state /\ after.period = natural.period
<1> DEFINE after == Reconciled(row, started, rows, at)
           natural == NaturalProjection(started, rows, at)
<1>1. after = IF row = NoSub THEN Row(natural, 1)
              ELSE IF row.state \in Stopped \/ SameProjection(row, natural) THEN row
              ELSE Row(natural, row.version + 1)
  BY DEF Reconciled, Transition
<1>2. after \in SubscriptionState
  BY ReconciledRow DEF NextRow
<1>3. \A version : /\ Row(natural, version).state = natural.state
                   /\ Row(natural, version).period = natural.period
  BY DEF Row
<1> HIDE DEF after, natural
<1>4. \/ after.state \in Stopped
      \/ after.state = natural.state /\ after.period = natural.period
  BY <1>1, <1>3 DEF SameProjection
<1> QED
  BY <1>2, <1>4 DEF after, natural

(* A check grants access exactly when the trial or a paid period covers    *)
(* the time it evaluates at and the user has not stopped, and reports the  *)
(* state it stores: TrialEntitlementChecker reconciles the row by the      *)
(* projection before billing.py evaluates it, in one transaction.          *)
THEOREM AccessAlwaysFollowsEvidence == Spec => AccessFollowsEvidence
<1>1. SubscriptionInv /\ [Next]_vars =>
        [\A t \in Tx : Checks(t) =>
           /\ Verdict(t).granted <=> (sub'.state \notin Stopped /\ HasGrounds(tx[t].started))
           /\ Verdict(t).state = sub'.state]_vars
  <2> SUFFICES ASSUME SubscriptionInv, NEW t \in Tx, Checks(t)
               PROVE  /\ Verdict(t).granted <=>
                           (sub'.state \notin Stopped /\ HasGrounds(tx[t].started))
                      /\ Verdict(t).state = sub'.state
    OBVIOUS
  <2>1. /\ EvidenceInv /\ sub \in SubscriptionState
        /\ period \in [Payments -> Offers \cup {None}]
    BY DEF SubscriptionInv, RowInv, EvidenceInv, EvidenceTypes
  <2>2. SeenPeriods(t) = period /\ sub' = ReconciledBy(t)
    BY <2>1, PeriodsSeen DEF Checks, Locks, Commits
  <2>3. ReconciledBy(t) = Reconciled(sub, trial, period, tx[t].started)
    BY <2>2 DEF ReconciledBy
  <2> QED
    BY <2>1, <2>2, <2>3, ReconciledFits, DecisionFollowsEvidence DEF Verdict
<1> QED
  BY <1>1, SubscriptionInvHolds, PTL DEF Spec, AccessFollowsEvidence

(* A pause or a cancellation ends only by a resume, or, for a pause, by a  *)
(* cancel: reconcile leaves a stopped row alone, and every operation       *)
(* decides while it holds the user row.                                    *)
THEOREM StoppedStayUntilResumed == Spec => StoppedUntilResumed
<1>1. SubscriptionInv /\ [Next]_vars =>
        [\A t \in Tx : tx'[t] # tx[t] /\ sub.state \in Stopped /\ sub' # sub =>
           \/ tx[t].op = "resume"
           \/ sub.state = "paused" /\ sub'.state = "cancelled"]_vars
  <2> SUFFICES ASSUME SubscriptionInv, Next, NEW t \in Tx, tx'[t] # tx[t],
                      sub.state \in Stopped, sub' # sub, tx[t].op # "resume"
               PROVE  sub.state = "paused" /\ sub'.state = "cancelled"
    BY DEF vars
  <2>1. tx \in [Tx -> Transaction] /\ sub # NoSub
    BY DEF SubscriptionInv, EvidenceInv, EvidenceTypes, NoSub, Stopped
  <2>2. PICK u \in Tx : Steps(u)
    BY DEF Next, Tick, BeginsCheck, BeginsWebhook, BeginsCommand, Begins, DeadlockAborts, Fails,
       RollsBack
  <2>3. ReconciledBy(u) = sub
    BY <2>1 DEF ReconciledBy, Reconciled
  <2>4. Pauses(u) \/ Cancels(u) \/ Resumes(u)
    BY <2>2, <2>3 DEF Steps, RecordsEvent, RecordsPeriod, RecordsUnpaidEvent, ConfirmsPayment,
       Checks, Activates, RollsBack, Commits
  <2>5. tx' = [tx EXCEPT ![u] = NoTx]
    BY <2>4 DEF Pauses, Cancels, Resumes, Stops, RollsBack, Commits
  <2>6. u = t
    BY <2>1, <2>5
  <2>7. StateForTransition(t) = sub
    BY <2>1 DEF StateForTransition
  <2>8. ~Resumes(t)
    BY DEF Resumes, Locks
  <2>9. ~Pauses(t)
    BY <2>7 DEF Pauses, Stops, Stopped, MovesTo, RollsBack
  <2>10. Cancels(t)
    BY <2>4, <2>6, <2>8, <2>9
  <2>11. sub.state # "cancelled"
    BY <2>7, <2>10 DEF Cancels, Stops, MovesTo, RollsBack
  <2>12. sub'.state = "cancelled"
    BY <2>7, <2>10 DEF Cancels, Stops, MovesTo, RollsBack, Transition, Row
  <2> QED
    BY <2>11, <2>12 DEF Stopped
<1> QED
  BY <1>1, SubscriptionInvHolds, PTL DEF Spec, StoppedUntilResumed

(* A transaction of a deadlock has inserted evidence another one waits for. *)
LEMMA DeadlockedHolds ==
  ASSUME SubscriptionInv, NEW t \in Tx, Deadlocked(t)
  PROVE  tx[t].newEvent \/ tx[t].newPeriod
<1>1. PICK S \in SUBSET Tx : t \in S /\ \E y \in S : WaitsFor(y, t)
  BY DEF Deadlocked
<1>2. PICK y \in S : WaitsFor(y, t)
  BY <1>1
<1> QED
  BY <1>2 DEF WaitsFor, SharesUser

(* Deliveries of one event wait for each other at its unique key, and are  *)
(* never aborted for a deadlock of each other: an event is inserted before *)
(* its period, and the one that waits holds nothing yet.                   *)
THEOREM DuplicatesNeverDeadlock == Spec => []DuplicatesDoNotDeadlock
<1>1. SubscriptionInv => DuplicatesDoNotDeadlock
  <2> SUFFICES ASSUME SubscriptionInv, NEW t \in Tx, NEW u \in Tx, t # u,
                      Deadlocked(t), Deadlocked(u), tx[t].offer.id = tx[u].offer.id
               PROVE  FALSE
    BY DEF DuplicatesDoNotDeadlock
  <2>1. EvidenceInv /\ EvidenceHeld /\ KeysAreHeldOnce
    BY DEF SubscriptionInv, EvidenceInv
  <2>2. /\ tx[t].newEvent \/ tx[t].newPeriod
        /\ tx[u].newEvent \/ tx[u].newPeriod
    BY DeadlockedHolds
  <2>3. tx[t].step \in {"evidenced", "paid"} /\ tx[u].step \in {"evidenced", "paid"}
    BY <2>1, <2>2 DEF EvidenceHeld
  <2>4. tx[t].offer \in Offers /\ tx[u].offer \in Offers /\ None \notin Offers
    BY <2>1, <2>3, HolderHasOffer, OffersAreEvents
  <2>5. ~tx[t].newEvent /\ ~tx[u].newEvent
    BY <2>1, <2>3, <2>4 DEF EvidenceHeld, KeysAreHeldOnce
  <2>6. tx[t].offer = tx[u].offer
    BY <2>1, <2>3, <2>5 DEF EvidenceHeld
  <2> QED
    BY <2>1, <2>2, <2>5, <2>6 DEF KeysAreHeldOnce
<1> QED
  BY <1>1, SubscriptionInvHolds, PTL

=============================================================================
