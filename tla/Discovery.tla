----------------------------- MODULE Discovery -----------------------------
(***************************************************************************)
(* DiscoveryRunner: several discovery cycles (the autonomous runtime, the  *)
(* operator's commands, the jobs of activated profiles) run providers      *)
(* under run keys and turn what they find into sources and references.     *)
(*                                                                         *)
(* A run is started in one transaction, the provider works outside any,    *)
(* and everything it found is stored in a second one.  Sources and         *)
(* references are guarded by unique indexes only: a transaction that meets *)
(* a row another open transaction inserted waits for its end, and the      *)
(* database breaks a circle of waiting transactions.                       *)
(***************************************************************************)
EXTENDS Naturals, FiniteSets, Sequences, Functions

CONSTANTS
    Cycles,      \* cycles that may run at once
    Keys,        \* run keys (provider and bucket, profile or command)
    Plan,        \* Plan[c]: the run keys of cycle c, in order
    Requested,   \* Requested[c]: the time of the cycle, part of every request
    Identities,  \* external identities of chats, each the id of its source
    References,  \* normalised Telegram references (usernames, links)
    Handles,     \* the references that are usernames: one source has each
    Found,       \* Found[k]: what the provider of run k may find, sequences of candidates
    GraphKeys,   \* keys of the source graph provider
    TelegramKeys,\* keys of the profiles' global Telegram search; the others search the Web
    None

(* A candidate names a chat by an identity and by references to it; two    *)
(* providers may know one chat by different identities.                    *)
Candidate == [id : Identities, refs : Seq(References)]

ASSUME PlanAssumption ==
    /\ Plan \in [Cycles -> Seq(Keys) \ {<<>>}]
    /\ Requested \in [Cycles -> Nat]
ASSUME FoundAssumption ==
    \A k \in Keys : \A b \in Found[k] :
        /\ b \in Seq(Candidate)
        /\ \A i, j \in DOMAIN b : b[i].id = b[j].id => i = j
ASSUME HandlesAssumption == Handles \subseteq References

(* A row of discovery_runs, of sources and of source_reference_aliases.    *)
DiscoveryResults == [source : Identities, created : BOOLEAN]
Run == [status : {"running", "completed", "failed"}, requested : Nat,
        results : SUBSET DiscoveryResults]
Source == [by : Keys, refs : SUBSET References]
Alias == [source : Identities, by : Keys]

ASSUME NoneAssumption == None \notin Identities \cup Run \cup Source \cup Alias

VARIABLES
    runs,      \* runs[k]: None or the row of discovery_runs
    sources,   \* sources[i]: None or the committed source of identity i
    aliases,   \* aliases[r]: None or the committed owner of reference r
    cycle      \* the state of each cycle and of its open transaction

discoveryVars == <<runs, sources, aliases, cycle>>

Key(c) == Plan[c][cycle[c].at]
InTransaction(c) == cycle[c].pc \in {"look", "create", "check", "upsert", "complete"}

NoRows == [made |-> <<>>, links |-> <<>>, results |-> {}]

With(f, x, v) == [y \in DOMAIN f \cup {x} |-> IF y = x THEN v ELSE f[y]]

Fresh == [pc |-> "start", at |-> 1, todo |-> <<>>, owner |-> None, refs |-> <<>>, new |-> FALSE,
          tx |-> NoRows, over |-> {}, known |-> {}]

DiscoveryInit ==
    /\ runs = [k \in Keys |-> None]
    /\ sources = [i \in Identities |-> None]
    /\ aliases = [r \in References |-> None]
    /\ cycle = [c \in Cycles |-> Fresh]

-----------------------------------------------------------------------------
(* What a transaction sees: the committed rows and its own.                *)

HasSource(c, i) == i \in DOMAIN cycle[c].tx.made \/ sources[i] # None

OwnerOf(c, r) == IF r \in DOMAIN cycle[c].tx.links THEN cycle[c].tx.links[r]
                 ELSE IF aliases[r] = None THEN None ELSE aliases[r].source

ExistingByIdentity(c, cand) == IF HasSource(c, cand.id) THEN cand.id ELSE None  \* aliases not looked up

(* The existing source of a candidate: by identity, else by the first of   *)
(* its references that has an owner.                                       *)
Existing(c, cand) ==
    LET owned == {n \in DOMAIN cand.refs : OwnerOf(c, cand.refs[n]) # None}
    IN  IF HasSource(c, cand.id) THEN cand.id
        ELSE IF owned = {} THEN None
        ELSE OwnerOf(c, cand.refs[CHOOSE n \in owned : \A m \in owned : n <= m])

(* uq_sources_platform_handle: whether another source has the username.    *)
SameHandle(refs, others) == Range(refs) \cap Range(others) \cap Handles # {}

HandleTaken(c, cand) ==
    \/ \E i \in DOMAIN cycle[c].tx.made : SameHandle(cand.refs, cycle[c].tx.made[i])
    \/ \E i \in Identities : sources[i] # None /\ Range(cand.refs) \cap sources[i].refs \cap Handles # {}

(* The open transactions whose uncommitted rows c must wait for.           *)
Holders(c) ==
    {d \in Cycles \ {c} :
       /\ InTransaction(d)
       /\ \/ /\ cycle[c].pc = "create"
             /\ LET cand == Head(cycle[c].todo) IN
                  \/ cand.id \in DOMAIN cycle[d].tx.made
                  \/ \E i \in DOMAIN cycle[d].tx.made : SameHandle(cand.refs, cycle[d].tx.made[i])
          \/ cycle[c].pc = "upsert" /\ Head(cycle[c].refs) \in DOMAIN cycle[d].tx.links}

InDeadlock(c) == \E S \in SUBSET Cycles :
                    /\ c \in S
                    /\ \A d \in S : Holders(d) \cap S # {}

-----------------------------------------------------------------------------
Proceeds(c, pc) == cycle' = [cycle EXCEPT ![c].pc = pc]

(* After a run, the cycle goes on with its next key, unless it was aborted. *)
NextKey(c, outcome) ==
    LET at == cycle[c].at
        last == at = Len(Plan[c])
    IN  [cycle EXCEPT ![c] =
           [Fresh EXCEPT !.pc = IF outcome = "aborted" THEN "aborted" ELSE IF last THEN "done" ELSE "start",
                         !.at = IF last THEN at ELSE at + 1]]

(* The identities and references of sources, which the searches through    *)
(* Telegram leave out; they are read once, when the provider is built.     *)
KnownIdentities ==
    {i \in Identities : sources[i] # None} \cup
    UNION {sources[i].refs : i \in {j \in Identities : sources[j] # None}}

(* DiscoveryRunRepository: the row of a run key, inserted as running and   *)
(* ended once; the request of a key never changes.                         *)
StartedRun(c) ==
    [runs EXCEPT ![Key(c)] = [status |-> "running", requested |-> Requested[c], results |-> {}]]

SameRequest(c) == runs[Key(c)].requested = Requested[c]

FailedRun(c) == [runs EXCEPT ![Key(c)].status = "failed"]

CompletedRun(c, results) ==
    [runs EXCEPT ![Key(c)].status = "completed", ![Key(c)].results = results]

RecordedResult(c) ==
    cycle[c].tx.results \cup
        (IF cycle[c].todo = <<>> THEN {}
         ELSE {[source |-> cycle[c].owner, created |-> cycle[c].new]})

(* The first transaction: the run is inserted, or the existing one of this *)
(* key is returned without working, when its request is the same.          *)
Start(c) ==
    /\ cycle[c].pc = "start"
    /\ \/ /\ runs[Key(c)] = None
          /\ runs' = StartedRun(c)
          /\ cycle' = [cycle EXCEPT ![c].pc = "discover", ![c].known = KnownIdentities]
       \/ /\ runs[Key(c)] # None
          /\ SameRequest(c)
          /\ cycle' = NextKey(c, "skipped")
          /\ UNCHANGED runs
       \/ /\ runs[Key(c)] # None
          /\ ~SameRequest(c)
          /\ cycle' = NextKey(c, "aborted")
          /\ UNCHANGED runs
    /\ UNCHANGED <<sources, aliases>>

(* _fail: the open transaction is rolled back, the run ends as failed, and *)
(* DiscoveryExecutionError is caught around each key of the cycle; only    *)
(* the flood wait of a profile's Telegram search ends the whole cycle.     *)
Fails(c, flood) ==
    /\ runs' = FailedRun(c)
    /\ cycle' = NextKey(c, IF flood /\ Key(c) \in TelegramKeys THEN "aborted" ELSE "failed")
    /\ UNCHANGED <<sources, aliases>>

(* The provider found a batch and the second transaction begins.  "over"   *)
(* is a history variable: the runs whose transactions this one ran beside. *)
Finds(c, batch) ==
    /\ LET beside == {d \in Cycles : InTransaction(d)}
       IN  cycle' = [d \in Cycles |->
              IF d = c THEN [cycle[c] EXCEPT !.pc = IF batch = <<>> THEN "complete" ELSE "look",
                                             !.todo = batch,
                                             !.over = {Key(e) : e \in beside}]
              ELSE IF d \in beside THEN [cycle[d] EXCEPT !.over = @ \cup {Key(c)}]
              ELSE cycle[d]]
    /\ UNCHANGED <<runs, sources, aliases>>

IsUnknown(c, cand) == cand.id \notin cycle[c].known
                      /\ \A n \in DOMAIN cand.refs : cand.refs[n] \notin cycle[c].known

(* What a batch has that is not known, in its order.                       *)
Unknown(c, batch) ==
    LET unknown == {n \in DOMAIN batch : IsUnknown(c, batch[n])}
        numberings == {p \in [1..Cardinality(unknown) -> unknown] :
                         \A i, j \in DOMAIN p : i < j => p[i] < p[j]}
    IN  {[i \in DOMAIN p |-> batch[p[i]]] : p \in numberings}

(* The graph provider reads the history of its seeds and resolves what is  *)
(* not known; any failed request but the resolution of one reference fails *)
(* the run.                                                                *)
GraphDiscovers(c) ==
    /\ cycle[c].pc = "discover" /\ Key(c) \in GraphKeys
    /\ \/ \E batch \in Found[Key(c)] : \E new \in Unknown(c, batch) : Finds(c, new)
       \/ Fails(c, FALSE)

(* The global search of a profile leaves out the known chats; any failed   *)
(* page fails the run.                                                     *)
TelegramDiscovers(c) ==
    /\ cycle[c].pc = "discover" /\ Key(c) \in TelegramKeys
    /\ \/ \E batch \in Found[Key(c)] : \E new \in Unknown(c, batch) : Finds(c, new)
       \/ \E flood \in BOOLEAN : Fails(c, flood)

(* The Web provider filters nothing.  It stops at the first query that all *)
(* backends fail, and returns what it has by then.                         *)
WebDiscovers(c) ==
    /\ cycle[c].pc = "discover" /\ Key(c) \notin GraphKeys \cup TelegramKeys
    /\ \E batch \in Found[Key(c)] : \E n \in 0..Len(batch) : Finds(c, SubSeq(batch, 1, n))

(* The next candidate is looked up, and its lineage recorded if it exists. *)
Look(c) ==
    /\ cycle[c].pc = "look"
    /\ LET cand == Head(cycle[c].todo)
           found == Existing(c, cand)
       IN  cycle' = [cycle EXCEPT
                ![c].pc = IF found = None THEN "create"
                          ELSE IF cand.refs = <<>> THEN "complete" ELSE "check",
                ![c].owner = found,
                ![c].refs = cand.refs,
                ![c].new = FALSE]
    /\ UNCHANGED <<runs, sources, aliases>>

CreateCountsConflict(c) ==  \* "created" is not reset when the insert meets a conflict
    /\ cycle[c].pc = "create"
    /\ Holders(c) = {}
    /\ LET cand == Head(cycle[c].todo)
       IN  cycle' = [cycle EXCEPT
                ![c].pc = IF cand.refs = <<>> THEN "complete" ELSE "check",
                ![c].owner = cand.id,
                ![c].new = TRUE,
                ![c].tx.made = With(@, cand.id, cand.refs)]
    /\ UNCHANGED <<runs, sources, aliases>>

(* create_candidate inserts; on a conflict of the identity the source that *)
(* is there by now is the candidate's, and one of the username, which the  *)
(* statement does not provide for, fails the run.                          *)
Create(c) ==
    /\ cycle[c].pc = "create"
    /\ Holders(c) = {}
    /\ LET cand == Head(cycle[c].todo)
           new == sources[cand.id] = None
       IN  IF new /\ HandleTaken(c, cand)
           THEN Fails(c, FALSE)
           ELSE /\ cycle' = [cycle EXCEPT
                     ![c].pc = IF cand.refs = <<>> THEN "complete" ELSE "check",
                     ![c].owner = cand.id,
                     ![c].new = new,
                     ![c].tx.made = IF new THEN With(@, cand.id, cand.refs) ELSE @]
                /\ UNCHANGED <<runs, sources, aliases>>

CheckOwnerNever(c) ==  \* the existing owner is not compared
    cycle[c].pc = "check" /\ Proceeds(c, "upsert") /\ UNCHANGED <<runs, sources, aliases>>

(* record_alias reads the owner of a reference and refuses another one ... *)
CheckOwner(c) ==
    /\ cycle[c].pc = "check"
    /\ IF OwnerOf(c, Head(cycle[c].refs)) \in {None, cycle[c].owner}
       THEN Proceeds(c, "upsert") /\ UNCHANGED <<runs, sources, aliases>>
       ELSE Fails(c, FALSE)

(* ... then inserts the reference, or makes the row that is there its own. *)
Upsert(c) ==
    /\ cycle[c].pc = "upsert"
    /\ Holders(c) = {}
    /\ LET r == Head(cycle[c].refs)
           rest == Tail(cycle[c].refs)
       IN  cycle' = [cycle EXCEPT
                ![c].pc = IF rest = <<>> THEN "complete" ELSE "check",
                ![c].refs = rest,
                ![c].tx.links = With(@, r, cycle[c].owner)]
    /\ UNCHANGED <<runs, sources, aliases>>

(* The result of the candidate is recorded; after the last one the run is  *)
(* completed and the transaction commits.                                  *)
Complete(c) ==
    /\ cycle[c].pc = "complete"
    /\ LET todo == cycle[c].todo
           results == RecordedResult(c)
           tx == cycle[c].tx
       IN  IF Len(todo) > 1
           THEN /\ cycle' = [cycle EXCEPT ![c].pc = "look", ![c].todo = Tail(@),
                                          ![c].tx.results = results]
                /\ UNCHANGED <<runs, sources, aliases>>
           ELSE /\ runs' = CompletedRun(c, results)
                /\ sources' = [i \in Identities |->
                                 IF i \in DOMAIN tx.made
                                 THEN [by |-> Key(c),
                                       refs |-> Range(tx.made[i])]
                                 ELSE sources[i]]
                /\ aliases' = [r \in References |->
                                 IF r \in DOMAIN tx.links
                                 THEN [source |-> tx.links[r], by |-> Key(c)]
                                 ELSE aliases[r]]
                /\ cycle' = NextKey(c, "stored")

(* Statements that wait in a circle: the database ends one of them.        *)
DeadlockDetected(c) == InDeadlock(c) /\ Fails(c, FALSE)

(* The process dies or the cycle is cancelled: no handler of the runner    *)
(* runs, and the database rolls back what was open.                        *)
Dies(c) ==
    /\ cycle[c].pc \in {"discover"} \/ InTransaction(c)
    /\ cycle' = NextKey(c, "aborted")
    /\ UNCHANGED <<runs, sources, aliases>>

Ended == \A c \in Cycles : cycle[c].pc \in {"done", "aborted"}

DiscoveryNext ==
    \/ \E c \in Cycles :
         \/ Start(c) \/ GraphDiscovers(c) \/ TelegramDiscovers(c) \/ WebDiscovers(c)
         \/ Look(c) \/ Create(c) \/ CheckOwner(c) \/ Upsert(c) \/ Complete(c)
         \/ DeadlockDetected(c) \/ Dies(c)
    \/ Ended /\ UNCHANGED discoveryVars

DiscoverySpec == DiscoveryInit /\ [][DiscoveryNext]_discoveryVars

-----------------------------------------------------------------------------
(* What the tables hold: a run that is not completed has no results, those *)
(* of a completed one name sources, and so do the references.              *)
DiscoveryRuns ==
    /\ runs \in [Keys -> {None} \cup Run]
    /\ \A k \in {x \in Keys : runs[x] # None} :
        \A r \in runs[k].results : runs[k].status = "completed" /\ sources[r.source] # None

SourceIdentities ==
    /\ sources \in [Identities -> {None} \cup Source]
    /\ \A i, j \in Identities : i # j /\ None \notin {sources[i], sources[j]} =>
          sources[i].refs \cap sources[j].refs \cap Handles = {}

ReferenceAliases ==
    /\ aliases \in [References -> {None} \cup Alias]
    /\ \A r \in References : aliases[r] # None => sources[aliases[r].source] # None

DiscoveryTypes ==
    /\ DiscoveryRuns /\ SourceIdentities /\ ReferenceAliases
    /\ \A c \in Cycles : /\ cycle[c].tx.results \subseteq DiscoveryResults
                         /\ ~InTransaction(c) => cycle[c].tx = NoRows
                         /\ InTransaction(c) => runs[Key(c)].status = "running"

-----------------------------------------------------------------------------
(* Every committed source was created by exactly one run, and that run     *)
(* completed: an insert that lost against another run, or was rolled back  *)
(* with it, is never counted or left behind (create_candidate,             *)
(* record_result).                                                         *)
EverySourceHasOneCreator ==
    \A i \in Identities :
        LET creators == {k \in Keys : runs[k] # None
                           /\ [source |-> i, created |-> TRUE] \in runs[k].results}
        IN  /\ sources[i] # None => creators = {sources[i].by}
            /\ sources[i] = None => creators = {}
            /\ \A k \in creators : runs[k].status = "completed"

(* A chat known by a reference is not made a second source: while a run    *)
(* stores a source it created, another source holds one of its references  *)
(* only if another run was stored at the same time (the lookups of run).   *)
NewSourceOwnsItsReferences ==
    \A c \in Cycles :
        cycle[c].pc \in {"check", "upsert"} /\ cycle[c].new =>
            \/ OwnerOf(c, Head(cycle[c].refs)) \in {None, cycle[c].owner}
            \/ cycle[c].over # {}

(* The owner of a reference is only taken away by a run that was stored    *)
(* at the same time as the run that set it: record_alias refuses what it   *)
(* sees, and its upsert overwrites only what it did not see.               *)
AliasesMoveOnlyInOverlap ==
    [][\A r \in References :
         aliases[r] # None /\ aliases'[r].source # aliases[r].source =>
             \E c \in Cycles : /\ cycle[c].pc = "complete"
                               /\ cycle'[c].pc # "complete"
                               /\ aliases[r].by \in cycle[c].over]_discoveryVars
=============================================================================
