--------------------------- MODULE PlaneGovernance ---------------------------
(***************************************************************************)
(* The governor of one plane, for one symbol: what its FSM decides at the  *)
(* three gates of a fire (governance/fsm.py, gates.py), what the ledger    *)
(* keeps of the decisions, and what the dispatch guard makes of both when  *)
(* an invoke asks what it may compute.                                     *)
(*                                                                         *)
(* An observation is the set of rules it breaks.  A resident worker's      *)
(* payload is named, attributed and of the declared family by the way it   *)
(* is made (SubstrateStatePayload); it breaks a rule when the worker and   *)
(* the registry disagree about the inputs or the schema, when the history  *)
(* cannot be read, or when somebody newer has published.  The leases of    *)
(* an invoke are DispatchLease's, the storing of a fire FireWorker's.      *)
(***************************************************************************)
EXTENDS Integers, Sequences, SequencesExt, FiniteSets

CONSTANTS
    Names,       \* the plane's registered substrates
    Residents,   \* those a resident worker runs for
    Strangers,   \* other names an invoke may ask for
    GroupRank,   \* dispatch_group_rank, of each name
    HotBelow,    \* cooldown_s of the manifests
    StaleFrom,   \* staleness_s
    DenialsRead, \* how many denials authorize_dispatch reads
    Asked,       \* the requests that are made, sequences of names
    MaxGovClock, \* bound: the clock stops here
    MaxDenials   \* bound: denials on the stream

ASSUME GovernanceAssumption ==
    /\ Residents \subseteq Names /\ Names \cap Strangers = {}
    /\ GroupRank \in [Names -> Nat]
    /\ {HotBelow, StaleFrom, DenialsRead, MaxGovClock, MaxDenials} \subseteq Nat
    /\ HotBelow <= StaleFrom
    /\ Asked \subseteq Seq(Names \cup Strangers)

VARIABLES
    govClock,
    build,       \* per substrate, how its running worker fits the registry
    govFire,     \* per substrate, the fire under way: its time and next step
    projection,  \* per substrate, the entries under substrate.<name>: one or none
    denials,     \* the plane's denial stream, oldest first
    invoking,    \* names an invoke may compute and has not finished
    ticket,      \* the ticket just issued, NoTicket between two
    faulty       \* history: substrates of which an unsound build ran

govVars == <<govClock, build, govFire, projection, denials, invoking, ticket, faulty>>

NoAge    == -1
Gates    == {"fire", "publish", "pg_write"}
Builds   == {"sound", "drifted", "reschemed"}
NoFire   == [at |-> 0, next |-> "none"]
GovFires == [at : 0..MaxGovClock, next : Gates \cup {"none", "store"}]
Entry(t) == [computed_at_ms |-> t]
NoTicket == [asked |-> <<>>, unread |-> {}, batches |-> <<>>, denied |-> {}]

GovTypeOK ==
    /\ govClock \in 0..MaxGovClock
    /\ build \in [Names -> Builds]
    /\ govFire \in [Names -> GovFires]
    /\ projection \in [Names -> SUBSET {Entry(t) : t \in 0..MaxGovClock}]
    /\ invoking \subseteq Names
    /\ faulty \subseteq Names

GovInit ==
    /\ govClock = 0
    /\ build = [n \in Names |-> "sound"]
    /\ govFire = [n \in Names |-> NoFire]
    /\ projection = [n \in Names |-> {}]
    /\ denials = <<>>
    /\ invoking = {}
    /\ ticket = NoTicket
    /\ faulty = {}

-----------------------------------------------------------------------------
(* decide(): the rules of a gate in their order; the first that is broken  *)
(* is the verdict's.                                                       *)
Always == <<"unknown-substrate", "manifest-invalid", "plane-mismatch">>

OutputRules ==
    <<"observation-unavailable", "keyspace-trespass", "status-invalid",
      "schema-drift", "output-fabricated", "out-of-order-write">>

GateRules == [
    fire     |-> Always \o <<"binding-drift", "plane-rules">>,
    publish  |-> Always \o OutputRules \o <<"plane-rules">>,
    pg_write |-> Always \o OutputRules \o <<"trigger-missing", "plane-rules">>]

Decide(gate, broken) ==
    LET hits == {i \in DOMAIN GateRules[gate] : GateRules[gate][i] \in broken}
    IN  IF hits = {} THEN "allow" ELSE GateRules[gate][Min(hits)]

(* observe(), the history being readable or not.                           *)
Broken(n, readable) ==
    (IF build[n] = "drifted" THEN {"binding-drift"} ELSE {})
    \cup (IF build[n] = "reschemed" THEN {"schema-drift"} ELSE {})
    \cup (IF ~readable THEN {"observation-unavailable"}
          ELSE IF \E e \in projection[n] : govFire[n].at < e.computed_at_ms
          THEN {"out-of-order-write"} ELSE {})

AfterGate == [fire |-> "publish", publish |-> "pg_write", pg_write |-> "store"]

EndGovFire(n) == govFire' = [govFire EXCEPT ![n] = NoFire]

-----------------------------------------------------------------------------
GovTick ==
    /\ govClock < MaxGovClock
    /\ govClock' = govClock + 1
    /\ ticket' = NoTicket
    /\ UNCHANGED <<build, govFire, projection, denials, invoking, faulty>>

(* Another build of the worker is rolled out; its fire under way is lost.  *)
Deploy(n) ==
    /\ \E b \in Builds \ {build[n]} :
         /\ build' = [build EXCEPT ![n] = b]
         /\ faulty' = IF b = "sound" THEN faulty ELSE faulty \cup {n}
    /\ EndGovFire(n)
    /\ ticket' = NoTicket
    /\ UNCHANGED <<govClock, projection, denials, invoking>>

StartFire(n) ==
    /\ govFire[n] = NoFire
    /\ govFire' = [govFire EXCEPT ![n] = [at |-> govClock, next |-> "fire"]]
    /\ ticket' = NoTicket
    /\ UNCHANGED <<govClock, build, projection, denials, invoking, faulty>>

(* GovernanceLedger.record(): one script puts a denial on the stream, or   *)
(* fails, which is counted and changes nothing else.                       *)
RecordDenial(n, rule) ==
    \/ /\ Len(denials) < MaxDenials
       /\ denials' = Append(denials, [substrate |-> n, rule |-> rule])
    \/ UNCHANGED denials

(* _govern(): evaluate, and record a denial, which ends the fire.          *)
GovernFire(n) ==
    /\ govFire[n].next \in Gates
    /\ \E readable \in BOOLEAN :
         LET rule == Decide(govFire[n].next, Broken(n, readable))
         IN  IF rule = "allow"
             THEN /\ govFire' = [govFire EXCEPT ![n].next = AfterGate[@]]
                  /\ UNCHANGED denials
             ELSE EndGovFire(n) /\ RecordDenial(n, rule)
    /\ ticket' = NoTicket
    /\ UNCHANGED <<govClock, build, projection, invoking, faulty>>

(* A gate raises and fails closed, the insert fails, or the process dies.  *)
FireEnds(n) ==
    /\ govFire[n] # NoFire
    /\ EndGovFire(n)
    /\ ticket' = NoTicket
    /\ UNCHANGED <<govClock, build, projection, denials, invoking, faulty>>

StoreFire(n) ==
    /\ govFire[n].next = "store"
    /\ projection' = [projection EXCEPT ![n] = {Entry(govFire[n].at)}]
    /\ EndGovFire(n)
    /\ ticket' = NoTicket
    /\ UNCHANGED <<govClock, build, denials, invoking, faulty>>

-----------------------------------------------------------------------------
(* _dispatch_ages(): the age an entry states itself, or that of its        *)
(* payload; none for an entry that has neither.                            *)
AgeOf(e) ==
    IF "age_ms" \in DOMAIN e THEN e.age_ms
    ELSE IF "payload" \in DOMAIN e THEN govClock - e.payload.computed_at_ms
    ELSE NoAge

DispatchAge(n) == IF projection[n] = {} THEN NoAge ELSE AgeOf(CHOOSE e \in projection[n] : TRUE)

(* quarantine_from_denials() over the newest DenialsRead.                  *)
QuarantineRules == {"binding-drift", "schema-drift", "manifest-invalid", "unknown-substrate"}
NewestDenials == {denials[i] : i \in {j \in DOMAIN denials : j + DenialsRead > Len(denials)}}

QuarantinedAny ==   \* mutant: a denial of any rule
    {d.substrate : d \in NewestDenials}

Quarantined == {d.substrate : d \in {x \in NewestDenials : x.rule \in QuarantineRules}}

(* decide_dispatch(): refuse one by one, batch what is left.               *)
Refusal(n, quarantine, age) ==
    CASE n \notin Names -> "unknown-substrate"
      [] n \in quarantine -> "quarantined-binding"
      [] n \in Names \ quarantine /\ age # NoAge /\ age < HotBelow -> "cooldown"
      [] OTHER -> "none"

Urgent(age) == age = NoAge \/ age >= StaleFrom

BatchHeavyFirst(S) ==   \* mutant: heavy substrates before light ones
    SetToSortSeq(S, LAMBDA m, n : GroupRank[m] > GroupRank[n])

Batch(S) == SetToSortSeq(S, LAMBDA m, n : GroupRank[m] < GroupRank[n])

Wanted(asked) == IF asked = <<>> THEN Names ELSE ToSet(asked)

DecideDispatch(asked, quarantine, ages) ==
    LET age(n)  == IF n \in Names THEN ages[n] ELSE NoAge
        denied  == {[substrate |-> n, rule |-> Refusal(n, quarantine, age(n))] : n \in Wanted(asked)}
        allowed == {d.substrate : d \in {x \in denied : x.rule = "none"}}
        batches == <<Batch({n \in allowed : Urgent(age(n))}), Batch({n \in allowed : ~Urgent(age(n))})>>
    IN  [batches |-> SelectSeq(batches, LAMBDA b : b # <<>>),
         denied  |-> {d \in denied : d.rule # "none"}]

Allowed(t) == UNION {ToSet(b) : b \in ToSet(t.batches)}

(* The reads of the ages may fail, and so may that of the denials.         *)
AuthorizeDispatch ==
    \E asked \in Asked, unread \in {{}, {"denials"}, Names, Names \cup {"denials"}} :
      LET ages == [n \in Names |-> IF n \in unread THEN NoAge ELSE DispatchAge(n)]
          quarantine == IF "denials" \in unread THEN {} ELSE Quarantined
          decision == DecideDispatch(asked, quarantine, ages)
      IN  /\ ticket' = [asked |-> asked, unread |-> unread, batches |-> decision.batches,
                        denied |-> decision.denied]
          /\ invoking' = invoking \cup Allowed(ticket')
          /\ UNCHANGED <<govClock, build, govFire, projection, denials, faulty>>

(* A transient without a governor computes and publishes, or does not.     *)
InvokePublishes(n) ==
    /\ n \in invoking
    /\ invoking' = invoking \ {n}
    /\ projection' \in {projection, [projection EXCEPT ![n] = {Entry(govClock)}]}
    /\ ticket' = NoTicket
    /\ UNCHANGED <<govClock, build, govFire, denials, faulty>>

GovNext ==
    \/ GovTick \/ AuthorizeDispatch
    \/ \E n \in Names : InvokePublishes(n)
    \/ \E n \in Residents :
         \/ Deploy(n) \/ StartFire(n) \/ GovernFire(n) \/ FireEnds(n) \/ StoreFire(n)

GovSpec == GovInit /\ [][GovNext]_govVars

-----------------------------------------------------------------------------
(* Every name an invoke asks for is answered once, allowed or refused,     *)
(* whatever it asks for twice, and a batch computes its light substrates   *)
(* first (decide_dispatch).                                                *)
TicketSound ==
    ticket # NoTicket =>
        LET refused == {d.substrate : d \in ticket.denied}
            order   == FlattenSeq(ticket.batches)
        IN  /\ Allowed(ticket) \cup refused = Wanted(ticket.asked)
            /\ Allowed(ticket) \cap refused = {}
            /\ Len(order) = Cardinality(Allowed(ticket))
            /\ \A b \in ToSet(ticket.batches) : \A i, j \in DOMAIN b :
                   i < j => GroupRank[b[i]] <= GroupRank[b[j]]

(* "Fail-open is behavioral" (gates.py:438): a store that cannot be read,  *)
(* now or when a gate failed closed on it, refuses no invoke.  A substrate *)
(* is refused because an unsound build of it ran.                          *)
OutageRefusesNothing ==
    \A d \in ticket.denied : d.substrate \in Names =>
        d.substrate \in faulty /\ "denials" \notin ticket.unread

(* "cooldown-hot (age < cooldown); no compute spent" (fsm.py:447): what    *)
(* was published within the cooldown, and could be read, is not computed   *)
(* again.                                                                  *)
HotIsSpared ==
    \A n \in Allowed(ticket) \ ticket.unread : \A e \in projection[n] :
        govClock - e.computed_at_ms >= HotBelow

=============================================================================
