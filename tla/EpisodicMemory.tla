--------------------------- MODULE EpisodicMemory ---------------------------
(* The agent's own memory (nooa_harness/memory.py): a row in agent_memory  *)
(* first, an entry in the session's Redis stream second, recalled from the *)
(* stream and only if that gives nothing from the rows.  Agents of the     *)
(* session's tasks write and read at the same time, each in its segment;   *)
(* the operator's commands see the whole session.  Both stores fail, an    *)
(* insert or an append may take effect and raise, and Redis may evict the  *)
(* stream.  A memory is its number, in the order of created_at.            *)
EXTENDS Integers, FiniteSets, FiniteSetsExt, Sequences

CONSTANTS
    Segments,       \* task segments of one session
    Unsegmented,    \* an operator's row, a recall of the whole session
    Writers,        \* coroutines that remember and forget on the session
    Readers,        \* those that recall (one may do both)
    Limit,          \* what a recall asks for
    LiveReach,      \* 4, a recall looks at that many times Limit entries
    DurableReach,   \* 2, or at that many times Limit rows
    StreamKeeps,    \* REDIS_STREAM_MAXLEN
    MaxMemories,    \* bound on what is remembered
    MaxEntries,     \* bound on the stream
    Idle

ASSUME MemoryAssumption ==
    /\ {Limit, LiveReach, DurableReach, StreamKeeps} \subseteq Nat \ {0}
    /\ {MaxMemories, MaxEntries} \subseteq Nat

VARIABLES
    ledger,     \* agent_memory: number |-> [segment, forgotten, payload]
    entries,    \* agent:{session}:memory, oldest first: [id, segment, forgotten]
    working,    \* per agent: what it is doing, or Idle
    lastId,     \* the newest memory made
    told,       \* history: reported stored
    gone        \* history: reported forgotten

Agents == Writers \cup Readers

memoryVars == <<ledger, entries, working, lastId, told, gone>>

MemoryInit ==
    /\ ledger = <<>> /\ entries = <<>> /\ working = [a \in Agents |-> Idle]
    /\ lastId = 0 /\ told = {} /\ gone = {}

Becomes(a, w) == working' = [working EXCEPT ![a] = w]
GivesUp(a) == Becomes(a, Idle)   \* the exception is answered, not raised

---------------------------------------------------------------------------
\* A tool call of an agent, whose segment is its task's, or a command.
RememberAs(a, s) ==
    /\ working[a] = Idle /\ lastId < MaxMemories
    /\ lastId' = lastId + 1
    /\ Becomes(a, [op |-> "insert", id |-> lastId', segment |-> s])
    /\ UNCHANGED <<ledger, entries, told, gone>>
Remember(a) == \E s \in Segments : RememberAs(a, s)
CommandRemember(a) == RememberAs(a, Unsegmented)

\* insert_agent_memory: the row and, in `payload`, the memory as it is now.
InsertMemory(a) ==
    LET m == working[a] IN
    /\ m # Idle /\ m.op = "insert"
    /\ \E stored, raises \in BOOLEAN :
         /\ stored \/ raises
         /\ ledger' = IF stored
                    THEN [i \in DOMAIN ledger \cup {m.id} |->
                            IF i = m.id THEN [segment |-> m.segment, forgotten |-> FALSE,
                                              payload |-> [forgotten |-> FALSE]] ELSE ledger[i]]
                    ELSE ledger
         /\ IF raises THEN GivesUp(a) ELSE Becomes(a, [m EXCEPT !.op = "append"])
    /\ UNCHANGED <<entries, lastId, told, gone>>

\* XADD with an approximate MAXLEN: what is past it goes, or not yet.
Appended(e) ==
    LET longer == Append(entries, e)
    IN {longer, SubSeq(longer, Max({1, Len(longer) - StreamKeeps + 1}), Len(longer))}

AppendEntry(a, e, reported) ==
    /\ Len(entries) < MaxEntries
    /\ \/ entries' \in Appended(e) /\ GivesUp(a) /\ reported
       \/ entries' \in Appended(e) \cup {entries} /\ GivesUp(a) /\ UNCHANGED <<told, gone>>

Publish(a) ==
    LET m == working[a] IN
    /\ m # Idle /\ m.op = "append"
    /\ AppendEntry(a, [id |-> m.id, segment |-> m.segment, forgotten |-> FALSE],
               told' = told \cup {m.id} /\ UNCHANGED gone)
    /\ UNCHANGED <<ledger, lastId>>

---------------------------------------------------------------------------
\* forget: the column is set, the payload is not; then the memory is read
\* back from its payload and appended.
Forget(a) ==
    /\ working[a] = Idle
    /\ \E i \in DOMAIN ledger :
         /\ ledger' = [ledger EXCEPT ![i].forgotten = TRUE]
         /\ working' \in {working, [working EXCEPT ![a] = [op |-> "read back", id |-> i]]}
    /\ UNCHANGED <<entries, lastId, told, gone>>

ReadBack(a) ==
    LET m == working[a] IN
    /\ m # Idle /\ m.op = "read back"
    /\ working' \in {[working EXCEPT ![a] = Idle],
                     [working EXCEPT ![a] = [op |-> "entomb", id |-> m.id,
                                             forgotten |-> ledger[m.id].payload.forgotten]]}
    /\ UNCHANGED <<ledger, entries, lastId, told, gone>>

Entomb(a) ==
    LET m == working[a] IN
    /\ m # Idle /\ m.op = "entomb"
    /\ AppendEntry(a, [id |-> m.id, segment |-> ledger[m.id].segment, forgotten |-> m.forgotten],
               gone' = gone \cup {m.id} /\ UNCHANGED told)
    /\ UNCHANGED <<ledger, lastId>>

---------------------------------------------------------------------------
\* The n greatest of a set of numbers.
NewestOf(ns, n) == {i \in ns : Cardinality({j \in ns : j > i}) < n}
Wanted(segment, s) == s = Unsegmented \/ segment = s

\* _read_agent_memories and recall's filters: of the entries looked at the
\* newest of an id stands, a tombstone goes.
LiveWindow == NewestOf(DOMAIN entries, LiveReach * Limit)
Standing == {k \in LiveWindow : \A j \in DOMAIN entries : entries[j].id = entries[k].id => j <= k}
Live(s) ==
    LET found == {k \in Standing : ~entries[k].forgotten /\ Wanted(entries[k].segment, s)}
    IN {entries[k].id : k \in NewestOf(found, Limit)}

\* read_recent_memories and the same filters: the segment is not in the SQL.
DurableWindow == NewestOf({i \in DOMAIN ledger : ~ledger[i].forgotten}, DurableReach * Limit)
Durable(s) == NewestOf({i \in DurableWindow : Wanted(ledger[i].segment, s)}, Limit)

Recalled(s, knew, had, ids) ==
    [op |-> "recalled", segment |-> s, knew |-> knew, had |-> had, ids |-> ids]

RecallLiveOnly(a, s) ==   \* mutant: an empty stream is an answer
    /\ working[a] = Idle
    /\ Becomes(a, Recalled(s, told, gone, Live(s)))
    /\ UNCHANGED <<ledger, entries, lastId, told, gone>>
RecallAs(a, s) ==
    /\ working[a] = Idle
    /\ Becomes(a, IF Live(s) # {} THEN Recalled(s, told, gone, Live(s))
                   ELSE [op |-> "fall back", segment |-> s, knew |-> told, had |-> gone])
    /\ UNCHANGED <<ledger, entries, lastId, told, gone>>
Recall(a) == \E s \in Segments : RecallAs(a, s)
CommandRecall(a) == RecallAs(a, Unsegmented)

FallBack(a) ==
    LET m == working[a] IN
    /\ m # Idle /\ m.op = "fall back"
    /\ \/ Becomes(a, Recalled(m.segment, m.knew, m.had, Durable(m.segment)))
       \/ GivesUp(a)
    /\ UNCHANGED <<ledger, entries, lastId, told, gone>>

Answered(a) ==
    /\ working[a] # Idle /\ working[a].op = "recalled" /\ GivesUp(a)
    /\ UNCHANGED <<ledger, entries, lastId, told, gone>>

\* allkeys-lru, or a Redis that comes back without its data.
Evicted == entries # <<>> /\ entries' = <<>> /\ UNCHANGED <<ledger, working, lastId, told, gone>>

MemoryNext ==
    \/ Evicted
    \/ \E a \in Writers :
         \/ Remember(a) \/ CommandRemember(a) \/ InsertMemory(a) \/ Publish(a)
         \/ Forget(a) \/ ReadBack(a) \/ Entomb(a)
    \/ \E a \in Readers : Recall(a) \/ CommandRecall(a) \/ FallBack(a) \/ Answered(a)
MemorySpec == MemoryInit /\ [][MemoryNext]_memoryVars

---------------------------------------------------------------------------
(* What an agent was told is stored, its segment recalls, whoever else of  *)
(* the session writes, forgets or fails: what hides it is LiveReach times  *)
(* Limit newer entries of the session, Limit newer ones of its segment, or,*)
(* where it has left the stream, any entry of its segment there or         *)
(* DurableReach times Limit newer rows (memory.py:242, "Postgres is        *)
(* consulted when Redis returns nothing usable").                          *)
HiddenLive(i, s) ==
    LET newer(at) == {entries[k].id : k \in {j \in DOMAIN entries : j > at /\ Wanted(entries[j].segment, s)}}
    IN IF \E k \in DOMAIN entries : entries[k].id = i
       THEN LET at == Max({k \in DOMAIN entries : entries[k].id = i})
            IN Len(entries) - at >= LiveReach * Limit \/ Cardinality(newer(at)) >= Limit
       ELSE newer(0) # {}
HiddenDurable(i, s) ==
    \/ Cardinality({j \in DOMAIN ledger : j > i}) >= DurableReach * Limit
    \/ Cardinality({j \in DOMAIN ledger : j > i /\ Wanted(ledger[j].segment, s)}) >= Limit
StoredIsRecalled ==
    [][\A a \in Agents :
         LET m == working'[a] IN
         (working[a] # m /\ m # Idle /\ m.op = "recalled") =>
            \A i \in m.knew \ m.ids :
              (Wanted(ledger[i].segment, m.segment) /\ ~ledger[i].forgotten) =>
                 IF working[a] = Idle THEN HiddenLive(i, m.segment)
                 ELSE HiddenDurable(i, m.segment)]_memoryVars

(* memory.py:287, forget appends "a tombstoned copy ... so the primary     *)
(* read plan excludes it too": a recall that began after a memory was      *)
(* reported forgotten does not give it.                                    *)
ForgottenStaysOut ==
    \A a \in Agents : (working[a] # Idle /\ working[a].op = "recalled") => working[a].ids \cap working[a].had = {}
=============================================================================
