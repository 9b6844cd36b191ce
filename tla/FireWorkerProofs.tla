--------------------------- MODULE FireWorkerProofs ---------------------------
(***************************************************************************)
(* What holds of a worker pair for every clock, cooldown, number of fires, *)
(* transients and crashes: the invariant is preserved by every action of   *)
(* FireWorker, one step of the proof for each.  After it, the loop that    *)
(* reads the worker's input (InputReader), and the folds of its trailing   *)
(* horizons (HorizonFold).                                                 *)
(***************************************************************************)
EXTENDS FireWorker, InputReader, HorizonFold, WellFoundedInduction, SequenceTheorems, TLAPS

(* A coroutine between _fire's gates and its tail holds a real decision.   *)
CarriesDecision ==
    \A c \in Cores : place[c] \in {"gate", "dedupe", "launch"} => dec[c] \in Decision

(* A strict fire comes to its publish only after its row was inserted.     *)
InsertedFirst ==
    PgStrict => \A c \in Cores : cur[c].phase = "publish" => cur[c].d.at \in ledger

(* A transient that has not been started has no fire.                      *)
OffIsIdle ==
    \A t \in Transients : place[t] = "off" => cur[t] = NoFire /\ ready[t] = <<>>

(* Past the publish gate a fire is not older than the projection: true as  *)
(* long as the resident's lock holder is the only writer.                  *)
PassedInOrder ==
    Alone =>
        \A c \in Cores : cur[c].phase \in {"pg_gate", "pg", "publish"}
                            => cur[c].d.at >= latest

(* The inductive invariant.  LedgerCoversProjection alone is not: Publish  *)
(* needs to know that its stamp is in the ledger already.                  *)
IInv ==
    /\ TypeOK
    /\ CarriesDecision
    /\ OffIsIdle
    /\ InsertedFirst
    /\ PgStrict => LedgerCoversProjection
    /\ PassedInOrder

-----------------------------------------------------------------------------
LEMMA InitIInv == Init => IInv
  <1> SUFFICES ASSUME Init PROVE IInv
    OBVIOUS
  <1> USE FireAssumption
  <1>0. MaxClock \in Nat /\ MaxWater \in Nat /\ MaxCrashes \in Nat /\ Ttl \in Nat
    OBVIOUS
  <1>1. TypeOK
    <2>1. clock \in Stamp /\ water \in 0..MaxWater /\ cursor \in 0..water /\ latest \in Stamp
          /\ crashes \in 0..MaxCrashes /\ ledger \subseteq Stamp
      BY <1>0 DEF Init, Stamp
    <2>2. place \in [Cores -> Places] /\ dec \in [Cores -> Decision \cup {NoDec}]
          /\ pending \in [Cores -> Decision \cup {NoDec}]
          /\ ready \in [Cores -> Seq(Decision)]
          /\ cur \in [Cores -> [d : Decision, phase : Phase] \cup {NoFire}]
      BY DEF Init, Places
    <2>3. lastFire \in [Cores -> Stamp \cup {-1}] /\ served \in [Cores -> Stamp]
      BY <1>0 DEF Init, Stamp
    <2>4. sup \in [kind : {"none", "beat", "mark"}, water : 0..MaxWater,
                   src : Sources \cup {"none"}, expires : 0..Never]
      BY <1>0 DEF Init, NoKey, Never
    <2> QED
      BY <2>1, <2>2, <2>3, <2>4 DEF TypeOK, Init
  <1>2. CarriesDecision /\ OffIsIdle /\ InsertedFirst /\ LedgerCoversProjection /\ PassedInOrder
    BY DEF Init, CarriesDecision, OffIsIdle, InsertedFirst, LedgerCoversProjection, PassedInOrder, NoFire, Cores
  <1> QED
    BY <1>1, <1>2 DEF IInv

-----------------------------------------------------------------------------
(* The tail of a task and the hand-over of pending keep the types.         *)
LEMMA EndFireTypes ==
    ASSUME TypeOK, NEW c \in Cores, cur[c] # NoFire, EndFire(c)
    PROVE  /\ cur' \in [Cores -> [d : Decision, phase : Phase] \cup {NoFire}]
           /\ pending' \in [Cores -> Decision \cup {NoDec}]
           /\ ready' \in [Cores -> Seq(Decision)]
           /\ served' \in [Cores -> Stamp]
           /\ cur' = [cur EXCEPT ![c] = NoFire]
  <1>1. cur[c].d.at \in Stamp
    BY DEF TypeOK, Decision
  <1>2. ready[c] \in Seq(Decision)
    BY DEF TypeOK
  <1>3. pending[c] # NoDec => Append(ready[c], pending[c]) \in Seq(Decision)
    BY <1>2 DEF TypeOK
  <1> QED
    BY <1>1, <1>2, <1>3 DEF TypeOK, EndFire

LEMMA AdvanceTypes ==
    ASSUME TypeOK, NEW c \in Cores, cur[c] # NoFire, NEW p \in Phase, Advance(c, p)
    PROVE  /\ cur' \in [Cores -> [d : Decision, phase : Phase] \cup {NoFire}]
           /\ UNCHANGED <<ready, pending, served>>
           /\ cur'[c] = [d |-> cur[c].d, phase |-> p]
           /\ \A k \in Cores \ {c} : cur'[k] = cur[k]
  <1>1. cur[c] \in [d : Decision, phase : Phase]
    BY DEF TypeOK
  <1> QED
    BY <1>1 DEF TypeOK, Advance

(* decide() hands a well-formed decision to the gates, or none.            *)
LEMMA HandleDecides ==
    ASSUME IInv, NEW c \in Cores, Handle(c)
    PROVE  dec' \in [Cores -> Decision \cup {NoDec}] /\ CarriesDecision'
  <1> DEFINE w == IF Delivered > cursor THEN Delivered ELSE 0
  <1>1. w \in 0..MaxWater /\ clock \in Stamp
    BY FireAssumption DEF IInv, TypeOK, Delivered
  <1> HIDE DEF w
  <1>2. ASSUME NEW src \in Sources,
               dec' = [dec EXCEPT ![c] = [at |-> clock, water |-> w, src |-> src]],
               Go(c, "gate")
        PROVE  dec' \in [Cores -> Decision \cup {NoDec}] /\ CarriesDecision'
    <2>1. [at |-> clock, water |-> w, src |-> src] \in Decision
      BY <1>1 DEF Decision
    <2> QED
      BY <1>2, <2>1 DEF IInv, TypeOK, CarriesDecision, Go
  <1>3. ASSUME Go(c, AfterHandle(c)), dec' = dec
        PROVE  dec' \in [Cores -> Decision \cup {NoDec}] /\ CarriesDecision'
    BY <1>3 DEF IInv, TypeOK, CarriesDecision, Go, AfterHandle
  <1> QED
    BY <1>2, <1>3 DEF Handle, w

(* Actions of the loop: they touch neither the fire in flight nor the      *)
(* projection, and never take a row out of the ledger.                     *)
LEMMA LoopKeepsIInv ==
    ASSUME IInv, NEW c \in Cores, Loop(c)
    PROVE  IInv'
  <1> USE FireAssumption
  <1>0. /\ MaxClock \in Nat /\ MaxWater \in Nat /\ MaxCrashes \in Nat /\ Ttl \in Nat
        /\ clock \in 0..MaxClock /\ water \in 0..MaxWater /\ cursor \in 0..water
    BY DEF IInv, TypeOK, Stamp
  <1>1. UNCHANGED <<cur, served, ledger, latest, crashes, clock, water>>
    BY DEF Loop, InvokeStart, Handle, LoopFails, FireGate, Dedupe, DedupeFails, Launch, Beat,
           InvokeStop, fires, stores, world
  <1>2. TypeOK'
    <2>1. cursor' \in 0..water'
      BY <1>0, <1>1 DEF Loop, InvokeStart, Handle, LoopFails, FireGate, Dedupe, DedupeFails,
           Launch, Beat, InvokeStop, Delivered, world
    <2>2. place' \in [Cores -> Places]
      <3>1. \E p \in Places : Go(c, p)
        BY DEF Loop, InvokeStart, Handle, LoopFails, FireGate, Dedupe, DedupeFails,
             Launch, Beat, InvokeStop, Places, AfterHandle
      <3> QED
        BY <3>1 DEF IInv, TypeOK, Go
    <2>3. dec' \in [Cores -> Decision \cup {NoDec}]
      <3>1. CASE Handle(c)
        BY <3>1, HandleDecides
      <3>2. CASE ~Handle(c)
        BY <3>2 DEF IInv, TypeOK, CarriesDecision, Loop, InvokeStart, LoopFails, FireGate, Dedupe,
             DedupeFails, Launch, Beat, InvokeStop, Go, AfterHandle
      <3> QED
        BY <3>1, <3>2
    <2>4. /\ ready' \in [Cores -> Seq(Decision)]
          /\ pending' \in [Cores -> Decision \cup {NoDec}]
          /\ lastFire' \in [Cores -> Stamp \cup {-1}]
      <3>1. CASE Launch(c)
        <4>1. dec[c] \in Decision /\ dec[c].at \in Stamp
          BY <3>1 DEF IInv, CarriesDecision, Launch, Decision
        <4>2. ready[c] \in Seq(Decision) /\ Append(ready[c], dec[c]) \in Seq(Decision)
          BY <4>1 DEF IInv, TypeOK
        <4>3. /\ ready' = ready \/ ready' = [ready EXCEPT ![c] = Append(ready[c], dec[c])]
              /\ pending' = pending \/ pending' = [pending EXCEPT ![c] = dec[c]]
              /\ lastFire' = [lastFire EXCEPT ![c] = dec[c].at]
          BY <3>1 DEF Launch
        <4>4. ready' \in [Cores -> Seq(Decision)]
          BY <4>2, <4>3 DEF IInv, TypeOK
        <4>5. /\ pending' \in [Cores -> Decision \cup {NoDec}]
              /\ lastFire' \in [Cores -> Stamp \cup {-1}]
          BY <4>1, <4>3 DEF IInv, TypeOK
        <4> QED
          BY <4>3, <4>4, <4>5 DEF IInv, TypeOK
      <3>2. CASE ~Launch(c)
        BY <3>2 DEF IInv, TypeOK, CarriesDecision, Loop, InvokeStart, Handle, LoopFails, FireGate,
             Dedupe, DedupeFails, Beat, InvokeStop, fires
      <3> QED
        BY <3>1, <3>2
    <2>5. sup' \in [kind : {"none", "beat", "mark"}, water : 0..MaxWater,
                    src : Sources \cup {"none"}, expires : 0..Never]
      <3>1. Heartbeat \in [kind : {"none", "beat", "mark"}, water : 0..MaxWater,
                           src : Sources \cup {"none"}, expires : 0..Never]
        BY <1>0 DEF Heartbeat, Never
      <3>2. ASSUME dec[c] \in Decision
            PROVE  Mark(dec[c]) \in [kind : {"none", "beat", "mark"}, water : 0..MaxWater,
                           src : Sources \cup {"none"}, expires : 0..Never]
        BY <1>0, <3>2 DEF Mark, Never, Decision
      <3>3. place[c] \in {"gate", "dedupe", "launch"} => dec[c] \in Decision
        BY DEF IInv, CarriesDecision
      <3> QED
        BY <3>1, <3>2, <3>3 DEF IInv, TypeOK, Loop, InvokeStart, Handle, LoopFails, FireGate,
             Dedupe, DedupeFails, Launch, Beat, InvokeStop
    <2> QED
      BY <1>1, <2>1, <2>2, <2>3, <2>4, <2>5 DEF IInv, TypeOK
  <1>3. CarriesDecision'
    <2>1. CASE Handle(c)
      BY <2>1, HandleDecides
    <2>2. CASE ~Handle(c)
      BY <2>2, SMTT(40) DEF IInv, TypeOK, CarriesDecision, Loop, InvokeStart, LoopFails, FireGate, Dedupe,
           DedupeFails, Launch, Beat, InvokeStop, Go, AfterHandle
    <2> QED
      BY <2>1, <2>2
  <1>4. place'[c] # "off" /\ \A k \in Cores \ {c} : place'[k] = place[k]
    BY DEF IInv, TypeOK, Loop, InvokeStart, Handle, LoopFails, FireGate, Dedupe, DedupeFails,
           Launch, Beat, InvokeStop, Go, AfterHandle
  <1>5. \A k \in Cores \ {c} : ready'[k] = ready[k]
    BY DEF IInv, TypeOK, Loop, InvokeStart, Handle, LoopFails, FireGate, Dedupe, DedupeFails,
           Launch, Beat, InvokeStop, fires
  <1>6. OffIsIdle'
    BY <1>1, <1>4, <1>5 DEF IInv, OffIsIdle, Cores
  <1>7. Alone' => Alone
    BY <1>4 DEF Alone, Cores
  <1>8. InsertedFirst' /\ PassedInOrder' /\ (PgStrict => LedgerCoversProjection')
    BY <1>1, <1>7 DEF IInv, InsertedFirst, PassedInOrder, LedgerCoversProjection
  <1> QED
    BY <1>2, <1>3, <1>6, <1>8 DEF IInv

-----------------------------------------------------------------------------
(* The tasks: one step per action.                                         *)
LEMMA BeginKeepsIInv ==
    ASSUME IInv, NEW c \in Cores, Begin(c)
    PROVE  IInv'
  <1>1. Head(ready[c]) \in Decision /\ Tail(ready[c]) \in Seq(Decision)
    BY DEF IInv, TypeOK, Begin
  <1>2. TypeOK'
    BY <1>1 DEF IInv, TypeOK, Begin, world, stores, Phase
  <1>3. CarriesDecision'
    BY DEF IInv, CarriesDecision, Begin
  <1>4. OffIsIdle'
    BY DEF IInv, TypeOK, OffIsIdle, Begin
  <1>5. InsertedFirst' /\ PassedInOrder' /\ (PgStrict => LedgerCoversProjection')
    BY DEF IInv, TypeOK, InsertedFirst, PassedInOrder, Alone, LedgerCoversProjection, Begin, stores
  <1> QED
    BY <1>2, <1>3, <1>4, <1>5 DEF IInv

(* The shape of a step of the fire in flight: it moves to another phase or *)
(* ends, and writes nothing but its own stamp.                             *)
LEMMA FireShape ==
    ASSUME IInv, NEW c \in Cores, Fire(c), ~Begin(c)
    PROVE  /\ cur[c] \in [d : Decision, phase : Phase]
           /\ EndFire(c) \/ \E p \in Phase : Advance(c, p)
           /\ UNCHANGED <<clock, water, crashes, cursor, place, dec, sup>>
           /\ lastFire' = lastFire \/ lastFire' = [lastFire EXCEPT ![c] = cur[c].d.at]
           /\ ledger' = ledger \/ ledger' = ledger \cup {cur[c].d.at}
           /\ latest' = latest \/ latest' = cur[c].d.at
  <1>1. cur[c] # NoFire
    BY DEF Fire, Compute, PublishGate, PgGate, PgInsert, PgFails, Publish, PublishFails, NoFire
  <1>2. cur[c] \in [d : Decision, phase : Phase]
    BY <1>1 DEF IInv, TypeOK
  <1>3. EndFire(c) \/ \E p \in Phase : Advance(c, p)
    BY DEF Fire, Compute, PublishGate, PgGate, PgInsert, PgFails, Publish, PublishFails, Phase
  <1> QED
    BY <1>2, <1>3 DEF Fire, Compute, PublishGate, PgGate, PgInsert, PgFails, Publish,
         PublishFails, stores, world

LEMMA FireTypes ==
    ASSUME IInv, NEW c \in Cores, Fire(c), ~Begin(c)
    PROVE  /\ TypeOK' /\ CarriesDecision'
           /\ \A k \in Cores : cur'[k] = cur[k] \/ (k = c /\ (cur'[k] = NoFire \/ cur'[k].d = cur[c].d))
  <1>1. cur[c].d.at \in Stamp /\ cur[c] # NoFire
    BY FireShape DEF Decision, NoFire, Phase
  <1>2. /\ cur' \in [Cores -> [d : Decision, phase : Phase] \cup {NoFire}]
        /\ pending' \in [Cores -> Decision \cup {NoDec}]
        /\ ready' \in [Cores -> Seq(Decision)]
        /\ served' \in [Cores -> Stamp]
        /\ \A k \in Cores : cur'[k] = cur[k] \/ (k = c /\ (cur'[k] = NoFire \/ cur'[k].d = cur[c].d))
    <2>1. CASE EndFire(c)
      BY <1>1, <2>1, EndFireTypes DEF IInv, TypeOK
    <2>2. CASE ~EndFire(c)
      <3>1. PICK p \in Phase : Advance(c, p)
        BY <2>2, FireShape
      <3>2. /\ cur' \in [Cores -> [d : Decision, phase : Phase] \cup {NoFire}]
            /\ UNCHANGED <<ready, pending, served>>
            /\ cur'[c] = [d |-> cur[c].d, phase |-> p]
            /\ \A k \in Cores \ {c} : cur'[k] = cur[k]
        BY ONLY <1>1, <3>1, IInv, AdvanceTypes DEF IInv
      <3>3. cur'[c].d = cur[c].d
        BY ONLY <3>2
      <3> QED
        BY <3>2, <3>3 DEF IInv, TypeOK
    <2> QED
      BY <2>1, <2>2
  <1>3. lastFire' \in [Cores -> Stamp \cup {-1}] /\ ledger' \subseteq Stamp /\ latest' \in Stamp
    <2>1. lastFire \in [Cores -> Stamp \cup {-1}] /\ ledger \subseteq Stamp /\ latest \in Stamp
      BY DEF IInv, TypeOK
    <2>2. /\ lastFire' = lastFire \/ lastFire' = [lastFire EXCEPT ![c] = cur[c].d.at]
          /\ ledger' = ledger \/ ledger' = ledger \cup {cur[c].d.at}
          /\ latest' = latest \/ latest' = cur[c].d.at
      BY FireShape
    <2> HIDE DEF Stamp
    <2> QED
      BY <1>1, <2>1, <2>2
  <1> QED
    BY <1>2, <1>3, FireShape DEF IInv, TypeOK, CarriesDecision

(* The three conjuncts about the stores, one step per action: where the    *)
(* row comes first, and where a fire enters the phases past the gate.      *)
StoresOK ==
    /\ InsertedFirst
    /\ PgStrict => LedgerCoversProjection
    /\ PassedInOrder

LEMMA FireKeepsIInv ==
    ASSUME IInv, NEW c \in Cores, Fire(c), ~Begin(c)
    PROVE  IInv'
  <1>0. /\ \A k \in Cores : cur'[k] = cur[k] \/ (k = c /\ (cur'[k] = NoFire \/ cur'[k].d = cur[c].d))
        /\ TypeOK' /\ CarriesDecision' /\ cur[c] \in [d : Decision, phase : Phase]
    BY FireTypes, FireShape
  <1>1. StoresOK /\ TypeOK
    BY DEF IInv, StoresOK
  <1>2. ASSUME EndFire(c) PROVE cur' = [cur EXCEPT ![c] = NoFire] /\ cur'[c].phase = "idle"
                                /\ \A k \in Cores \ {c} : cur'[k] = cur[k]
    BY <1>1, <1>2 DEF EndFire, TypeOK, NoFire
  <1>3. ASSUME NEW p \in Phase, Advance(c, p)
        PROVE  /\ cur'[c].phase = p /\ cur'[c].d = cur[c].d
               /\ \A k \in Cores \ {c} : cur'[k] = cur[k]
    BY <1>0, <1>1, <1>3 DEF Advance, TypeOK
  <1>4. /\ place' = place
        /\ c \in Transients => ~Alone
        /\ Alone => \A k \in Cores \ {c} : cur[k] = NoFire
    <2>1. cur[c] # NoFire /\ place' = place
      BY FireShape DEF NoFire, Phase
    <2> QED
      BY <2>1 DEF IInv, OffIsIdle, Alone, Cores
  <1>5. OffIsIdle'
    <2>1. \A k \in Cores \ {c} : cur'[k] = cur[k] /\ ready'[k] = ready[k]
      <3>1. CASE EndFire(c)
        BY <1>0, <1>1, <1>2, <3>1 DEF EndFire, TypeOK
      <3>2. CASE ~EndFire(c)
        BY <1>1, <1>3, <3>2, FireShape DEF Advance
      <3> QED
        BY <3>1, <3>2
    <2>2. c \in Transients => place[c] # "off"
      BY FireShape DEF IInv, OffIsIdle, NoFire, Phase
    <2> QED
      BY <1>4, <2>1, <2>2 DEF IInv, OffIsIdle, Cores
  <1>6. StoresOK'
    <2>1. CASE Compute(c)
      BY <1>0, <1>1, <1>2, <1>3, <1>4, <2>1 DEF Compute, StoresOK, InsertedFirst, LedgerCoversProjection,
         PassedInOrder, Alone, stores, Governed, Phase, Cores
    <2>2. CASE PublishGate(c)
      BY <1>0, <1>1, <1>2, <1>3, <1>4, <2>2 DEF PublishGate, InOrder, StoresOK, InsertedFirst,
         LedgerCoversProjection, PassedInOrder, Alone, stores, Phase
    <2>3. CASE PgGate(c)
      BY <1>0, <1>1, <1>2, <1>3, <1>4, <2>3 DEF PgGate, InOrder, StoresOK, InsertedFirst,
         LedgerCoversProjection, PassedInOrder, Alone, stores, Phase
    <2>4. CASE PgInsert(c)
      BY <1>0, <1>1, <1>3, <1>4, <2>4 DEF PgInsert, StoresOK, InsertedFirst, LedgerCoversProjection,
         PassedInOrder, Alone, Phase
    <2>5. CASE PgFails(c)
      BY <1>0, <1>1, <1>2, <1>3, <1>4, <2>5 DEF PgFails, StoresOK, InsertedFirst, LedgerCoversProjection,
         PassedInOrder, Alone, Phase
    <2>6. CASE Publish(c)
      BY <1>0, <1>1, <1>2, <1>4, <2>6 DEF Publish, NoFire, StoresOK, InsertedFirst, LedgerCoversProjection,
         PassedInOrder, Alone
    <2>7. CASE PublishFails(c)
      BY <1>0, <1>1, <1>2, <1>4, <2>7 DEF PublishFails, StoresOK, InsertedFirst, LedgerCoversProjection,
         PassedInOrder, Alone, stores
    <2> QED
      BY <2>1, <2>2, <2>3, <2>4, <2>5, <2>6, <2>7 DEF Fire
  <1> QED
    BY <1>0, <1>5, <1>6 DEF IInv, StoresOK

-----------------------------------------------------------------------------
LEMMA CrashKeepsIInv ==
    ASSUME IInv, Crash
    PROVE  IInv'
  <1> USE FireAssumption
  <1>1. PICK done \in SUBSET InFlight : ledger' = ledger \cup done
    BY DEF Crash
  <1>2. done \subseteq Stamp
    <2>1. \A k \in Cores : cur[k].phase = "pg" => cur[k].d.at \in Stamp
      BY DEF IInv, TypeOK, NoFire, Decision
    <2> QED
      BY <2>1, <1>1 DEF InFlight
  <1>3. place' \in [Cores -> Places] /\ \A c \in Cores : place'[c] \in {"off", "done"}
    BY DEF Crash, Places
  <1>4. ready' \in [Cores -> Seq(Decision)] /\ pending' \in [Cores -> Decision \cup {NoDec}]
        /\ dec' \in [Cores -> Decision \cup {NoDec}]
        /\ cur' \in [Cores -> [d : Decision, phase : Phase] \cup {NoFire}]
        /\ \A c \in Cores : cur'[c] = NoFire /\ cur'[c].phase = "idle" /\ ready'[c] = <<>>
        /\ lastFire' \in [Cores -> Stamp \cup {-1}] /\ crashes' \in 0..MaxCrashes
    BY DEF Crash, NoFire, IInv, TypeOK
  <1>5. TypeOK'
    BY <1>1, <1>2, <1>3, <1>4 DEF Crash, IInv, TypeOK
  <1>6. CarriesDecision'
    BY <1>3 DEF CarriesDecision
  <1>7. OffIsIdle' /\ InsertedFirst' /\ PassedInOrder' /\ (PgStrict => LedgerCoversProjection')
    BY <1>1, <1>4 DEF OffIsIdle, Cores, IInv, InsertedFirst, PassedInOrder, LedgerCoversProjection, Crash
  <1> QED
    BY <1>5, <1>6, <1>7 DEF IInv

LEMMA StepIInv == IInv /\ [Next]_vars => IInv'
  <1> SUFFICES ASSUME IInv, [Next]_vars PROVE IInv'
    OBVIOUS
  <1> USE FireAssumption
  <1>1. CASE Tick
    <2>1. TypeOK'
      <3>1. clock' \in Stamp
        BY <1>1, SMTT(40) DEF Tick, IInv, TypeOK, Stamp
      <3> QED
        BY <1>1, <3>1 DEF Tick, IInv, TypeOK, fires, stores
    <2> QED
      BY <1>1, <2>1 DEF Tick, IInv, CarriesDecision, OffIsIdle, InsertedFirst, PassedInOrder, Alone,
         LedgerCoversProjection, fires, stores
  <1>2. CASE Arrive
    <2>1. TypeOK'
      BY <1>2, SMTT(40) DEF Arrive, IInv, TypeOK, Stamp, fires, stores
    <2> QED
      BY <1>2, <2>1 DEF Arrive, IInv, CarriesDecision, OffIsIdle, InsertedFirst, PassedInOrder, Alone,
         LedgerCoversProjection, fires, stores
  <1>3. CASE Crash
    BY <1>3, CrashKeepsIInv
  <1>4. CASE Restart
    <2>1. TypeOK'
      BY <1>4 DEF Restart, Go, IInv, TypeOK, Places, Cores, world, fires, stores
    <2> QED
      BY <1>4, <2>1 DEF Restart, Go, Cores, IInv, TypeOK, CarriesDecision, OffIsIdle, InsertedFirst, PassedInOrder, Alone,
         LedgerCoversProjection, fires, stores
  <1>5. ASSUME NEW c \in Cores, Loop(c) \/ Fire(c) PROVE IInv'
    BY <1>5, LoopKeepsIInv, BeginKeepsIInv, FireKeepsIInv
  <1>6. CASE UNCHANGED vars
    BY <1>6 DEF vars, IInv, TypeOK, CarriesDecision, OffIsIdle, InsertedFirst, PassedInOrder, Alone,
       LedgerCoversProjection
  <1> QED
    BY <1>1, <1>2, <1>3, <1>4, <1>5, <1>6 DEF Next

-----------------------------------------------------------------------------
(* The invariant holds in every behaviour: of the resident alone and of    *)
(* the resident beside any set of transients, strict or lax.               *)
THEOREM Invariance == Spec => []IInv
  BY InitIInv, StepIInv, PTL DEF Spec

(* The types of base.py's attributes and of the three stores.              *)
THEOREM TypeCorrect == Spec => []TypeOK
  <1>1. IInv => TypeOK
    BY DEF IInv
  <1> QED
    BY <1>1, Invariance, PTL

(* PG before Redis (_fire_guarded): under pg_strict the projection is in   *)
(* the ledger, also after an insert that timed out or a container's death. *)
THEOREM LedgerFirst == PgStrict => (Spec => []LedgerCoversProjection)
  <1>1. ASSUME PgStrict PROVE IInv => LedgerCoversProjection
    BY <1>1 DEF IInv
  <1>2. ASSUME PgStrict PROVE Spec => []LedgerCoversProjection
    BY <1>1, <1>2, Invariance, PTL
  <1> QED
    BY <1>2

(* The out-of-order rule of the output gates together with _fire_lock: as  *)
(* long as no ungoverned invoke has shared the pair, the projection never  *)
(* moves backwards.                                                        *)
THEOREM ProjectionForward == Spec => ProjectionMonotone
  <1>1. IInv /\ IInv' /\ [Next]_vars => [Alone' => latest' >= latest]_vars
    <2> SUFFICES ASSUME IInv, Next, Alone' PROVE latest' >= latest
      BY DEF vars
    <2>1. latest \in Nat
      BY FireAssumption DEF IInv, TypeOK, Stamp
    <2>2. ASSUME NEW c \in Cores, Loop(c) PROVE latest' = latest
      BY <2>2 DEF Loop, InvokeStart, Handle, LoopFails, FireGate, Dedupe, DedupeFails, Launch,
         Beat, InvokeStop, stores
    <2>3. ASSUME NEW c \in Cores, Fire(c) PROVE latest' >= latest
      <3>1. CASE Publish(c)
        <4>1. Alone
          BY <3>1 DEF Publish, Alone
        <4> QED
          BY <2>1, <3>1, <4>1 DEF Publish, IInv, PassedInOrder
      <3>2. CASE ~Publish(c)
        BY <2>1, <2>3, <3>2 DEF Fire, Begin, Compute, PublishGate, PgGate, PgInsert, PgFails,
           PublishFails, stores
      <3> QED
        BY <3>1, <3>2
    <2> QED
      BY <2>1, <2>2, <2>3 DEF Next, Tick, Arrive, Crash, Restart, stores
  <1> QED
    BY <1>1, Invariance, PTL DEF Spec, ProjectionMonotone

-----------------------------------------------------------------------------
(* The reading loop.                                                       *)

(* A group was never given more than its stream holds.                     *)
GivenKept == \A s \in InputStreams : given[s] # None => given[s] <= Len(kept[s])

(* Once the rollover was asked there is an entry to compare with, and it   *)
(* is none of a later time than the newest decided on.                     *)
NewestBehind == asked => prevNewest \in Nat /\ high \in Nat /\ prevNewest <= high

(* The inductive invariant.                                                *)
ReaderIInv == ReaderTypeOK /\ GivenKept /\ NewestBehind

(* A later entry lies in no earlier period.                                *)
LEMMA BucketMonotone ==
    ASSUME NEW a \in Nat, NEW b \in Nat, a <= b, NEW p \in Periods
    PROVE  Bucket(a, p) <= Bucket(b, p)
  <1>1. p.length \in Nat /\ p.length > 0 /\ p.offset \in Nat
    BY ReaderAssumption
  <1>2. ASSUME NEW m \in Nat, NEW n \in Nat, NEW c \in Nat, c > 0, m <= n
        PROVE  m \div c <= n \div c
    BY <1>2
  <1> QED
    BY <1>1, <1>2 DEF Bucket

LEMMA BatchSizeType ==
    ASSUME ReaderIInv, NEW s \in InputStreams
    PROVE  /\ Healed(s) \in Nat /\ BatchSize(s) \in Nat /\ Healed(s) + BatchSize(s) <= Len(kept[s])
           /\ Len(kept[s]) \in Nat
  <1>1. kept[s] \in Seq(Nat) /\ Len(kept[s]) \in Nat /\ ReadBurst \in Nat /\ None \notin Nat
    BY ReaderAssumption DEF ReaderIInv, ReaderTypeOK
  <1>2. Healed(s) \in Nat /\ Healed(s) <= Len(kept[s])
    BY <1>1 DEF ReaderIInv, ReaderTypeOK, GivenKept, Healed
  <1>3. ASSUME NEW a \in Nat, NEW b \in Nat PROVE Min({a, b}) \in {a, b} /\ Min({a, b}) <= b
    <2>1. \E x \in {a, b} : \A y \in {a, b} : x <= y
      OBVIOUS
    <2>2. Min({a, b}) \in {a, b} /\ \A y \in {a, b} : Min({a, b}) <= y
      BY <2>1 DEF Min
    <2> QED
      BY <2>2
  <1>4. Len(kept[s]) - Healed(s) \in Nat
    BY <1>1, <1>2
  <1>5. BatchSize(s) \in Nat /\ BatchSize(s) <= Len(kept[s]) - Healed(s)
    BY <1>1, <1>3, <1>4 DEF BatchSize
  <1> QED
    BY <1>1, <1>2, <1>5

LEMMA ReaderInitInv == ReaderInit => ReaderIInv
  <1> SUFFICES ASSUME ReaderInit PROVE ReaderIInv
    OBVIOUS
  <1>1. kept \in [InputStreams -> Seq(Nat)] /\ given \in [InputStreams -> Nat \cup {None}]
        /\ batch \in [InputStreams -> Nat \cup {None}]
        /\ \A s \in InputStreams : given[s] = 0 /\ Len(kept[s]) = 0
    BY DEF ReaderInit, NoBatch
  <1>2. ReaderTypeOK
    BY <1>1 DEF ReaderInit, ReaderTypeOK
  <1>3. GivenKept
    BY <1>1 DEF GivenKept
  <1>4. NewestBehind
    BY DEF ReaderInit, NewestBehind
  <1> QED
    BY <1>2, <1>3, <1>4 DEF ReaderIInv

(* What a read leaves behind, and what a failed one does.                  *)
LEMMA ReadTypes ==
    ASSUME ReaderIInv, NEW s \in InputStreams, UNCHANGED kept, Read(s) \/ ReadFails(s)
    PROVE  given' \in [InputStreams -> Nat \cup {None}] /\ GivenKept'
  <1>1. PICK upTo \in {given[s], Healed(s), Healed(s) + BatchSize(s)} : given' = [given EXCEPT ![s] = upTo]
    BY DEF Read, ReadFails
  <1>2. upTo \in Nat \cup {None} /\ (upTo # None => upTo <= Len(kept[s]))
    BY <1>1, BatchSizeType, ReaderAssumption DEF ReaderIInv, ReaderTypeOK, GivenKept
  <1> QED
    BY <1>1, <1>2 DEF ReaderIInv, ReaderTypeOK, GivenKept

LEMMA ReadBatch ==
    ASSUME ReaderIInv, NEW s \in InputStreams, Read(s)
    PROVE  batch' \in [InputStreams -> Nat \cup {None}]
  <1>1. CASE BatchSize(s) > 0
    <2>1. Healed(s) + BatchSize(s) \in 1..Len(kept[s]) /\ kept[s] \in Seq(Nat)
      BY <1>1, BatchSizeType DEF ReaderIInv, ReaderTypeOK
    <2>2. kept[s][Healed(s) + BatchSize(s)] \in Nat
      BY <2>1
    <2> QED
      BY <1>1, <2>2 DEF Read, ReaderIInv, ReaderTypeOK
  <1>2. CASE ~(BatchSize(s) > 0)
    BY <1>2 DEF Read, ReaderIInv, ReaderTypeOK
  <1> QED
    BY <1>1, <1>2

LEMMA NoBatchType == NoBatch \in [InputStreams -> Nat \cup {None}]
  BY DEF NoBatch

(* The newest entry read, and what hearing it leaves behind.               *)
LEMMA NewestReadType ==
    ASSUME ReaderIInv
    PROVE  NewestRead \in Nat \cup {None}
  BY DEF ReaderIInv, ReaderTypeOK, NewestRead, InputStreams

LEMMA NewerType ==
    ASSUME NEW a \in Nat \cup {None}, NEW b \in Nat \cup {None}
    PROVE  /\ Newer(a, b) \in Nat \cup {None}
           /\ a # None => Newer(a, b) \in Nat /\ a <= Newer(a, b)
           /\ b # None => Newer(a, b) \in Nat /\ b <= Newer(a, b)
  BY ReaderAssumption DEF Newer

LEMMA HearKeeps ==
    ASSUME ReaderIInv, Hear
    PROVE  asked' \in BOOLEAN /\ {prevNewest', high'} \subseteq Nat \cup {None} /\ NewestBehind'
  <1>1. /\ NewestRead \in Nat \cup {None} /\ high \in Nat \cup {None} /\ prevNewest \in Nat \cup {None}
        /\ asked \in BOOLEAN /\ None \notin Nat
    BY NewestReadType, ReaderAssumption DEF ReaderIInv, ReaderTypeOK
  <1>2. CASE NewestRead = None
    <2>1. high' = high /\ prevNewest' = prevNewest /\ asked' = asked
      BY <1>1, <1>2 DEF Hear, Newer
    <2> QED
      BY <1>1, <2>1 DEF ReaderIInv, NewestBehind
  <1>3. CASE NewestRead # None
    <2>1. prevNewest' = NewestRead /\ high' = Newer(high, NewestRead) /\ asked' = TRUE
      BY <1>1, <1>3 DEF Hear
    <2> QED
      BY <1>1, <1>3, <2>1, NewerType DEF NewestBehind
  <1> QED
    BY <1>2, <1>3

LEMMA ReaderStepInv == ReaderIInv /\ [ReaderNext]_readerVars => ReaderIInv'
  <1> SUFFICES ASSUME ReaderIInv, [ReaderNext]_readerVars PROVE ReaderIInv'
    OBVIOUS
  <1> USE DEF ReaderIInv
  <1>1. CASE ReadTick
    BY <1>1 DEF ReadTick, heardVars, ReaderTypeOK, GivenKept, NewestBehind
  <1>2. ASSUME NEW s \in InputStreams, Arrives(s) PROVE ReaderIInv'
    <2>1. kept[s] \in Seq(Nat) /\ readClock \in Nat
      BY DEF ReaderTypeOK
    <2>2. Append(kept[s], readClock) \in Seq(Nat) /\ Len(Append(kept[s], readClock)) = Len(kept[s]) + 1
          /\ Len(kept[s]) \in Nat
      BY <2>1
    <2>3. kept' \in [InputStreams -> Seq(Nat)] /\ kept'[s] = Append(kept[s], readClock)
          /\ \A q \in InputStreams \ {s} : kept'[q] = kept[q]
      BY <1>2, <2>2 DEF Arrives, ReaderTypeOK
    <2>4. GivenKept'
      BY <1>2, <2>2, <2>3 DEF Arrives, ReaderTypeOK, GivenKept
    <2> QED
      BY <1>2, <2>3, <2>4 DEF Arrives, heardVars, ReaderTypeOK, NewestBehind
  <1>3. ASSUME NEW s \in InputStreams, GroupLost(s) PROVE ReaderIInv'
    <2>1. /\ given' \in [InputStreams -> Nat \cup {None}] /\ given'[s] = None
          /\ \A q \in InputStreams \ {s} : given'[q] = given[q]
      BY <1>3 DEF GroupLost, ReaderTypeOK
    <2>2. kept' \in [InputStreams -> Seq(Nat)] /\ \A q \in InputStreams \ {s} : kept'[q] = kept[q]
      <3>1. kept \in [InputStreams -> Seq(Nat)] /\ <<>> \in Seq(Nat)
        BY DEF ReaderTypeOK
      <3>2. CASE kept' = kept
        BY <3>1, <3>2
      <3>3. CASE kept' = [kept EXCEPT ![s] = <<>>]
        BY <3>1, <3>3
      <3> QED
        BY <1>3, <3>2, <3>3 DEF GroupLost
    <2>3. GivenKept'
      BY <2>1, <2>2 DEF GivenKept
    <2> QED
      BY <1>3, <2>1, <2>2, <2>3 DEF GroupLost, heardVars, ReaderTypeOK, NewestBehind
  <1>4. ASSUME IterationFails, given' \in [InputStreams -> Nat \cup {None}], GivenKept' PROVE ReaderIInv'
    BY <1>4, NoBatchType DEF IterationFails, streamVars, heardVars, ReaderTypeOK, NewestBehind
  <1>5. CASE ReadOnce
    <2>1. UNCHANGED kept /\ (Read("raw") \/ ReadFails("raw")) /\ "raw" \in InputStreams
      BY <1>5 DEF ReadOnce, IterationFails, streamVars, InputStreams
    <2>2. given' \in [InputStreams -> Nat \cup {None}] /\ GivenKept'
      BY <2>1, ReadTypes
    <2>3. CASE IterationFails
      BY <1>4, <2>2, <2>3
    <2>4. CASE ~IterationFails
      <3>1. /\ Read("raw") \/ batch' = NoBatch
            /\ at' \in {"ws", "decide"} /\ UNCHANGED <<streamVars, usesWs, recovered, heardVars>>
        BY <1>5, <2>4 DEF ReadOnce
      <3>2. batch' \in [InputStreams -> Nat \cup {None}]
        BY <2>1, <3>1, ReadBatch, NoBatchType
      <3> QED
        BY <2>2, <3>1, <3>2 DEF streamVars, heardVars, ReaderTypeOK, NewestBehind
    <2> QED
      BY <2>3, <2>4
  <1>6. CASE ReadWsOnce
    <2>1. UNCHANGED kept /\ (Read("ws") \/ ReadFails("ws")) /\ "ws" \in InputStreams
      BY <1>6 DEF ReadWsOnce, IterationFails, streamVars, InputStreams
    <2>2. given' \in [InputStreams -> Nat \cup {None}] /\ GivenKept'
      BY <2>1, ReadTypes
    <2>3. CASE IterationFails
      BY <1>4, <2>2, <2>3
    <2>4. CASE ~IterationFails
      <3>1. /\ Read("ws") \/ batch' = batch
            /\ at' \in {"status", "decide"} /\ UNCHANGED <<streamVars, usesWs, recovered, heardVars>>
        BY <1>6, <2>4 DEF ReadWsOnce
      <3>2. batch' \in [InputStreams -> Nat \cup {None}]
        BY <2>1, <3>1, ReadBatch DEF ReaderTypeOK
      <3> QED
        BY <2>2, <3>1, <3>2 DEF streamVars, heardVars, ReaderTypeOK, NewestBehind
    <2> QED
      BY <2>3, <2>4
  <1>7. CASE AwaitStatus
    <2>1. CASE IterationFails
      BY <1>4, <1>7, <2>1 DEF AwaitStatus, IterationFails, streamVars, ReaderTypeOK, GivenKept
    <2>2. CASE ~IterationFails
      BY <1>7, <2>2 DEF AwaitStatus, streamVars, heardVars, ReaderTypeOK, GivenKept, NewestBehind
    <2> QED
      BY <2>1, <2>2
  <1>8. ASSUME NEW v \in {"quiet", "fire", "raised"}, DecidesAs(v),
               asked' \in BOOLEAN, {prevNewest', high'} \subseteq Nat \cup {None}, NewestBehind'
        PROVE  ReaderIInv'
    BY <1>8, NoBatchType DEF DecidesAs, streamVars, ReaderTypeOK, GivenKept
  <1>9. CASE FiresEarly
    <2>1. high \in Nat \cup {None} /\ NewestRead \in Nat \cup {None} /\ None \notin Nat
      BY NewestReadType, ReaderAssumption DEF ReaderTypeOK
    <2>2. high' \in Nat \cup {None} /\ (asked => high' \in Nat /\ high <= high')
      BY <1>9, <2>1, NewerType DEF FiresEarly, NewestBehind
    <2>3. NewestBehind'
      BY <1>9, <2>2 DEF FiresEarly, NewestBehind
    <2> QED
      BY <1>8, <1>9, <2>2, <2>3 DEF FiresEarly, ReaderTypeOK
  <1>10. CASE ColdAndQuiet
    BY <1>8, <1>10 DEF ColdAndQuiet, ReaderTypeOK, NewestBehind
  <1>11. CASE AskRollover
    BY <1>8, <1>11, HearKeeps DEF AskRollover
  <1>12. CASE DecideRaises
    BY <1>8, <1>12, HearKeeps DEF DecideRaises, ReaderTypeOK, NewestBehind
  <1>13. CASE UNCHANGED readerVars
    BY <1>13 DEF readerVars, streamVars, heardVars, ReaderTypeOK, GivenKept, NewestBehind
  <1> QED
    BY <1>1, <1>2, <1>3, <1>5, <1>6, <1>7, <1>9, <1>10, <1>11, <1>12, <1>13 DEF ReaderNext

(* The reading loop's state keeps its type, and the entry kept for the     *)
(* next comparison is never ahead of what was decided on.                  *)
THEOREM ReaderInvariance == ReaderSpec => []ReaderIInv
  BY ReaderInitInv, ReaderStepInv, PTL DEF ReaderSpec

(* _rollover_decision: for every set of periods, every length and offset,  *)
(* and whatever is lost, read again or comes out of order, no decision     *)
(* passes in silence on entries of a later period than all before them.    *)
THEOREM BoundariesHeard == ReaderSpec => BoundaryHeard
  <1>1. ReaderIInv /\ [ReaderNext]_readerVars =>
            [(at = "decide" /\ asked /\ verdict' = "quiet" /\ high' # high) =>
                \A p \in Periods : Bucket(high', p) <= Bucket(high, p)]_readerVars
    <2> SUFFICES ASSUME ReaderIInv, ReaderNext, at = "decide", asked, verdict' = "quiet", high' # high,
                        NEW p \in Periods
                 PROVE  Bucket(high', p) <= Bucket(high, p)
      OBVIOUS
    <2>1. AskRollover
      BY DEF ReaderNext, ReadTick, ReadOnce, ReadWsOnce, AwaitStatus, FiresEarly, ColdAndQuiet, DecideRaises,
         DecidesAs, Arrives, GroupLost, heardVars
    <2>2. ~PeriodCrossed /\ Hear
      BY <2>1 DEF AskRollover, DecidesAs
    <2>3. prevNewest \in Nat /\ high \in Nat /\ prevNewest <= high /\ None \notin Nat
          /\ NewestRead \in Nat \cup {None}
      BY NewestReadType, ReaderAssumption DEF ReaderIInv, NewestBehind
    <2>4. high' = Newer(high, NewestRead)
      BY <2>2 DEF Hear
    <2>5. NewestRead # None /\ high' = NewestRead
      BY <2>3, <2>4 DEF Newer
    <2>6. Bucket(NewestRead, p) = Bucket(prevNewest, p)
      BY <2>2, <2>3, <2>5 DEF PeriodCrossed
    <2> QED
      BY <2>3, <2>5, <2>6, BucketMonotone
  <1> QED
    BY <1>1, ReaderInvariance, PTL DEF ReaderSpec, BoundaryHeard

-----------------------------------------------------------------------------
(* The folds of the trailing horizons: first what one trade, one batch,    *)
(* one snapshot and the backfill's window do to a fold, then the steps.    *)

(* Every nonempty set of natural numbers has a least element: what Min of  *)
(* FiniteSetsExt chooses.                                                  *)
Below == {p \in Nat \X Nat : p[1] < p[2]}
LEMMA LeastNat ==
    ASSUME NEW T, T \subseteq Nat, T # {}
    PROVE  \E x \in T : \A y \in T : x <= y
  <1>1. Below = OpToRel(<, Nat)
    BY DEF OpToRel, Below
  <1>2. IsWellFoundedOn(Below, Nat)
    BY <1>1, NatLessThanWellFounded, Zenon
  <1>3. \E x \in T : \A y \in T : ~(<<y, x>> \in Below)
    BY ONLY <1>2, WFMin, T \subseteq Nat, T # {}, Zenon
  <1>4. PICK x \in T : \A y \in T : ~(<<y, x>> \in Below)
    BY ONLY <1>3
  <1>5. \A y \in T : x \in Nat /\ y \in Nat /\ ~(y < x)
    BY ONLY <1>4, T \subseteq Nat DEF Below
  <1>6. \A y \in T : x <= y
    BY ONLY <1>5
  <1> QED
    BY ONLY <1>4, <1>6
LEMMA SegStartOrder ==
    ASSUME NEW t \in Nat, NEW u \in Nat, t <= u
    PROVE  SegStart(t) \in Nat /\ SegStart(t) <= t /\ SegStart(t) <= SegStart(u)
  <1>1. SegLen \in Nat /\ SegLen > 0
    BY FoldAssumption
  <1>2. t % SegLen \in 0..(SegLen - 1) /\ u % SegLen \in 0..(SegLen - 1)
    BY <1>1
  <1>3. t = SegLen * (t \div SegLen) + (t % SegLen) /\ u = SegLen * (u \div SegLen) + (u % SegLen)
        /\ t \div SegLen \in Int /\ u \div SegLen \in Int
    BY <1>1
  <1>4. t \div SegLen <= u \div SegLen
    BY <1>1, <1>2, <1>3
  <1> QED
    BY <1>1, <1>2, <1>3, <1>4 DEF SegStart

(* The tape: times in order, none after the present.                       *)
TapeOK ==
    /\ now \in Nat
    /\ tape \in [V -> Seq(Nat)]
    /\ \A v \in V : \A i, j \in DOMAIN tape[v] : i <= j => tape[v][i] <= tape[v][j]
    /\ \A v \in V : \A i \in DOMAIN tape[v] : tape[v][i] <= now

(* A fold: every segment has trades, all of its time and at or under the   *)
(* high-water, none twice.  What is said of a fold is said of it at a tape *)
(* and at a time.                                                          *)
Trades == V \X Nat
Shaped(f) ==
    /\ DOMAIN f = {"segments", "hwm", "late"}
    /\ DOMAIN f.hwm = V
    /\ DOMAIN f.segments \subseteq Nat
    /\ \A s \in DOMAIN f.segments : f.segments[s] \in Seq(Trades) /\ Len(f.segments[s]) > 0
Topped(segments) ==
    DOMAIN segments # {} => \E m \in DOMAIN segments : \A s \in DOMAIN segments : s <= m
Under(f, tp) == \A v \in V : f.hwm[v] \in Nat /\ f.hwm[v] <= Len(tp[v])
InPlace(f, tp) ==
    \A s \in DOMAIN f.segments : \A k \in DOMAIN f.segments[s] :
        LET t == f.segments[s][k] IN
        t[2] > 0 /\ t[2] <= f.hwm[t[1]] /\ s = SegStart(tp[t[1]][t[2]])
Once(f) ==
    \A s, r \in DOMAIN f.segments : \A k \in DOMAIN f.segments[s], l \in DOMAIN f.segments[r] :
        f.segments[s][k] = f.segments[r][l] => s = r /\ k = l
FoldOK(f, tp) == Shaped(f) /\ Topped(f.segments) /\ Under(f, tp) /\ InPlace(f, tp) /\ Once(f)

(* A fold that was never set back: no segment of it begins after a spot    *)
(* trade that is still to come, and it holds every spot trade at or under  *)
(* the high-water that is not too old.                                     *)
Ahead(f, tp) ==
    \A s \in DOMAIN f.segments : \A j \in DOMAIN tp["spot"] :
        j > f.hwm["spot"] => s <= SegStart(tp["spot"][j])
Young(f, i, tp, t) == SegStart(tp["spot"][i]) >= t - Span
Covered(f, tp, t) ==
    \A i \in 1..f.hwm["spot"] : SegStart(tp["spot"][i]) >= t - Span => Folded(f, <<"spot", i>>)
Kept(f, tp, t) == Ahead(f, tp) /\ Covered(f, tp, t)

-----------------------------------------------------------------------------
(* One trade.                                                              *)

(* What FoldTrade does to the segments: one gets n + 1 trades.             *)
Grown(g, segments, start, trade, n) ==
    /\ IF start \in DOMAIN segments THEN n = Len(segments[start]) ELSE n = 0
    /\ DOMAIN g = DOMAIN segments \cup {start}
    /\ \A s \in DOMAIN segments : s # start => g[s] = segments[s]
    /\ g[start] \in Seq(Trades) /\ Len(g[start]) = n + 1 /\ DOMAIN g[start] = 1..(n + 1)
    /\ g[start][n + 1] = trade
    /\ start \in DOMAIN segments => \A k \in 1..n : k \in DOMAIN segments[start] /\ g[start][k] = segments[start][k]
LEMMA AddTradeIs ==
    ASSUME NEW segments, NEW start, NEW trade \in Trades,
           \A s \in DOMAIN segments : segments[s] \in Seq(Trades),
           NEW g, g = AddTrade(segments, start, trade)
    PROVE  \E n \in Nat : Grown(g, segments, start, trade, n)
  <1>1. CASE start \in DOMAIN segments
    <2>1. g = [segments EXCEPT ![start] = Append(segments[start], trade)]
      BY <1>1 DEF AddTrade
    <2>2. DOMAIN g = DOMAIN segments /\ g[start] = Append(segments[start], trade)
          /\ \A s \in DOMAIN segments : s # start => g[s] = segments[s]
      BY <1>1, <2>1
    <2> DEFINE q == segments[start]
    <2>3. q \in Seq(Trades)
      BY <1>1
    <2> HIDE DEF q
    <2>4. Append(q, trade) \in Seq(Trades) /\ Len(Append(q, trade)) = Len(q) + 1 /\ Len(q) \in Nat
          /\ DOMAIN Append(q, trade) = 1..(Len(q) + 1) /\ DOMAIN q = 1..Len(q)
          /\ Append(q, trade)[Len(q) + 1] = trade /\ \A k \in 1..Len(q) : Append(q, trade)[k] = q[k]
      BY <2>3, AppendProperties, LenProperties
    <2> QED
      BY <1>1, <2>2, <2>4 DEF q, Grown
  <1>2. CASE start \notin DOMAIN segments
    <2>1. DOMAIN g = DOMAIN segments \cup {start} /\ g[start] = <<trade>>
          /\ \A s \in DOMAIN segments : s # start => g[s] = segments[s]
      BY <1>2 DEF AddTrade
    <2>2. g[start] \in Seq(Trades) /\ Len(g[start]) = 1 /\ DOMAIN g[start] = 1..1 /\ g[start][1] = trade
      BY <2>1
    <2> QED
      BY <1>2, <2>1, <2>2 DEF Grown
  <1> QED
    BY <1>1, <1>2

(* The three ways a trade goes.                                            *)
LEMMA FoldTradeIs ==
    ASSUME NEW f, Shaped(f), NEW v \in V, NEW i
    PROVE  LET g == FoldTrade(f, v, i)
               start == SegStart(tape[v][i]) IN
           \/ i <= f.hwm[v] /\ g = f
           \/ /\ ~ (i <= f.hwm[v])
              /\ DOMAIN g = DOMAIN f /\ DOMAIN g.hwm = V /\ g.hwm[v] = i
              /\ \A u \in V : u # v => g.hwm[u] = f.hwm[u]
              /\ \/ (\E s \in DOMAIN f.segments : start < s) /\ g.segments = f.segments
                 \/ /\ \A s \in DOMAIN f.segments : ~ (start < s)
                    /\ g.segments = AddTrade(f.segments, start, <<v, i>>)
  <1> DEFINE g == FoldTrade(f, v, i)
             start == SegStart(tape[v][i])
             h == [f EXCEPT !.hwm[v] = i]
  <1>1. DOMAIN h = DOMAIN f /\ h.segments = f.segments /\ DOMAIN h.hwm = V /\ h.hwm[v] = i
        /\ \A u \in V : u # v => h.hwm[u] = f.hwm[u]
    BY DEF Shaped
  <1> HIDE DEF h
  <1>2. CASE i <= f.hwm[v]
    BY <1>2 DEF FoldTrade, Skipped
  <1>3. CASE ~ (i <= f.hwm[v]) /\ Late(f, start)
    <2>1. g = [h EXCEPT !.late = @ + 1]
      BY <1>3 DEF FoldTrade, Skipped, h
    <2> QED
      BY <1>1, <1>3, <2>1 DEF Late, Shaped
  <1>4. CASE ~ (i <= f.hwm[v]) /\ ~ Late(f, start)
    <2>1. g = [h EXCEPT !.segments = AddTrade(h.segments, start, <<v, i>>)]
      BY <1>4 DEF FoldTrade, Skipped, h
    <2> QED
      BY <1>1, <1>4, <2>1 DEF Late, Shaped
  <1> QED
    BY <1>2, <1>3, <1>4

LEMMA FoldTradeOK ==
    ASSUME TapeOK, NEW f, FoldOK(f, tape), NEW v \in V, NEW i \in 1..Len(tape[v])
    PROVE  LET g == FoldTrade(f, v, i) IN
           /\ FoldOK(g, tape)
           /\ g.hwm[v] >= i /\ \A u \in V : g.hwm[u] >= f.hwm[u] /\ (u # v => g.hwm[u] = f.hwm[u])
           /\ \A t : Folded(f, t) => Folded(g, t)
           /\ \A s \in DOMAIN g.segments : s \in DOMAIN f.segments \/ s = SegStart(tape[v][i])
  <1> DEFINE g == FoldTrade(f, v, i)
             start == SegStart(tape[v][i])
             trade == <<v, i>>
  <1>0. /\ Shaped(f) /\ Topped(f.segments) /\ Under(f, tape) /\ InPlace(f, tape) /\ Once(f)
        /\ tape[v] \in Seq(Nat) /\ i \in Nat /\ i > 0 /\ i <= Len(tape[v]) /\ trade \in Trades
        /\ \A u \in V : f.hwm[u] \in Nat
    BY DEF FoldOK, TapeOK, Under, Trades
  <1>1. tape[v][i] \in Nat /\ start \in Nat
    <2>1. tape[v][i] \in Nat
      BY <1>0, ElementOfSeq
    <2> QED
      BY <2>1, SegStartOrder
  <1> HIDE DEF start
  <1>2. CASE i <= f.hwm[v] /\ g = f
    BY <1>0, <1>2
  <1>3. CASE /\ ~ (i <= f.hwm[v]) /\ DOMAIN g = DOMAIN f /\ DOMAIN g.hwm = V /\ g.hwm[v] = i
             /\ \A u \in V : u # v => g.hwm[u] = f.hwm[u]
    <2> HIDE DEF g
    <2>0. f.hwm[v] < i /\ \A u \in V : g.hwm[u] \in Nat /\ g.hwm[u] >= f.hwm[u]
      BY <1>0, <1>3
    <2>1. Under(g, tape)
      BY <1>0, <1>3 DEF Under
    <2>2. CASE g.segments = f.segments
      <3>1. Shaped(g) /\ Topped(g.segments) /\ Once(g)
        BY <1>0, <1>3, <2>2 DEF Shaped, Once
      <3>2. InPlace(g, tape)
        <4> SUFFICES ASSUME NEW s \in DOMAIN f.segments, NEW k \in DOMAIN f.segments[s],
                            NEW t, t = f.segments[s][k]
                     PROVE  t[2] > 0 /\ t[2] <= g.hwm[t[1]] /\ s = SegStart(tape[t[1]][t[2]])
          BY <2>2 DEF InPlace
        <4>1. t[2] > 0 /\ t[2] <= f.hwm[t[1]] /\ s = SegStart(tape[t[1]][t[2]])
          BY <1>0 DEF InPlace
        <4>2. t \in Trades
          BY <1>0, ElementOfSeq, LenProperties DEF Shaped
        <4>3. t[1] \in V /\ t[2] \in Nat
          BY <4>2 DEF Trades
        <4>4. f.hwm[t[1]] \in Nat /\ g.hwm[t[1]] \in Nat /\ g.hwm[t[1]] >= f.hwm[t[1]]
          BY <1>0, <2>0, <4>3
        <4> QED
          BY ONLY <4>1, <4>3, <4>4
      <3>3. \A t : Folded(f, t) => Folded(g, t)
        BY <2>2 DEF Folded
      <3> QED
        BY <1>3, <2>0, <2>1, <2>2, <3>1, <3>2, <3>3 DEF FoldOK, g
    <2>3. CASE (\A s \in DOMAIN f.segments : ~ (start < s)) /\ g.segments = AddTrade(f.segments, start, trade)
      <3>0. \A s \in DOMAIN f.segments : f.segments[s] \in Seq(Trades)
        BY <1>0 DEF Shaped
      <3>00. PICK n \in Nat : Grown(g.segments, f.segments, start, trade, n)
        BY <1>0, <2>3, <3>0, AddTradeIs
      <3>1. /\ IF start \in DOMAIN f.segments THEN n = Len(f.segments[start]) ELSE n = 0
            /\ DOMAIN g.segments = DOMAIN f.segments \cup {start}
            /\ \A s \in DOMAIN f.segments : s # start => g.segments[s] = f.segments[s]
            /\ g.segments[start] \in Seq(Trades) /\ Len(g.segments[start]) = n + 1
            /\ DOMAIN g.segments[start] = 1..(n + 1)
            /\ g.segments[start][n + 1] = trade
            /\ start \in DOMAIN f.segments =>
                 \A k \in 1..n : k \in DOMAIN f.segments[start] /\ g.segments[start][k] = f.segments[start][k]
        BY <3>00 DEF Grown
      <3>2. (n = 0 \/ start \in DOMAIN f.segments)
            /\ (start \in DOMAIN f.segments => DOMAIN f.segments[start] = 1..n)
        BY <1>0, <3>1, LenProperties DEF Shaped
      \* A place of g is the new trade's, or one of f with the same trade.
      <3>3. ASSUME NEW s \in DOMAIN g.segments, NEW k \in DOMAIN g.segments[s]
            PROVE  \/ s = start /\ k = n + 1 /\ g.segments[s][k] = trade
                   \/ s \in DOMAIN f.segments /\ k \in DOMAIN f.segments[s]
                      /\ g.segments[s][k] = f.segments[s][k] /\ ~ (s = start /\ k = n + 1)
        <4>1. CASE s # start
          BY <3>1, <3>3, <4>1
        <4>2. CASE s = start
          <5>1. k \in 1..(n + 1) /\ n \in Nat
            BY <3>1, <3>3, <4>2
          <5>2. CASE k = n + 1
            BY <3>1, <4>2, <5>2
          <5>3. CASE k # n + 1
            <6>1. k \in 1..n /\ start \in DOMAIN f.segments
              BY <3>2, <5>1, <5>3
            <6> QED
              BY <3>1, <4>2, <5>3, <6>1
          <5> QED
            BY <5>2, <5>3
        <4> QED
          BY <4>1, <4>2
      <3>4. ASSUME NEW s \in DOMAIN f.segments, NEW k \in DOMAIN f.segments[s]
            PROVE  s \in DOMAIN g.segments /\ k \in DOMAIN g.segments[s]
                   /\ g.segments[s][k] = f.segments[s][k]
        <4>1. CASE s # start
          BY <3>1, <3>4, <4>1
        <4>2. CASE s = start
          <5>1. k \in 1..n
            BY <3>2, <3>4, <4>2
          <5>2. k \in 1..(n + 1)
            BY <3>1, <5>1
          <5> QED
            BY <3>1, <3>4, <4>2, <5>1, <5>2
        <4> QED
          BY <4>1, <4>2
      <3>5. ASSUME NEW s \in DOMAIN f.segments, NEW k \in DOMAIN f.segments[s]
            PROVE  /\ f.segments[s][k] \in Trades
                   /\ f.segments[s][k][1] \in V /\ f.segments[s][k][2] \in Nat
                   /\ f.segments[s][k][2] > 0 /\ f.segments[s][k][2] <= f.hwm[f.segments[s][k][1]]
                   /\ s = SegStart(tape[f.segments[s][k][1]][f.segments[s][k][2]])
                   /\ f.segments[s][k] # trade
        <4>1. f.segments[s][k] \in Trades
          BY <1>0, <3>5, ElementOfSeq, LenProperties DEF Shaped
        <4>2. f.segments[s][k][1] \in V /\ f.segments[s][k][2] \in Nat
          BY <4>1 DEF Trades
        <4>3. f.segments[s][k][2] > 0 /\ f.segments[s][k][2] <= f.hwm[f.segments[s][k][1]]
              /\ s = SegStart(tape[f.segments[s][k][1]][f.segments[s][k][2]])
          BY <1>0, <3>5 DEF InPlace
        <4>4. ASSUME f.segments[s][k] = trade PROVE FALSE
          BY <1>0, <2>0, <4>3, <4>4
        <4> QED
          BY <4>1, <4>2, <4>3, <4>4
      <3>6. Shaped(g)
        <4>1. ASSUME NEW s \in DOMAIN g.segments
              PROVE  g.segments[s] \in Seq(Trades) /\ Len(g.segments[s]) > 0
          <5>1. CASE s = start
            BY <3>1, <5>1
          <5>2. CASE s # start
            BY <1>0, <3>1, <4>1, <5>2 DEF Shaped
          <5> QED
            BY <5>1, <5>2
        <4> QED
          BY <1>0, <1>1, <1>3, <3>1, <4>1 DEF Shaped
      <3>7. Topped(g.segments)
        <4>1. \A s \in DOMAIN f.segments : s \in Nat /\ s <= start
          BY <1>0, <1>1, <2>3 DEF Shaped
        <4> QED
          BY <1>1, <3>1, <4>1 DEF Topped
      <3>8. InPlace(g, tape)
        <4> SUFFICES ASSUME NEW s \in DOMAIN g.segments, NEW k \in DOMAIN g.segments[s],
                            NEW t, t = g.segments[s][k]
                     PROVE  t[2] > 0 /\ t[2] <= g.hwm[t[1]] /\ s = SegStart(tape[t[1]][t[2]])
          BY DEF InPlace
        <4>1. CASE s = start /\ k = n + 1 /\ t = trade
          BY <1>0, <1>3, <4>1 DEF start
        <4>2. CASE s \in DOMAIN f.segments /\ k \in DOMAIN f.segments[s] /\ t = f.segments[s][k]
          <5>1. t[1] \in V /\ t[2] \in Nat /\ t[2] > 0 /\ t[2] <= f.hwm[t[1]]
                /\ s = SegStart(tape[t[1]][t[2]])
            BY <3>5, <4>2
          <5>2. f.hwm[t[1]] \in Nat /\ g.hwm[t[1]] \in Nat /\ g.hwm[t[1]] >= f.hwm[t[1]]
            BY <1>0, <2>0, <5>1
          <5> QED
            BY ONLY <5>1, <5>2
        <4> QED
          BY <3>3, <4>1, <4>2
      <3>9. Once(g)
        <4> SUFFICES ASSUME NEW s \in DOMAIN g.segments, NEW r \in DOMAIN g.segments,
                            NEW k \in DOMAIN g.segments[s], NEW l \in DOMAIN g.segments[r],
                            g.segments[s][k] = g.segments[r][l]
                     PROVE  s = r /\ k = l
          BY DEF Once
        <4>1. CASE g.segments[s][k] = trade
          <5>1. s = start /\ k = n + 1
            BY <3>3, <3>5, <4>1
          <5>2. r = start /\ l = n + 1
            <6>1. g.segments[r][l] = trade
              BY <4>1
            <6> QED
              BY <3>3, <3>5, <6>1
          <5> QED
            BY <5>1, <5>2
        <4>2. CASE g.segments[s][k] # trade
          <5>1. s \in DOMAIN f.segments /\ k \in DOMAIN f.segments[s]
                /\ g.segments[s][k] = f.segments[s][k]
            BY <3>3, <4>2
          <5>2. r \in DOMAIN f.segments /\ l \in DOMAIN f.segments[r]
                /\ g.segments[r][l] = f.segments[r][l]
            BY <3>3, <4>2
          <5>3. f.segments[s][k] = f.segments[r][l]
            BY <5>1, <5>2
          <5> QED
            BY <1>0, <5>1, <5>2, <5>3 DEF Once
        <4> QED
          BY <4>1, <4>2
      <3>10. \A t : Folded(f, t) => Folded(g, t)
        BY <3>4 DEF Folded
      <3> QED
        BY <1>3, <2>0, <2>1, <3>1, <3>6, <3>7, <3>8, <3>9, <3>10 DEF FoldOK, g, start
    <2>4. /\ \/ (\E s \in DOMAIN f.segments : start < s) /\ g.segments = f.segments
             \/ /\ \A s \in DOMAIN f.segments : ~ (start < s)
                /\ g.segments = AddTrade(f.segments, start, trade)
      BY <1>0, <1>3, FoldTradeIs DEF g, start
    <2> QED
      BY <2>2, <2>3, <2>4
  <1> QED
    BY <1>0, <1>2, <1>3, FoldTradeIs

(* A spot trade finds no segment that begins after it, and is folded.      *)
LEMMA FoldTradeSpot ==
    ASSUME TapeOK, NEW f, FoldOK(f, tape), Kept(f, tape, now), NEW i \in 1..Len(tape["spot"]),
           \A j \in DOMAIN tape["spot"] :
             j > f.hwm["spot"] /\ j < i => SegStart(tape["spot"][j]) < now - Span
    PROVE  Kept(FoldTrade(f, "spot", i), tape, now)
  <1> DEFINE g == FoldTrade(f, "spot", i)
             start == SegStart(tape["spot"][i])
             trade == <<"spot", i>>
  <1>0. /\ Shaped(f) /\ "spot" \in V /\ trade \in Trades /\ i \in Nat
        /\ f.hwm["spot"] \in Nat /\ f.hwm["spot"] <= Len(tape["spot"])
        /\ DOMAIN tape["spot"] = 1..Len(tape["spot"]) /\ Len(tape["spot"]) \in Nat
        /\ \A j \in DOMAIN tape["spot"] : tape["spot"][j] \in Nat
        /\ DOMAIN f.segments \subseteq Nat
    <2>1. "spot" \in V /\ tape["spot"] \in Seq(Nat)
      BY DEF V, TapeOK
    <2> QED
      BY <2>1, ElementOfSeq, LenProperties DEF FoldOK, Under, Trades, Shaped
  <1>1. i \in DOMAIN tape["spot"] /\ start \in Nat
    BY <1>0, SegStartOrder
  <1>2. CASE i <= f.hwm["spot"] /\ g = f
    BY <1>2
  <1>3. CASE /\ ~ (i <= f.hwm["spot"]) /\ DOMAIN g = DOMAIN f /\ DOMAIN g.hwm = V /\ g.hwm["spot"] = i
             /\ \/ (\E s \in DOMAIN f.segments : start < s) /\ g.segments = f.segments
                \/ /\ \A s \in DOMAIN f.segments : ~ (start < s)
                   /\ g.segments = AddTrade(f.segments, start, trade)
    <2>1. \A s \in DOMAIN f.segments : s <= start /\ s \in Nat
      BY <1>0, <1>1, <1>3 DEF Kept, Ahead
    <2>2. \A s \in DOMAIN f.segments : ~ (start < s)
      BY <1>1, <2>1
    <2>3. g.segments = AddTrade(f.segments, start, trade)
      BY <1>3, <2>2
    <2>4. \A s \in DOMAIN f.segments : f.segments[s] \in Seq(Trades)
      BY <1>0 DEF Shaped
    <2>5. PICK n \in Nat : Grown(g.segments, f.segments, start, trade, n)
      BY <1>0, <2>3, <2>4, AddTradeIs
    <2>6. DOMAIN g.segments = DOMAIN f.segments \cup {start} /\ Folded(g, trade)
      <3>1. start \in DOMAIN g.segments /\ n + 1 \in DOMAIN g.segments[start] /\ g.segments[start][n + 1] = trade
        BY <2>5 DEF Grown
      <3> QED
        BY <2>5, <3>1 DEF Grown, Folded
    <2>7. \A t : Folded(f, t) => Folded(g, t)
      BY <1>0, FoldTradeOK
    <2> HIDE DEF g
    <2>8. Ahead(g, tape)
      <3> SUFFICES ASSUME NEW s \in DOMAIN g.segments, NEW j \in DOMAIN tape["spot"], j > i
                   PROVE  s <= SegStart(tape["spot"][j])
        BY <1>3 DEF Ahead
      <3>1. tape["spot"][i] <= tape["spot"][j]
        BY <1>0, <1>1 DEF TapeOK
      <3>0. tape["spot"][i] \in Nat /\ tape["spot"][j] \in Nat
        BY <1>0, <1>1
      <3>2. start <= SegStart(tape["spot"][j]) /\ SegStart(tape["spot"][j]) \in Nat
        BY ONLY <3>0, <3>1, SegStartOrder
      <3>3. s <= start /\ s \in Nat
        BY <1>1, <2>1, <2>6
      <3> HIDE DEF start
      <3> QED
        BY <1>1, <3>2, <3>3
    <2>9. Covered(g, tape, now)
      <3> SUFFICES ASSUME NEW k \in 1..i, SegStart(tape["spot"][k]) >= now - Span
                   PROVE  Folded(g, <<"spot", k>>)
        BY <1>3 DEF Covered
      <3>1. CASE k <= f.hwm["spot"]
        <4>1. k \in 1..f.hwm["spot"]
          BY <1>0, <3>1
        <4> QED
          BY <2>7, <4>1 DEF Kept, Covered
      <3>2. CASE k = i
        BY <2>6, <3>2
      <3>3. CASE k > f.hwm["spot"] /\ k < i
        <4>1. k \in DOMAIN tape["spot"]
          BY <1>0, <1>1, <3>3
        <4>2. SegStart(tape["spot"][k]) < now - Span
          BY <3>3, <4>1
        <4>3. SegStart(tape["spot"][k]) \in Nat /\ now \in Nat /\ Span \in Nat
          BY <1>0, <4>1, SegStartOrder, FoldAssumption DEF TapeOK
        <4> QED
          BY ONLY <4>2, <4>3, SegStart(tape["spot"][k]) >= now - Span
      <3>4. k \in Nat
        OBVIOUS
      <3> QED
        BY <1>0, <3>1, <3>2, <3>3, <3>4
    <2> QED
      BY <2>8, <2>9 DEF Kept, g
  <1> QED
    BY <1>0, <1>2, <1>3, FoldTradeIs

(* A futures trade that precedes the spot trades still to come leaves the  *)
(* spot trades as they are.                                                *)
LEMMA FoldTradeFutures ==
    ASSUME TapeOK, NEW f, FoldOK(f, tape), Kept(f, tape, now), NEW i \in 1..Len(tape["futures"]),
           \A j \in DOMAIN tape["spot"] :
             j > f.hwm["spot"] => tape["futures"][i] <= tape["spot"][j]
    PROVE  Kept(FoldTrade(f, "futures", i), tape, now)
  <1> DEFINE g == FoldTrade(f, "futures", i)
             start == SegStart(tape["futures"][i])
  <1>0. "spot" \in V /\ "futures" \in V /\ "spot" # "futures"
        /\ tape["spot"] \in Seq(Nat) /\ tape["futures"] \in Seq(Nat)
    BY DEF V, TapeOK
  <1>1. tape["futures"][i] \in Nat /\ \A j \in DOMAIN tape["spot"] : tape["spot"][j] \in Nat
    BY <1>0, ElementOfSeq, LenProperties
  <1>2. /\ g.hwm["spot"] = f.hwm["spot"]
        /\ \A t : Folded(f, t) => Folded(g, t)
        /\ \A s \in DOMAIN g.segments : s \in DOMAIN f.segments \/ s = start
    BY <1>0, FoldTradeOK
  <1> HIDE DEF g
  <1>3. Ahead(g, tape)
    <2> SUFFICES ASSUME NEW s \in DOMAIN g.segments, NEW j \in DOMAIN tape["spot"], j > f.hwm["spot"]
                 PROVE  s <= SegStart(tape["spot"][j])
      BY <1>2 DEF Ahead
    <2>1. start <= SegStart(tape["spot"][j])
      BY <1>1, SegStartOrder
    <2> QED
      BY <1>2, <2>1 DEF Kept, Ahead
  <1>4. Covered(g, tape, now)
    BY <1>2 DEF Kept, Covered
  <1> QED
    BY <1>3, <1>4 DEF Kept, g

-----------------------------------------------------------------------------
(* A batch of trades.                                                      *)

(* The eviction takes only what has left the horizon.                      *)
LEMMA PruneOK ==
    ASSUME TapeOK, NEW g, FoldOK(g, tape), NEW newest,
           DOMAIN g.segments # {} => newest \in Nat /\ newest <= now,
           NEW h, h = [g EXCEPT !.segments = Prune(g.segments, newest)]
    PROVE  /\ FoldOK(h, tape) /\ h.hwm = g.hwm
           /\ Kept(g, tape, now) => Kept(h, tape, now)
  <1> DEFINE alive == {x \in DOMAIN g.segments : x >= newest - Span}
  <1>0. /\ Shaped(g) /\ Topped(g.segments) /\ Under(g, tape) /\ InPlace(g, tape) /\ Once(g)
        /\ DOMAIN g.segments \subseteq Nat /\ now \in Nat /\ Span \in Nat
    BY FoldAssumption DEF FoldOK, Shaped, TapeOK
  <1>1. h.segments = [s \in alive |-> g.segments[s]] /\ h.hwm = g.hwm /\ DOMAIN h = DOMAIN g
    BY <1>0 DEF Prune, Shaped
  <1>2. DOMAIN h.segments = alive /\ \A s \in alive : h.segments[s] = g.segments[s]
    BY <1>1
  <1>3. alive \subseteq DOMAIN g.segments
    OBVIOUS
  <1>4. Topped(h.segments)
    <2> SUFFICES ASSUME alive # {} PROVE \E m \in alive : \A s \in alive : s <= m
      BY <1>2 DEF Topped
    <2>1. PICK m \in DOMAIN g.segments : \A s \in DOMAIN g.segments : s <= m
      BY <1>0, <1>3 DEF Topped
    <2>2. PICK x \in alive : TRUE
      OBVIOUS
    <2>3. x \in DOMAIN g.segments /\ x \in Nat /\ m \in Nat /\ x <= m /\ x >= newest - Span /\ newest \in Nat
      BY <1>0, <2>1, <2>2
    <2>4. m >= newest - Span
      BY ONLY <1>0, <2>3
    <2>5. m \in alive
      BY <2>1, <2>4
    <2> QED
      BY <1>3, <2>1, <2>5
  <1> HIDE DEF alive
  <1>5. Shaped(h) /\ Under(h, tape) /\ InPlace(h, tape) /\ Once(h)
    <2>1. Shaped(h)
      BY <1>0, <1>1, <1>2, <1>3 DEF Shaped
    <2>2. Under(h, tape)
      BY <1>0, <1>1 DEF Under
    <2>3. InPlace(h, tape)
      BY <1>0, <1>1, <1>2, <1>3 DEF InPlace
    <2>4. Once(h)
      BY <1>0, <1>2, <1>3 DEF Once
    <2> QED
      BY <2>1, <2>2, <2>3, <2>4
  <1>6. ASSUME Kept(g, tape, now) PROVE Kept(h, tape, now)
    <2>1. Ahead(h, tape)
      BY <1>1, <1>2, <1>3, <1>6 DEF Kept, Ahead
    <2>2. ASSUME NEW i \in 1..g.hwm["spot"], SegStart(tape["spot"][i]) >= now - Span
          PROVE  Folded(h, <<"spot", i>>)
      <3>1. Folded(g, <<"spot", i>>)
        BY <1>6, <2>2 DEF Kept, Covered
      <3>2a. PICK s \in DOMAIN g.segments : \E k \in DOMAIN g.segments[s] : g.segments[s][k] = <<"spot", i>>
        BY <3>1 DEF Folded
      <3>2. PICK k \in DOMAIN g.segments[s] : g.segments[s][k] = <<"spot", i>>
        BY <3>2a
      <3>3. s = SegStart(tape["spot"][i]) /\ s \in Nat /\ newest \in Nat /\ newest <= now
        BY <1>0, <3>2 DEF InPlace
      <3>4. s >= newest - Span
        BY ONLY <1>0, <2>2, <3>3
      <3>5. s \in alive
        BY <3>4 DEF alive
      <3> QED
        BY <1>2, <3>2, <3>5 DEF Folded
    <2>3. Covered(h, tape, now)
      BY <1>1, <2>2 DEF Covered
    <2> QED
      BY <2>1, <2>3 DEF Kept
  <1> QED
    BY <1>1, <1>4, <1>5, <1>6 DEF FoldOK

(* What holds of nothing and of each next place holds of all places.       *)
LEMMA Upward ==
    ASSUME NEW n \in Nat, NEW S, 0 \in S, \A k \in 1..n : k - 1 \in S => k \in S
    PROVE  n \in S
  <1> DEFINE Bad == {k \in 0..n : k \notin S}
  <1>0. Bad \subseteq Nat /\ \A k \in 0..n : k \in Bad <=> k \notin S
    OBVIOUS
  <1> HIDE DEF Bad
  <1>1. ASSUME Bad # {} PROVE FALSE
    <2>1. PICK k \in Bad : \A m \in Bad : k <= m
      BY ONLY <1>0, <1>1, LeastNat
    <2>2. k \in 0..n
      BY <2>1 DEF Bad
    <2>3. k # 0
      BY <1>0, <2>1, <2>2
    <2>4. k \in 1..n /\ k - 1 \in 0..n /\ k - 1 < k /\ k - 1 \in Nat /\ k \in Nat
      BY ONLY n \in Nat, <2>2, <2>3
    <2>5. k - 1 \notin Bad
      BY ONLY <2>1, <2>4
    <2> QED
      BY <1>0, <2>1, <2>4, <2>5
  <1> QED
    BY <1>0, <1>1

(* The recursion over a batch defines what it says.                        *)
Folding(after, f, v, ids, n) ==
    after = [k \in 0..n |-> IF k = 0 THEN f ELSE FoldTrade(after[k - 1], v, ids[k])]
LEMMA FoldingIs ==
    ASSUME NEW f, NEW v, NEW ids, NEW n \in Nat
    PROVE  \E after : Folding(after, f, v, ids, n)
  <1> DEFINE S == {m \in Nat : \E after : Folding(after, f, v, ids, m)}
  <1>1. 0 \in S
    <2>1. Folding([k \in 0..0 |-> f], f, v, ids, 0)
      BY DEF Folding
    <2> QED
      BY <2>1
  <1>2. ASSUME NEW m \in 1..n, m - 1 \in S PROVE m \in S
    <2>1. PICK a : Folding(a, f, v, ids, m - 1)
      BY <1>2
    <2> DEFINE b == [k \in 0..m |-> IF k < m THEN a[k] ELSE FoldTrade(a[m - 1], v, ids[m])]
    <2>2. ASSUME NEW k \in 0..m
          PROVE  b[k] = IF k = 0 THEN f ELSE FoldTrade(b[k - 1], v, ids[k])
      <3>1. CASE k = 0
        BY <1>2, <2>1, <3>1 DEF Folding
      <3>2. CASE k # 0 /\ k < m
        <4>1. k \in 0..(m - 1) /\ k - 1 \in 0..m /\ k - 1 < m
          BY <3>2
        <4>2. b[k] = a[k] /\ b[k - 1] = a[k - 1]
          BY <3>2, <4>1
        <4>3. a[k] = FoldTrade(a[k - 1], v, ids[k])
          BY <2>1, <3>2, <4>1 DEF Folding
        <4> HIDE DEF b
        <4> QED
          BY <3>2, <4>2, <4>3
      <3>3. CASE k = m
        <4>1. m - 1 \in 0..m /\ m - 1 < m /\ m # 0
          BY <1>2
        <4>2. b[k] = FoldTrade(a[m - 1], v, ids[m]) /\ b[m - 1] = a[m - 1]
          BY <3>3, <4>1
        <4> HIDE DEF b
        <4> QED
          BY <3>3, <4>1, <4>2
      <3> QED
        BY <3>1, <3>2, <3>3
    <2>3. b = [k \in 0..m |-> IF k = 0 THEN f ELSE FoldTrade(b[k - 1], v, ids[k])]
      BY <2>2
    <2> HIDE DEF b
    <2>4. m \in Nat
      BY <1>2
    <2> QED
      BY <2>3, <2>4 DEF Folding
  <1> HIDE DEF S
  <1>3. n \in S
    BY <1>1, <1>2, Upward
  <1> QED
    BY <1>3 DEF S

(* A batch joins a fold: a spot trade it leaves out is old, or one of the  *)
(* batch comes after it; its futures trades precede the spot trades still  *)
(* to come.                                                                *)
Joins(f, v, ids) ==
    /\ v = "spot" =>
         \A k \in 1..Len(ids) : \A j \in DOMAIN tape["spot"] :
           j > f.hwm["spot"] /\ j < ids[k] =>
             SegStart(tape["spot"][j]) < now - Span \/ \E l \in 1..(k - 1) : j <= ids[l]
    /\ v = "futures" =>
         \A k \in 1..Len(ids) : \A j \in DOMAIN tape["spot"] :
           j > f.hwm["spot"] => tape["futures"][ids[k]] <= tape["spot"][j]
Batch(v, ids) == Len(ids) \in Nat /\ \A k \in 1..Len(ids) : ids[k] \in 1..Len(tape[v])

LEMMA FoldTradesOK ==
    ASSUME TapeOK, NEW f, FoldOK(f, tape), NEW v \in V, NEW ids, Batch(v, ids)
    PROVE  LET g == FoldTrades(f, v, ids) IN
           /\ FoldOK(g, tape)
           /\ \A u \in V : g.hwm[u] >= f.hwm[u] /\ (u # v => g.hwm[u] = f.hwm[u])
           /\ \A k \in 1..Len(ids) : g.hwm[v] >= ids[k]
           /\ Kept(f, tape, now) /\ Joins(f, v, ids) => Kept(g, tape, now)
  <1> DEFINE n == Len(ids)
  <1>0. n \in Nat /\ \A k \in 1..n : ids[k] \in 1..Len(tape[v]) /\ ids[k] \in Nat
    <2>1. Len(tape[v]) \in Nat
      BY LenProperties DEF TapeOK
    <2> QED
      BY <2>1 DEF Batch
  <1> DEFINE after == CHOOSE a : Folding(a, f, v, ids, n)
             last == after[n]
  <1>1. after = [k \in 0..n |-> IF k = 0 THEN f ELSE FoldTrade(after[k - 1], v, ids[k])]
    <2>1. \E a : Folding(a, f, v, ids, n)
      BY <1>0, FoldingIs
    <2>2. Folding(after, f, v, ids, n)
      BY <2>1, Zenon
    <2> QED
      BY <2>2 DEF Folding
  <1>2. FoldTrades(f, v, ids) =
          LET newest == CHOOSE s \in DOMAIN last.segments : \A r \in DOMAIN last.segments : r <= s
              trade == Last(last.segments[newest])
          IN  IF last.segments = f.segments THEN last
              ELSE [last EXCEPT !.segments = Prune(@, tape[trade[1]][trade[2]])]
    BY DEF FoldTrades, Folding
  <1> HIDE DEF after
  <1> DEFINE Good(k) ==
               /\ FoldOK(after[k], tape)
               /\ \A u \in V : after[k].hwm[u] >= f.hwm[u] /\ (u # v => after[k].hwm[u] = f.hwm[u])
               /\ \A l \in 1..k : after[k].hwm[v] >= ids[l]
               /\ Kept(f, tape, now) /\ Joins(f, v, ids) => Kept(after[k], tape, now)
             S == {k \in 0..n : Good(k)}
  <1>3. after[0] = f /\ \A k \in 1..n : after[k] = FoldTrade(after[k - 1], v, ids[k])
    <2>1. 0 \in 0..n /\ \A k \in 1..n : k \in 0..n /\ k # 0
      BY <1>0
    <2> QED
      BY ONLY <1>1, <2>1
  <1>4. Good(0)
    <2>1. \A u \in V : f.hwm[u] \in Nat
      BY DEF FoldOK, Under
    <2> QED
      BY <1>3, <2>1
  <1>5. ASSUME NEW k \in 1..n, Good(k - 1) PROVE Good(k)
    <2> DEFINE a == after[k - 1]
               b == after[k]
               i == ids[k]
    <2>1. b = FoldTrade(a, v, i) /\ i \in 1..Len(tape[v]) /\ i \in Nat /\ FoldOK(a, tape)
      BY <1>0, <1>3, <1>5
    <2>2. /\ \A u \in V : a.hwm[u] >= f.hwm[u] /\ (u # v => a.hwm[u] = f.hwm[u])
          /\ \A l \in 1..(k - 1) : a.hwm[v] >= ids[l]
          /\ Kept(f, tape, now) /\ Joins(f, v, ids) => Kept(a, tape, now)
      BY <1>5
    <2> HIDE DEF a, b
    <2>3. /\ FoldOK(b, tape)
          /\ b.hwm[v] >= i /\ \A u \in V : b.hwm[u] >= a.hwm[u] /\ (u # v => b.hwm[u] = a.hwm[u])
      BY <2>1, FoldTradeOK
    <2>4. \A u \in V : a.hwm[u] \in Nat /\ b.hwm[u] \in Nat /\ f.hwm[u] \in Nat
      BY <2>1, <2>3 DEF FoldOK, Under
    <2>5. \A u \in V : b.hwm[u] >= f.hwm[u] /\ (u # v => b.hwm[u] = f.hwm[u])
      BY <2>2, <2>3, <2>4
    <2>6. ASSUME NEW l \in 1..k PROVE b.hwm[v] >= ids[l]
      <3>1. CASE l = k
        BY <2>3, <3>1
      <3>2. CASE l # k
        <4>1. l \in 1..(k - 1) /\ ids[l] \in Nat
          BY <1>0, <3>2
        <4>2. a.hwm[v] >= ids[l] /\ b.hwm[v] >= a.hwm[v]
          BY <2>2, <2>3, <4>1
        <4> QED
          BY <2>4, <4>1, <4>2
      <3> QED
        BY <3>1, <3>2
    <2>7. ASSUME Kept(f, tape, now), Joins(f, v, ids) PROVE Kept(b, tape, now)
      <3>1. Kept(a, tape, now)
        BY <2>2, <2>7
      <3>2. CASE v = "spot"
        <4>1. ASSUME NEW j \in DOMAIN tape["spot"], j > a.hwm["spot"], j < i
              PROVE  SegStart(tape["spot"][j]) < now - Span
          <5>1. j \in Nat
            BY <3>2, LenProperties DEF TapeOK
          <5>2. j > f.hwm["spot"]
            BY <2>2, <2>4, <3>2, <4>1, <5>1
          <5>3. SegStart(tape["spot"][j]) < now - Span \/ \E l \in 1..(k - 1) : j <= ids[l]
            BY <2>7, <3>2, <4>1, <5>2 DEF Joins
          <5>4. ASSUME NEW l \in 1..(k - 1), j <= ids[l] PROVE FALSE
            <6>1. a.hwm[v] >= ids[l] /\ ids[l] \in Nat /\ a.hwm[v] \in Nat
              BY <1>0, <2>2, <2>4, <5>4
            <6> QED
              BY <3>2, <4>1, <5>1, <5>4, <6>1
          <5> QED
            BY <5>3, <5>4
        <4> QED
          BY <2>1, <3>1, <3>2, <4>1, FoldTradeSpot
      <3>3. CASE v = "futures"
        <4>1. "spot" \in V /\ "spot" # v
          BY <3>3 DEF V
        <4>2. a.hwm["spot"] = f.hwm["spot"]
          BY <2>2, <4>1
        <4>3. \A j \in DOMAIN tape["spot"] : j > a.hwm["spot"] => tape["futures"][i] <= tape["spot"][j]
          BY <2>7, <3>3, <4>2 DEF Joins
        <4> QED
          BY <2>1, <3>1, <3>3, <4>3, FoldTradeFutures
      <3> QED
        BY <3>2, <3>3 DEF V
    <2> QED
      BY <2>3, <2>5, <2>6, <2>7 DEF b
  <1>6. 0 \in S /\ \A k \in 1..n : k - 1 \in S => k \in S
    <2>1. 0 \in 0..n /\ \A k \in 1..n : k \in 0..n
      BY <1>0
    <2> HIDE DEF Good
    <2> QED
      BY <1>4, <1>5, <2>1
  <1>7. Good(n)
    <2> HIDE DEF S, Good
    <2>1. n \in S
      BY <1>0, <1>6, Upward
    <2> QED
      BY <2>1 DEF S
  <1>8. /\ FoldOK(last, tape)
        /\ \A u \in V : last.hwm[u] >= f.hwm[u] /\ (u # v => last.hwm[u] = f.hwm[u])
        /\ \A l \in 1..n : last.hwm[v] >= ids[l]
        /\ Kept(f, tape, now) /\ Joins(f, v, ids) => Kept(last, tape, now)
    BY <1>7
  <1> HIDE DEF last, Good
  <1> DEFINE newest == CHOOSE s \in DOMAIN last.segments : \A r \in DOMAIN last.segments : r <= s
             trade == Last(last.segments[newest])
             time == tape[trade[1]][trade[2]]
             h == [last EXCEPT !.segments = Prune(last.segments, time)]
  <1>9. ASSUME DOMAIN last.segments # {} PROVE time \in Nat /\ time <= now
    <2>1. newest \in DOMAIN last.segments
      BY <1>8, <1>9 DEF FoldOK, Topped
    <2> HIDE DEF newest
    <2> DEFINE q == last.segments[newest]
    <2>2. q \in Seq(Trades) /\ Len(q) > 0
      BY <1>8, <2>1 DEF FoldOK, Shaped
    <2> HIDE DEF q
    <2>3. Len(q) \in DOMAIN q /\ trade = q[Len(q)] /\ trade \in Trades
      BY <2>2, ElementOfSeq, LenProperties DEF Last, q
    <2>4. trade = last.segments[newest][Len(q)] /\ Len(q) \in DOMAIN last.segments[newest]
      BY <2>3 DEF q
    <2> HIDE DEF trade
    <2>5. trade[1] \in V /\ trade[2] \in Nat
      BY <2>3 DEF Trades
    <2>6. trade[2] > 0 /\ trade[2] <= last.hwm[trade[1]]
      BY <1>8, <2>1, <2>4 DEF FoldOK, InPlace
    <2>7. last.hwm[trade[1]] \in Nat /\ last.hwm[trade[1]] <= Len(tape[trade[1]])
          /\ tape[trade[1]] \in Seq(Nat)
      BY <1>8, <2>5 DEF FoldOK, Under, TapeOK
    <2> DEFINE w == tape[trade[1]]
    <2>8. trade[2] \in 1..Len(w) /\ w \in Seq(Nat)
      BY <2>5, <2>6, <2>7, LenProperties
    <2>9. trade[2] \in DOMAIN w /\ w[trade[2]] \in Nat
      BY <2>8, ElementOfSeq, LenProperties
    <2> QED
      BY <2>5, <2>9 DEF TapeOK
  <1> HIDE DEF newest, trade, time
  <1>10. /\ FoldOK(h, tape) /\ h.hwm = last.hwm
         /\ Kept(last, tape, now) => Kept(h, tape, now)
    BY <1>8, <1>9, PruneOK
  <1>11. FoldTrades(f, v, ids) \in {last, h}
    BY <1>2 DEF newest, trade, time
  <1> HIDE DEF h
  <1> QED
    BY <1>8, <1>10, <1>11

-----------------------------------------------------------------------------
(* The snapshots.                                                          *)

(* The newest id of a venue in the n-th snapshot of a stream.              *)
IdsAt(sn, n, v) == IF n = 0 THEN 0 ELSE sn[n].ids[v]

(* The stream: each snapshot divides the tape at its time, none knows less *)
(* than one before it, and each reaches back to the one before it.         *)
Typed(sn) == sn \in Seq([at : Nat, ids : [V -> Nat]])
Cut(sn, tp, t) ==
    \A n \in DOMAIN sn : \A v \in V :
        /\ sn[n].ids[v] <= Len(tp[v])
        /\ \A j \in DOMAIN tp[v] : j <= sn[n].ids[v] => tp[v][j] <= sn[n].at
        /\ \A j \in DOMAIN tp[v] : j > sn[n].ids[v] => tp[v][j] >= sn[n].at
        /\ sn[n].at <= t
Rising(sn) == \A n, m \in DOMAIN sn : n <= m => \A v \in V : sn[n].ids[v] <= sn[m].ids[v]
Reaching(sn, tp) ==
    /\ \A n \in DOMAIN sn : \A v \in V : sn[n].ids[v] <= IdsAt(sn, n - 1, v) + SnapLen
    /\ \A v \in V : Len(tp[v]) <= IdsAt(sn, Len(sn), v) + SnapLen
StreamOK == Typed(stream) /\ Cut(stream, tape, now) /\ Rising(stream) /\ Reaching(stream, tape)

LEMMA Snapshot ==
    ASSUME NEW sn, Typed(sn), NEW n \in DOMAIN sn
    PROVE  sn[n].at \in Nat /\ \A v \in V : sn[n].ids[v] \in Nat
  <1> DEFINE R == [at : Nat, ids : [V -> Nat]]
  <1>1. sn \in Seq(R)
    BY DEF Typed
  <1> HIDE DEF R
  <1>2. sn[n] \in R
    BY <1>1, ElementOfSeq, LenProperties
  <1> QED
    BY <1>2 DEF R

(* A fold has caught up with n snapshots: what it has not seen of them is  *)
(* too old.                                                                *)
Caught(f, n, tp, sn, t) ==
    \A j \in DOMAIN tp["spot"] :
        j > f.hwm["spot"] /\ j <= IdsAt(sn, n, "spot") => SegStart(tp["spot"][j]) < t - Span

LEMMA IdsFromIs ==
    ASSUME NEW a \in Nat, NEW b \in Nat, a <= b + 1
    PROVE  /\ Len(IdsFrom(a, b)) = b - a + 1 /\ b - a + 1 \in Nat
           /\ \A k \in 1..(b - a + 1) : IdsFrom(a, b)[k] = a + k - 1
  <1>1. b - a + 1 \in Nat
    OBVIOUS
  <1> QED
    BY <1>1 DEF IdsFrom

(* Both venues' trades, from the lowest ids on to what a snapshot knows.   *)
LEMMA FoldRange ==
    ASSUME TapeOK, StreamOK, NEW f, FoldOK(f, tape), NEW n \in DOMAIN stream, NEW low,
           \A v \in V : /\ low[v] \in Nat /\ low[v] > 0 /\ low[v] <= stream[n].ids[v] + 1
                        /\ stream[n].ids[v] # 0 => low[v] <= stream[n].ids[v],
           NEW ids, \A v \in V : ids[v] = IdsFrom(low[v], stream[n].ids[v])
    PROVE  LET g == FoldVenues(f, ids) IN
           /\ FoldOK(g, tape)
           /\ g.hwm["spot"] >= f.hwm["spot"] /\ g.hwm["spot"] >= stream[n].ids["spot"]
           /\ /\ Kept(f, tape, now)
              /\ \A j \in DOMAIN tape["spot"] :
                   j > f.hwm["spot"] /\ j < low["spot"] => SegStart(tape["spot"][j]) < now - Span
              => Kept(g, tape, now)
  <1> DEFINE h == FoldTrades(f, "spot", ids["spot"])
             g == FoldTrades(h, "futures", ids["futures"])
             top == stream[n].ids["spot"]
             a == low["spot"]
  <1>0. "spot" \in V /\ "futures" \in V /\ "spot" # "futures"
        /\ \A v \in V : /\ stream[n].ids[v] \in Nat /\ Len(tape[v]) \in Nat /\ stream[n].ids[v] <= Len(tape[v])
                        /\ DOMAIN tape[v] = 1..Len(tape[v])
    <2>1. \A v \in V : Len(tape[v]) \in Nat /\ DOMAIN tape[v] = 1..Len(tape[v])
      BY LenProperties DEF TapeOK
    <2>2. \A v \in V : stream[n].ids[v] \in Nat /\ stream[n].ids[v] <= Len(tape[v])
      BY Snapshot DEF StreamOK, Cut
    <2> QED
      BY <2>1, <2>2 DEF V
  <1>1. \A v \in V :
          /\ Len(ids[v]) = stream[n].ids[v] - low[v] + 1 /\ Len(ids[v]) \in Nat
          /\ \A k \in 1..Len(ids[v]) : ids[v][k] = low[v] + k - 1
    <2> SUFFICES ASSUME NEW v \in V
                 PROVE  /\ Len(ids[v]) = stream[n].ids[v] - low[v] + 1 /\ Len(ids[v]) \in Nat
                        /\ \A k \in 1..Len(ids[v]) : ids[v][k] = low[v] + k - 1
      OBVIOUS
    <2> DEFINE b == stream[n].ids[v]
               c == low[v]
    <2>1. b \in Nat /\ c \in Nat /\ c <= b + 1 /\ ids[v] = IdsFrom(c, b)
      BY <1>0
    <2> HIDE DEF b, c
    <2>2. Len(ids[v]) = b - c + 1 /\ b - c + 1 \in Nat /\ \A k \in 1..(b - c + 1) : ids[v][k] = c + k - 1
      BY <2>1, IdsFromIs
    <2> QED
      BY <2>2 DEF b, c
  <1>2. \A v \in V : Batch(v, ids[v]) /\ \A k \in 1..Len(ids[v]) : ids[v][k] <= stream[n].ids[v]
                     /\ ids[v][k] \in DOMAIN tape[v]
    <2> SUFFICES ASSUME NEW v \in V, NEW k \in 1..Len(ids[v])
                 PROVE  ids[v][k] \in 1..Len(tape[v]) /\ ids[v][k] <= stream[n].ids[v]
                        /\ ids[v][k] \in DOMAIN tape[v]
      BY <1>1 DEF Batch
    <2> DEFINE b == stream[n].ids[v]
               c == low[v]
    <2>1. b \in Nat /\ c \in Nat /\ c > 0 /\ b <= Len(tape[v]) /\ Len(tape[v]) \in Nat
          /\ ids[v][k] = c + k - 1 /\ k \in 1..(b - c + 1)
      BY <1>0, <1>1
    <2> HIDE DEF b, c
    <2>2. ids[v][k] \in 1..Len(tape[v]) /\ ids[v][k] <= b
      BY <2>1
    <2> QED
      BY <1>0, <2>2 DEF b
  <1>3. /\ FoldOK(h, tape) /\ h.hwm["spot"] >= f.hwm["spot"]
        /\ \A k \in 1..Len(ids["spot"]) : h.hwm["spot"] >= ids["spot"][k]
        /\ Kept(f, tape, now) /\ Joins(f, "spot", ids["spot"]) => Kept(h, tape, now)
    BY <1>0, <1>2, FoldTradesOK
  <1> HIDE DEF h
  <1>4. /\ FoldOK(g, tape) /\ g.hwm["spot"] = h.hwm["spot"]
        /\ Kept(h, tape, now) /\ Joins(h, "futures", ids["futures"]) => Kept(g, tape, now)
    BY <1>0, <1>2, <1>3, FoldTradesOK
  <1> HIDE DEF g
  <1>5. h.hwm["spot"] \in Nat /\ top \in Nat /\ a \in Nat /\ a > 0
    BY <1>0, <1>3 DEF FoldOK, Under
  <1>6. h.hwm["spot"] >= top
    <2>1. CASE top = 0
      BY <1>5, <2>1
    <2>2. CASE top # 0
      <3>1. top >= a
        BY <1>0, <2>2
      <3>2. top - a + 1 \in 1..Len(ids["spot"])
        BY <1>0, <1>1, <1>5, <3>1
      <3>3. ids["spot"][top - a + 1] = a + (top - a + 1) - 1
        BY <1>0, <1>1, <3>2
      <3>4. ids["spot"][top - a + 1] = top
        BY ONLY <1>5, <3>3
      <3> QED
        BY <1>3, <3>2, <3>4
    <2> QED
      BY <2>1, <2>2
  <1>7. ASSUME \A j \in DOMAIN tape["spot"] :
                 j > f.hwm["spot"] /\ j < a => SegStart(tape["spot"][j]) < now - Span
        PROVE  Joins(f, "spot", ids["spot"])
    <2> SUFFICES ASSUME NEW k \in 1..Len(ids["spot"]), NEW j \in DOMAIN tape["spot"],
                        j > f.hwm["spot"], j < ids["spot"][k], ~ (j < a)
                 PROVE  \E l \in 1..(k - 1) : j <= ids["spot"][l]
      BY <1>0, <1>7 DEF Joins
    <2>1. ids["spot"][k] = a + k - 1 /\ Len(ids["spot"]) \in Nat /\ j \in Nat
      BY <1>0, <1>1
    <2>2. j - a + 1 \in 1..(k - 1) /\ j - a + 1 \in 1..Len(ids["spot"])
      BY <1>5, <2>1
    <2>3. ids["spot"][j - a + 1] = a + (j - a + 1) - 1
      BY <1>0, <1>1, <2>2
    <2>4. j <= ids["spot"][j - a + 1]
      BY ONLY <1>5, <2>1, <2>3
    <2> QED
      BY <2>2, <2>4
  <1>8. Joins(h, "futures", ids["futures"])
    <2> SUFFICES ASSUME NEW k \in 1..Len(ids["futures"]), NEW j \in DOMAIN tape["spot"],
                        j > h.hwm["spot"]
                 PROVE  tape["futures"][ids["futures"][k]] <= tape["spot"][j]
      BY <1>0 DEF Joins
    <2> DEFINE i == ids["futures"][k]
    <2>1. i \in DOMAIN tape["futures"] /\ i <= stream[n].ids["futures"]
      BY <1>0, <1>2
    <2>2. j > top /\ j \in Nat
      BY <1>0, <1>5, <1>6
    <2>3. tape["futures"][i] <= stream[n].at
      BY <1>0, <2>1 DEF StreamOK, Cut
    <2>4. tape["spot"][j] >= stream[n].at
      BY <1>0, <2>2 DEF StreamOK, Cut
    <2>5. stream[n].at \in Nat
      BY Snapshot DEF StreamOK
    <2>6. stream[n].at \in Nat /\ tape["futures"][i] \in Nat /\ tape["spot"][j] \in Nat
      <3>1. tape["futures"] \in Seq(Nat) /\ tape["spot"] \in Seq(Nat)
        BY <1>0 DEF TapeOK
      <3> QED
        BY <1>0, <2>1, <2>5, <3>1, ElementOfSeq
    <2> QED
      BY ONLY <2>3, <2>4, <2>6
  <1>9. FoldVenues(f, ids) = g
    BY DEF FoldVenues, g, h
  <1> QED
    BY <1>3, <1>4, <1>5, <1>6, <1>7, <1>8, <1>9

LEMMA LowestIs ==
    ASSUME NEW b \in Nat
    PROVE  /\ Lowest(b) \in Nat /\ Lowest(b) > 0 /\ Lowest(b) <= b + 1 /\ (b # 0 => Lowest(b) <= b)
           /\ \A c \in Nat : b <= c + SnapLen => Lowest(b) <= c + 1
  <1>1. SnapLen \in Nat /\ SnapLen > 0
    BY FoldAssumption
  <1> QED
    BY <1>1 DEF Lowest

(* The n-th snapshot folded into a fold that has caught up with those      *)
(* before it.                                                              *)
LEMMA FoldSnapshotOK ==
    ASSUME TapeOK, StreamOK, NEW f, FoldOK(f, tape), NEW n \in DOMAIN stream
    PROVE  LET g == FoldSnapshot(f, stream[n]) IN
           /\ FoldOK(g, tape)
           /\ Kept(f, tape, now) /\ Caught(f, n - 1, tape, stream, now)
              => Kept(g, tape, now) /\ Caught(g, n, tape, stream, now)
  <1> DEFINE low == [v \in V |-> Lowest(stream[n].ids[v])]
             ids == [v \in V |-> IdsFrom(Lowest(stream[n].ids[v]), stream[n].ids[v])]
             g == FoldVenues(f, ids)
             top == stream[n].ids["spot"]
  <1>1. \A v \in V : /\ low[v] \in Nat /\ low[v] > 0 /\ low[v] <= stream[n].ids[v] + 1
                     /\ stream[n].ids[v] # 0 => low[v] <= stream[n].ids[v]
    BY Snapshot, LowestIs DEF StreamOK
  <1>2. "spot" \in V /\ top \in Nat /\ low["spot"] = Lowest(top) /\ n \in Nat /\ n > 0
        /\ DOMAIN tape["spot"] \subseteq Nat
    <2>1. "spot" \in V
      BY DEF V
    <2>2. tape["spot"] \in Seq(Nat)
      BY <2>1 DEF TapeOK
    <2>3. n \in 1..Len(stream) /\ DOMAIN tape["spot"] = 1..Len(tape["spot"])
      BY <2>2, LenProperties DEF StreamOK, Typed
    <2> QED
      BY <2>1, <2>3, Snapshot DEF StreamOK
  <1>3. \A v \in V : ids[v] = IdsFrom(low[v], stream[n].ids[v])
    OBVIOUS
  <1>4. FoldSnapshot(f, stream[n]) = g
    BY DEF FoldSnapshot
  <1> HIDE DEF low, ids, g
  <1>5. /\ FoldOK(g, tape) /\ g.hwm["spot"] >= top
        /\ /\ Kept(f, tape, now)
           /\ \A j \in DOMAIN tape["spot"] :
                j > f.hwm["spot"] /\ j < low["spot"] => SegStart(tape["spot"][j]) < now - Span
           => Kept(g, tape, now)
    BY <1>1, <1>3, FoldRange DEF g
  <1>6. g.hwm["spot"] \in Nat
    BY <1>2, <1>5 DEF FoldOK, Under
  <1>7. Caught(g, n, tape, stream, now)
    BY <1>2, <1>5, <1>6 DEF Caught, IdsAt
  <1>8. ASSUME Caught(f, n - 1, tape, stream, now)
        PROVE  \A j \in DOMAIN tape["spot"] :
                 j > f.hwm["spot"] /\ j < low["spot"] => SegStart(tape["spot"][j]) < now - Span
    <2>1. IdsAt(stream, n - 1, "spot") \in Nat
      <3>1. CASE n = 1
        BY <3>1 DEF IdsAt
      <3>2. CASE n # 1
        <4>1. n - 1 \in DOMAIN stream
          BY <1>2, <3>2, LenProperties DEF StreamOK, Typed
        <4> QED
          BY <1>2, <3>2, <4>1, Snapshot DEF StreamOK, IdsAt
      <3> QED
        BY <3>1, <3>2
    <2>2. top <= IdsAt(stream, n - 1, "spot") + SnapLen
      BY <1>2 DEF StreamOK, Reaching
    <2>3. low["spot"] \in Nat /\ low["spot"] <= IdsAt(stream, n - 1, "spot") + 1
      BY <1>2, <2>1, <2>2, LowestIs
    <2>4. \A j \in DOMAIN tape["spot"] : j < low["spot"] => j <= IdsAt(stream, n - 1, "spot")
      BY ONLY <1>2, <2>1, <2>3
    <2> QED
      BY <1>8, <2>4 DEF Caught
  <1> QED
    BY <1>4, <1>5, <1>7, <1>8

(* The recursion over a read defines what it says.                         *)
Reading(after, f, snaps, n) ==
    after = [k \in 0..n |-> IF k = 0 THEN f ELSE FoldSnapshot(after[k - 1], snaps[k])]
LEMMA ReadingIs ==
    ASSUME NEW f, NEW snaps, NEW n \in Nat
    PROVE  \E after : Reading(after, f, snaps, n)
  <1> DEFINE S == {m \in Nat : \E after : Reading(after, f, snaps, m)}
  <1>1. 0 \in S
    <2>1. Reading([k \in 0..0 |-> f], f, snaps, 0)
      BY DEF Reading
    <2> QED
      BY <2>1
  <1>2. ASSUME NEW m \in 1..n, m - 1 \in S PROVE m \in S
    <2>1. PICK a : Reading(a, f, snaps, m - 1)
      BY <1>2
    <2> DEFINE b == [k \in 0..m |-> IF k < m THEN a[k] ELSE FoldSnapshot(a[m - 1], snaps[m])]
    <2>2. ASSUME NEW k \in 0..m
          PROVE  b[k] = IF k = 0 THEN f ELSE FoldSnapshot(b[k - 1], snaps[k])
      <3>1. CASE k = 0
        BY <1>2, <2>1, <3>1 DEF Reading
      <3>2. CASE k # 0 /\ k < m
        <4>1. k \in 0..(m - 1) /\ k - 1 \in 0..m /\ k - 1 < m
          BY <3>2
        <4>2. b[k] = a[k] /\ b[k - 1] = a[k - 1]
          BY <3>2, <4>1
        <4>3. a[k] = FoldSnapshot(a[k - 1], snaps[k])
          BY <2>1, <3>2, <4>1 DEF Reading
        <4> HIDE DEF b
        <4> QED
          BY <3>2, <4>2, <4>3
      <3>3. CASE k = m
        <4>1. m - 1 \in 0..m /\ m - 1 < m /\ m # 0
          BY <1>2
        <4>2. b[k] = FoldSnapshot(a[m - 1], snaps[m]) /\ b[m - 1] = a[m - 1]
          BY <3>3, <4>1
        <4> HIDE DEF b
        <4> QED
          BY <3>3, <4>1, <4>2
      <3> QED
        BY <3>1, <3>2, <3>3
    <2>3. b = [k \in 0..m |-> IF k = 0 THEN f ELSE FoldSnapshot(b[k - 1], snaps[k])]
      BY <2>2
    <2> HIDE DEF b
    <2>4. m \in Nat
      BY <1>2
    <2> QED
      BY <2>3, <2>4 DEF Reading
  <1> HIDE DEF S
  <1>3. n \in S
    BY <1>1, <1>2, Upward
  <1> QED
    BY <1>3 DEF S

(* The snapshots of one read.                                              *)
LEMMA FoldSnapshotsOK ==
    ASSUME TapeOK, StreamOK, NEW f, FoldOK(f, tape), NEW d \in 0..Len(stream), NEW m \in d..Len(stream)
    PROVE  LET g == FoldSnapshots(f, SubSeq(stream, d + 1, m)) IN
           /\ FoldOK(g, tape)
           /\ Kept(f, tape, now) /\ Caught(f, d, tape, stream, now)
              => Kept(g, tape, now) /\ Caught(g, m, tape, stream, now)
  <1> DEFINE snaps == SubSeq(stream, d + 1, m)
             n == m - d
  <1>1. /\ stream \in Seq([at : Nat, ids : [V -> Nat]]) /\ Len(stream) \in Nat
        /\ DOMAIN stream = 1..Len(stream) /\ n \in Nat
    BY LenProperties DEF StreamOK, Typed
  <1>2. Len(snaps) = n /\ \A k \in 1..n : d + k \in DOMAIN stream /\ snaps[k] = stream[d + k]
    <2>1. d + 1 \in Int /\ m \in Int /\ d \in Nat /\ m \in Nat /\ d <= m
      BY <1>1
    <2>2. Len(snaps) = IF d + 1 > m THEN 0 ELSE m - (d + 1) + 1
      BY ONLY <1>1, <2>1, SubSeqProperties
    <2>3. ASSUME NEW k \in 1..n PROVE d + k \in DOMAIN stream /\ snaps[k] = stream[d + k]
      <3>1. k \in 1..(m - (d + 1) + 1) /\ d + 1 \in 1..Len(stream) /\ d + k \in 1..Len(stream)
        BY <1>1, <2>1
      <3>2. snaps[k] = stream[(d + 1) + k - 1] /\ (d + 1) + k - 1 = d + k
        BY <1>1, <2>1, <3>1, SubSeqProperties
      <3> QED
        BY <1>1, <3>1, <3>2
    <2> HIDE DEF snaps
    <2> QED
      BY <1>1, <2>1, <2>2, <2>3
  <1> HIDE DEF snaps
  <1> DEFINE after == CHOOSE a : Reading(a, f, snaps, n)
  <1>3. after = [k \in 0..n |-> IF k = 0 THEN f ELSE FoldSnapshot(after[k - 1], snaps[k])]
    <2>1. \E a : Reading(a, f, snaps, n)
      BY <1>1, ReadingIs
    <2>2. Reading(after, f, snaps, n)
      BY <2>1, Zenon
    <2> QED
      BY <2>2 DEF Reading
  <1>4. FoldSnapshots(f, snaps) = after[n]
    BY <1>2 DEF FoldSnapshots, Reading
  <1> HIDE DEF after
  <1>5. after[0] = f /\ \A k \in 1..n : after[k] = FoldSnapshot(after[k - 1], snaps[k])
    <2>1. 0 \in 0..n /\ \A k \in 1..n : k \in 0..n /\ k # 0
      BY <1>1
    <2> QED
      BY ONLY <1>3, <2>1
  <1> DEFINE Good(k) ==
               /\ FoldOK(after[k], tape)
               /\ Kept(f, tape, now) /\ Caught(f, d, tape, stream, now)
                  => Kept(after[k], tape, now) /\ Caught(after[k], d + k, tape, stream, now)
             S == {k \in 0..n : Good(k)}
  <1>6. Good(0)
    <2>1. d + 0 = d
      OBVIOUS
    <2> QED
      BY <1>5, <2>1
  <1>7. ASSUME NEW k \in 1..n, Good(k - 1) PROVE Good(k)
    <2>1. after[k] = FoldSnapshot(after[k - 1], stream[d + k]) /\ d + k \in DOMAIN stream
      BY <1>2, <1>5
    <2>2. d + (k - 1) = d + k - 1
      BY <1>1
    <2> DEFINE a == after[k - 1]
               b == after[k]
               j == d + k
    <2>3. /\ FoldOK(a, tape) /\ b = FoldSnapshot(a, stream[j]) /\ j \in DOMAIN stream
          /\ Kept(f, tape, now) /\ Caught(f, d, tape, stream, now)
             => Kept(a, tape, now) /\ Caught(a, j - 1, tape, stream, now)
      BY <1>7, <2>1, <2>2
    <2> HIDE DEF a, b, j
    <2>4. /\ FoldOK(b, tape)
          /\ Kept(a, tape, now) /\ Caught(a, j - 1, tape, stream, now)
             => Kept(b, tape, now) /\ Caught(b, j, tape, stream, now)
      BY <2>3, FoldSnapshotOK
    <2>5. /\ FoldOK(b, tape)
          /\ Kept(f, tape, now) /\ Caught(f, d, tape, stream, now)
             => Kept(b, tape, now) /\ Caught(b, j, tape, stream, now)
      BY <2>3, <2>4
    <2> QED
      BY <2>5 DEF b, j
  <1>8. 0 \in S /\ \A k \in 1..n : k - 1 \in S => k \in S
    <2>1. 0 \in 0..n /\ \A k \in 1..n : k \in 0..n
      BY <1>1
    <2> HIDE DEF Good
    <2> QED
      BY <1>6, <1>7, <2>1
  <1>9. Good(n)
    <2> HIDE DEF S, Good
    <2>1. n \in S
      BY <1>1, <1>8, Upward
    <2> QED
      BY <2>1 DEF S
  <1>10. d + n = m
    BY <1>1
  <1> QED
    BY <1>4, <1>9, <1>10 DEF snaps

(* What a snapshot from before the horizon knows is too old.               *)
LEMMA OldSnapshot ==
    ASSUME TapeOK, StreamOK, NEW n \in DOMAIN stream, n \notin Recent, NEW j \in DOMAIN tape["spot"],
           j <= stream[n].ids["spot"]
    PROVE  SegStart(tape["spot"][j]) < now - Span
  <1>1. "spot" \in V
    BY DEF V
  <1>2. tape["spot"] \in Seq(Nat) /\ now \in Nat /\ Span \in Nat
    BY <1>1, FoldAssumption DEF TapeOK
  <1>3. tape["spot"][j] \in Nat
    BY <1>2, ElementOfSeq, LenProperties
  <1>4. tape["spot"][j] <= stream[n].at
    BY <1>1 DEF StreamOK, Cut
  <1>5. stream[n].at \in Nat
    BY Snapshot DEF StreamOK
  <1>6. stream[n].at < now - Span
    BY <1>2, <1>5 DEF Recent
  <1>7. SegStart(tape["spot"][j]) \in Nat /\ SegStart(tape["spot"][j]) <= tape["spot"][j]
    BY <1>3, SegStartOrder
  <1> QED
    BY ONLY <1>2, <1>3, <1>4, <1>5, <1>6, <1>7

(* The backfill's window folded into any fold.                             *)
LEMMA WindowOK ==
    ASSUME TapeOK, StreamOK, NEW f, FoldOK(f, tape)
    PROVE  LET g == FoldVenues(f, Window) IN
           /\ FoldOK(g, tape)
           /\ Kept(f, tape, now) => Kept(g, tape, now) /\ Caught(g, Len(stream), tape, stream, now)
  <1> DEFINE g == FoldVenues(f, Window)
             n == Len(stream)
  <1>1. n \in Nat /\ DOMAIN stream = 1..n /\ Recent \subseteq 1..n
        /\ "spot" \in V /\ "futures" \in V /\ "spot" # "futures"
    BY LenProperties DEF StreamOK, Typed, Recent, V
  <1>2. \A j \in DOMAIN tape["spot"] : j \in Nat /\ j > 0
    <2>1. tape["spot"] \in Seq(Nat)
      BY <1>1 DEF TapeOK
    <2>2. DOMAIN tape["spot"] = 1..Len(tape["spot"])
      BY <2>1, LenProperties
    <2> QED
      BY <2>2
  <1>3. CASE Recent = {}
    <2>1. \A v \in V : Window[v] = <<>>
      BY <1>3 DEF Window
    <2>2. Len(<<>>) = 0 /\ 0 \in Nat /\ 1..0 = {}
      OBVIOUS
    <2>3. /\ \A v \in V : Batch(v, Window[v])
          /\ \A h : Joins(h, "spot", Window["spot"]) /\ Joins(h, "futures", Window["futures"])
      BY <1>1, <2>1, <2>2 DEF Batch, Joins
    <2> DEFINE h == FoldTrades(f, "spot", Window["spot"])
               e == FoldTrades(h, "futures", Window["futures"])
    <2>4. FoldOK(h, tape) /\ (Kept(f, tape, now) => Kept(h, tape, now))
      BY <1>1, <2>3, FoldTradesOK
    <2> HIDE DEF h
    <2>5. FoldOK(e, tape) /\ (Kept(h, tape, now) => Kept(e, tape, now))
      BY <1>1, <2>3, <2>4, FoldTradesOK
    <2>6. g = e
      BY DEF FoldVenues, h
    <2>7. ASSUME NEW j \in DOMAIN tape["spot"], j <= IdsAt(stream, n, "spot")
          PROVE  SegStart(tape["spot"][j]) < now - Span
      <3>1. n # 0
        BY <1>2, <2>7 DEF IdsAt
      <3>2. n \in DOMAIN stream /\ n \notin Recent /\ IdsAt(stream, n, "spot") = stream[n].ids["spot"]
        BY <1>1, <1>3, <3>1 DEF IdsAt
      <3> QED
        BY <2>7, <3>2, OldSnapshot
    <2> HIDE DEF g, e
    <2> QED
      BY <2>4, <2>5, <2>6, <2>7 DEF Caught, g
  <1>4. CASE Recent # {}
    <2> DEFINE first == CHOOSE k \in Recent : \A m \in Recent : k <= m
               low == [v \in V |-> Lowest(stream[first].ids[v])]
    <2>1. first \in Recent /\ \A m \in Recent : first <= m
      <3>1. Recent \subseteq Nat
        BY <1>1
      <3>2. \E k \in Recent : \A m \in Recent : k <= m
        BY <1>4, <3>1, LeastNat
      <3> QED
        BY <3>2, Zenon
    <2>2. \A v \in V : Window[v] = IdsFrom(low[v], stream[n].ids[v])
      <3>1. Last(stream) = stream[n]
        BY DEF Last
      <3> QED
        BY <1>4, <3>1 DEF Window
    <2> HIDE DEF first
    <2>3. first \in DOMAIN stream /\ first \in Nat /\ n \in DOMAIN stream /\ n # 0 /\ first <= n
      BY <1>1, <2>1
    <2>4. \A v \in V : /\ stream[first].ids[v] \in Nat /\ stream[n].ids[v] \in Nat
                       /\ stream[first].ids[v] <= stream[n].ids[v]
      BY <2>3, Snapshot DEF StreamOK, Rising
    <2>5. \A v \in V : /\ low[v] \in Nat /\ low[v] > 0
                       /\ low[v] <= stream[first].ids[v] + 1
                       /\ stream[first].ids[v] # 0 => low[v] <= stream[first].ids[v]
                       /\ \A c \in Nat : stream[first].ids[v] <= c + SnapLen => low[v] <= c + 1
      BY <2>4, LowestIs
    <2> HIDE DEF low
    <2>6. \A v \in V : /\ low[v] \in Nat /\ low[v] > 0 /\ low[v] <= stream[n].ids[v] + 1
                       /\ stream[n].ids[v] # 0 => low[v] <= stream[n].ids[v]
      <3> SUFFICES ASSUME NEW v \in V
                   PROVE  /\ low[v] \in Nat /\ low[v] > 0 /\ low[v] <= stream[n].ids[v] + 1
                          /\ stream[n].ids[v] # 0 => low[v] <= stream[n].ids[v]
        OBVIOUS
      <3> DEFINE a == stream[first].ids[v]
                 b == stream[n].ids[v]
                 c == low[v]
      <3>1. a \in Nat /\ b \in Nat /\ a <= b /\ c \in Nat /\ c > 0 /\ c <= a + 1 /\ (a # 0 => c <= a)
        BY <2>4, <2>5
      <3> HIDE DEF a, b, c
      <3>2. c <= b + 1 /\ (b # 0 => c <= b)
        BY <3>1
      <3> QED
        BY <3>1, <3>2 DEF a, b, c
    <2>7. /\ FoldOK(g, tape) /\ g.hwm["spot"] >= stream[n].ids["spot"]
          /\ /\ Kept(f, tape, now)
             /\ \A j \in DOMAIN tape["spot"] :
                  j > f.hwm["spot"] /\ j < low["spot"] => SegStart(tape["spot"][j]) < now - Span
             => Kept(g, tape, now)
      BY <2>2, <2>3, <2>6, FoldRange
    <2> HIDE DEF g
    <2>8. ASSUME NEW j \in DOMAIN tape["spot"], j < low["spot"]
          PROVE  SegStart(tape["spot"][j]) < now - Span
      <3>1. stream[first].ids["spot"] <= IdsAt(stream, first - 1, "spot") + SnapLen
        BY <1>1, <2>3 DEF StreamOK, Reaching
      <3>2. CASE first = 1
        <4>1. low["spot"] <= 1
          BY <1>1, <2>5, <3>1, <3>2 DEF IdsAt
        <4> QED
          BY <1>1, <1>2, <2>5, <2>8, <4>1
      <3>3. CASE first # 1
        <4>1. first - 1 \in DOMAIN stream /\ first - 1 \notin Recent /\ first - 1 # 0
          BY <1>1, <2>1, <2>3, <3>3
        <4>2. stream[first - 1].ids["spot"] \in Nat
          BY <1>1, <4>1, Snapshot DEF StreamOK
        <4>3. low["spot"] <= stream[first - 1].ids["spot"] + 1
          BY <1>1, <2>5, <3>1, <4>1, <4>2 DEF IdsAt
        <4>4. j <= stream[first - 1].ids["spot"]
          BY <1>1, <1>2, <2>5, <2>8, <4>2, <4>3
        <4> QED
          BY <4>1, <4>4, OldSnapshot
      <3> QED
        BY <3>2, <3>3
    <2>9. g.hwm["spot"] \in Nat
      BY <1>1, <2>7 DEF FoldOK, Under
    <2>10. Caught(g, n, tape, stream, now)
      BY <1>1, <1>2, <2>3, <2>4, <2>7, <2>9 DEF Caught, IdsAt
    <2> QED
      BY <2>7, <2>8, <2>10 DEF g
  <1> QED
    BY <1>3, <1>4

-----------------------------------------------------------------------------
(* The world goes on under a fold.                                         *)

(* Time only makes trades old.                                             *)
LEMMA Later ==
    ASSUME TapeOK, NEW f, FoldOK(f, tape)
    PROVE  /\ Kept(f, tape, now) => Kept(f, tape, now + 1)
           /\ \A n : Caught(f, n, tape, stream, now) => Caught(f, n, tape, stream, now + 1)
  <1>1. "spot" \in V /\ now \in Nat /\ Span \in Nat
    BY FoldAssumption DEF V, TapeOK
  <1>2. ASSUME NEW j \in DOMAIN tape["spot"] PROVE SegStart(tape["spot"][j]) \in Nat
    <2>1. tape["spot"] \in Seq(Nat)
      BY <1>1 DEF TapeOK
    <2>2. tape["spot"][j] \in Nat
      BY <1>2, <2>1, ElementOfSeq, LenProperties
    <2> QED
      BY <2>2, SegStartOrder
  <1>3. 1..f.hwm["spot"] \subseteq DOMAIN tape["spot"]
    <2>1. tape["spot"] \in Seq(Nat) /\ f.hwm["spot"] \in Nat /\ f.hwm["spot"] <= Len(tape["spot"])
      BY <1>1 DEF TapeOK, FoldOK, Under
    <2>2. DOMAIN tape["spot"] = 1..Len(tape["spot"]) /\ Len(tape["spot"]) \in Nat
      BY <2>1, LenProperties
    <2> QED
      BY <2>1, <2>2
  <1>4. \A j \in DOMAIN tape["spot"] :
          /\ SegStart(tape["spot"][j]) >= (now + 1) - Span => SegStart(tape["spot"][j]) >= now - Span
          /\ SegStart(tape["spot"][j]) < now - Span => SegStart(tape["spot"][j]) < (now + 1) - Span
    <2> SUFFICES ASSUME NEW j \in DOMAIN tape["spot"], NEW s \in Nat, s = SegStart(tape["spot"][j])
                 PROVE  /\ s >= (now + 1) - Span => s >= now - Span
                        /\ s < now - Span => s < (now + 1) - Span
      BY <1>2
    <2> QED
      BY <1>1
  <1>5. ASSUME Covered(f, tape, now) PROVE Covered(f, tape, now + 1)
    <2> SUFFICES ASSUME NEW i \in 1..f.hwm["spot"], SegStart(tape["spot"][i]) >= (now + 1) - Span
                 PROVE  Folded(f, <<"spot", i>>)
      BY DEF Covered
    <2>1. SegStart(tape["spot"][i]) >= now - Span
      BY <1>3, <1>4
    <2> QED
      BY <1>5, <2>1 DEF Covered
  <1>6. ASSUME NEW n, Caught(f, n, tape, stream, now) PROVE Caught(f, n, tape, stream, now + 1)
    <2> SUFFICES ASSUME NEW j \in DOMAIN tape["spot"], j > f.hwm["spot"], j <= IdsAt(stream, n, "spot")
                 PROVE  SegStart(tape["spot"][j]) < (now + 1) - Span
      BY DEF Caught
    <2>1. SegStart(tape["spot"][j]) < now - Span
      BY <1>6 DEF Caught
    <2> QED
      BY <1>4, <2>1
  <1> QED
    BY <1>5, <1>6 DEF Kept

(* A new trade is under no high-water and in no segment's past.            *)
LEMMA Extended ==
    ASSUME TapeOK, NEW v \in V, NEW tp, tp = [tape EXCEPT ![v] = Append(@, now)],
           NEW f, FoldOK(f, tape)
    PROVE  /\ FoldOK(f, tp)
           /\ Kept(f, tape, now) => Kept(f, tp, now)
           /\ \A n, sn : IdsAt(sn, n, "spot") \in Nat /\ IdsAt(sn, n, "spot") <= Len(tape["spot"])
                         /\ Caught(f, n, tape, sn, now) => Caught(f, n, tp, sn, now)
  <1>1. now \in Nat /\ "spot" \in V
    BY DEF TapeOK, V
  <1>2. \A u \in V : tape[u] \in Seq(Nat) /\ Len(tape[u]) \in Nat /\ DOMAIN tape[u] = 1..Len(tape[u])
    BY LenProperties DEF TapeOK
  <1>3. \A u \in V : IF u = v THEN tp[u] = Append(tape[v], now) ELSE tp[u] = tape[u]
    BY DEF TapeOK
  <1>4. ASSUME NEW u \in V
        PROVE  /\ Len(tp[u]) \in Nat /\ Len(tp[u]) >= Len(tape[u]) /\ DOMAIN tp[u] = 1..Len(tp[u])
               /\ \A j \in 1..Len(tape[u]) : tp[u][j] = tape[u][j]
               /\ \A j \in DOMAIN tp[u] : j > Len(tape[u]) => tp[u][j] = now
    <2>1. CASE u = v
      <3> DEFINE q == tape[v]
      <3>1. q \in Seq(Nat) /\ tp[u] = Append(q, now) /\ Len(q) \in Nat
        BY <1>2, <1>3, <2>1
      <3> HIDE DEF q
      <3>2. Len(Append(q, now)) = Len(q) + 1 /\ DOMAIN Append(q, now) = 1..(Len(q) + 1)
            /\ Append(q, now)[Len(q) + 1] = now /\ \A j \in 1..Len(q) : Append(q, now)[j] = q[j]
        BY <1>1, <3>1, AppendProperties, LenProperties
      <3>3. \A j \in 1..(Len(q) + 1) : j > Len(q) => j = Len(q) + 1
        BY <3>1
      <3>4. Len(q) + 1 \in Nat /\ Len(q) + 1 >= Len(q)
        BY <3>1
      <3> QED
        BY <2>1, <3>1, <3>2, <3>3, <3>4 DEF q
    <2>2. CASE u # v
      <3>1. tp[u] = tape[u] /\ Len(tape[u]) \in Nat /\ DOMAIN tape[u] = 1..Len(tape[u])
        BY <1>2, <1>3, <2>2
      <3> QED
        BY <3>1
    <2> QED
      BY <2>1, <2>2
  <1>5. /\ Shaped(f) /\ Topped(f.segments) /\ Under(f, tape) /\ InPlace(f, tape) /\ Once(f)
        /\ \A u \in V : f.hwm[u] \in Nat /\ f.hwm[u] <= Len(tape[u])
    BY DEF FoldOK, Under
  <1>6. ASSUME NEW s \in DOMAIN f.segments, NEW k \in DOMAIN f.segments[s],
               NEW t, t = f.segments[s][k]
        PROVE  /\ t[1] \in V /\ t[2] \in 1..Len(tape[t[1]]) /\ t[2] > 0 /\ t[2] <= f.hwm[t[1]]
               /\ s = SegStart(tape[t[1]][t[2]])
    <2>1. t \in Trades
      BY <1>5, <1>6, ElementOfSeq, LenProperties DEF Shaped
    <2>2. t[1] \in V /\ t[2] \in Nat
      BY <2>1 DEF Trades
    <2>3. t[2] > 0 /\ t[2] <= f.hwm[t[1]] /\ s = SegStart(tape[t[1]][t[2]])
      BY <1>5, <1>6 DEF InPlace
    <2>4. t[2] \in 1..Len(tape[t[1]])
      BY <1>2, <1>5, <2>2, <2>3
    <2> QED
      BY <2>2, <2>3, <2>4
  <1>7. FoldOK(f, tp)
    <2>1. Under(f, tp)
      <3> SUFFICES ASSUME NEW u \in V PROVE f.hwm[u] \in Nat /\ f.hwm[u] <= Len(tp[u])
        BY DEF Under
      <3> QED
        BY <1>2, <1>4, <1>5
    <2>2. InPlace(f, tp)
      BY <1>4, <1>6 DEF InPlace
    <2> QED
      BY <1>5, <2>1, <2>2 DEF FoldOK
  <1>8. ASSUME Ahead(f, tape) PROVE Ahead(f, tp)
    <2> SUFFICES ASSUME NEW s \in DOMAIN f.segments, NEW j \in DOMAIN tp["spot"], j > f.hwm["spot"]
                 PROVE  s <= SegStart(tp["spot"][j])
      BY DEF Ahead
    <2>1. CASE j \in 1..Len(tape["spot"])
      BY <1>1, <1>2, <1>4, <1>8, <2>1 DEF Ahead
    <2>2. CASE j > Len(tape["spot"])
      <3>1. tp["spot"][j] = now
        BY <1>1, <1>4, <2>2
      <3>2. f.segments[s] \in Seq(Trades) /\ Len(f.segments[s]) > 0
        BY <1>5 DEF Shaped
      <3>3. 1 \in DOMAIN f.segments[s]
        BY <3>2, LenProperties
      <3> DEFINE t == f.segments[s][1]
      <3>4. t[1] \in V /\ t[2] \in 1..Len(tape[t[1]]) /\ s = SegStart(tape[t[1]][t[2]])
        BY <1>6, <3>3
      <3> HIDE DEF t
      <3>5. tape[t[1]][t[2]] \in Nat /\ tape[t[1]][t[2]] <= now
        BY <1>2, <3>4, ElementOfSeq DEF TapeOK
      <3>6. s <= SegStart(now)
        BY <1>1, <3>4, <3>5, SegStartOrder
      <3> QED
        BY <3>1, <3>6
    <2> QED
      BY <1>1, <1>2, <1>4, <2>1, <2>2
  <1>9. ASSUME Covered(f, tape, now) PROVE Covered(f, tp, now)
    <2>1. \A i \in 1..f.hwm["spot"] : i \in 1..Len(tape["spot"])
      BY <1>1, <1>2, <1>5
    <2>2. \A i \in 1..f.hwm["spot"] : tp["spot"][i] = tape["spot"][i]
      BY <1>1, <1>4, <2>1
    <2> QED
      BY <1>9, <2>2 DEF Covered
  <1>10. ASSUME NEW n, NEW sn, IdsAt(sn, n, "spot") \in Nat, IdsAt(sn, n, "spot") <= Len(tape["spot"]),
                Caught(f, n, tape, sn, now)
         PROVE  Caught(f, n, tp, sn, now)
    <2> SUFFICES ASSUME NEW j \in DOMAIN tp["spot"], j > f.hwm["spot"], j <= IdsAt(sn, n, "spot")
                 PROVE  SegStart(tp["spot"][j]) < now - Span
      BY DEF Caught
    <2>1. j \in 1..Len(tape["spot"])
      BY <1>1, <1>2, <1>4, <1>10
    <2>2. tp["spot"][j] = tape["spot"][j] /\ j \in DOMAIN tape["spot"]
      BY <1>1, <1>2, <1>4, <2>1
    <2> QED
      BY <1>10, <2>2 DEF Caught
  <1> QED
    BY <1>7, <1>8, <1>9, <1>10 DEF Kept

LEMMA IdsAtIs ==
    ASSUME TapeOK, StreamOK, NEW n \in 0..Len(stream), NEW v \in V
    PROVE  IdsAt(stream, n, v) \in Nat /\ IdsAt(stream, n, v) <= Len(tape[v])
  <1>1. DOMAIN stream = 1..Len(stream) /\ Len(stream) \in Nat /\ Len(tape[v]) \in Nat
    BY LenProperties DEF StreamOK, Typed, TapeOK
  <1>2. CASE n = 0
    BY <1>1, <1>2 DEF IdsAt
  <1>3. CASE n # 0
    <2>1. n \in DOMAIN stream
      BY <1>1, <1>3
    <2> QED
      BY <1>3, <2>1, Snapshot DEF IdsAt, StreamOK, Cut
  <1> QED
    BY <1>2, <1>3

LEMMA PolledIs ==
    ASSUME TapeOK, StreamOK, NEW v \in V
    PROVE  Polled(v) = IdsAt(stream, Len(stream), v)
  <1>1. stream \in Seq([at : Nat, ids : [V -> Nat]])
    BY DEF StreamOK, Typed
  <1>2. (stream = <<>>) <=> (Len(stream) = 0)
    BY <1>1, EmptySeq
  <1> QED
    BY <1>2 DEF Polled, IdsAt, Last

LEMMA TickStep ==
    ASSUME TapeOK, StreamOK, ClockTick
    PROVE  TapeOK' /\ StreamOK'
  <1>1. now \in Nat /\ now' = now + 1 /\ tape' = tape /\ stream' = stream /\ now' \in Nat
    BY DEF TapeOK, ClockTick
  <1>2. ASSUME NEW v \in V, NEW i \in DOMAIN tape[v] PROVE tape[v][i] <= now'
    <2>1. tape[v] \in Seq(Nat)
      BY DEF TapeOK
    <2>2. tape[v][i] \in Nat /\ tape[v][i] <= now
      BY <1>2, <2>1, ElementOfSeq, LenProperties DEF TapeOK
    <2> QED
      BY <1>1, <2>2
  <1>3. ASSUME NEW n \in DOMAIN stream PROVE stream[n].at <= now'
    <2>1. stream[n].at \in Nat /\ "spot" \in V
      BY Snapshot DEF StreamOK, V
    <2>2. stream[n].at <= now
      BY <2>1 DEF StreamOK, Cut
    <2> QED
      BY <1>1, <2>1, <2>2
  <1>4. TapeOK'
    BY <1>1, <1>2 DEF TapeOK
  <1>5. Cut(stream, tape, now')
    BY <1>3 DEF StreamOK, Cut
  <1> QED
    BY <1>1, <1>4, <1>5 DEF StreamOK

LEMMA TradeStep ==
    ASSUME TapeOK, StreamOK, NEW v \in V, Trade(v)
    PROVE  TapeOK' /\ StreamOK'
  <1>1. now \in Nat /\ now' = now /\ stream' = stream /\ tape' = [tape EXCEPT ![v] = Append(@, now)]
    BY DEF TapeOK, Trade
  <1>2. \A u \in V : tape[u] \in Seq(Nat) /\ Len(tape[u]) \in Nat /\ DOMAIN tape[u] = 1..Len(tape[u])
    BY LenProperties DEF TapeOK
  <1>3. DOMAIN tape' = V /\ tape'[v] = Append(tape[v], now) /\ \A u \in V : u # v => tape'[u] = tape[u]
    BY <1>1 DEF TapeOK
  <1> DEFINE q == tape[v]
             p == tape'[v]
  <1>4. /\ p \in Seq(Nat) /\ Len(p) = Len(q) + 1 /\ DOMAIN p = 1..(Len(q) + 1)
        /\ p[Len(q) + 1] = now /\ \A j \in 1..Len(q) : p[j] = q[j]
        /\ q \in Seq(Nat) /\ Len(q) \in Nat /\ DOMAIN q = 1..Len(q)
    <2>1. q \in Seq(Nat) /\ p = Append(q, now) /\ Len(q) \in Nat /\ DOMAIN q = 1..Len(q)
      BY <1>2, <1>3
    <2> HIDE DEF q, p
    <2> QED
      BY <1>1, <2>1, AppendProperties, LenProperties
  <1>5. /\ \A i, j \in DOMAIN q : i <= j => q[i] <= q[j]
        /\ \A i \in DOMAIN q : q[i] <= now
    BY DEF TapeOK
  <1>6. ASSUME NEW i \in DOMAIN p
        PROVE  (i \in DOMAIN q /\ p[i] = q[i]) \/ (i = Len(q) + 1 /\ p[i] = now)
    <2> HIDE DEF q, p
    <2>1. i \in 1..Len(q) \/ i = Len(q) + 1
      BY <1>4, <1>6
    <2> QED
      BY <1>4, <2>1
  <1>7. /\ \A i, j \in DOMAIN p : i <= j => p[i] <= p[j]
        /\ \A i \in DOMAIN p : p[i] <= now
    <2> HIDE DEF q, p
    <2>1. \A i \in DOMAIN p : p[i] <= now
      BY <1>1, <1>5, <1>6
    <2>2. ASSUME NEW i \in DOMAIN p, NEW j \in DOMAIN p, i <= j PROVE p[i] <= p[j]
      <3>1. CASE j \in DOMAIN q /\ p[j] = q[j]
        <4>1. i \in DOMAIN q /\ p[i] = q[i]
          BY <1>4, <1>6, <2>2, <3>1
        <4> QED
          BY <1>5, <2>2, <3>1, <4>1
      <3>2. CASE p[j] = now
        BY <2>1, <2>2, <3>2
      <3> QED
        BY <1>6, <2>2, <3>1, <3>2
    <2> QED
      BY <2>1, <2>2
  <1>8. TapeOK'
    <2>1. \A u \in V : tape'[u] \in Seq(Nat)
      BY <1>2, <1>3, <1>4
    <2>2. tape' \in [V -> Seq(Nat)]
      BY <1>1, <2>1 DEF TapeOK
    <2>3. \A u \in V : /\ \A i, j \in DOMAIN tape'[u] : i <= j => tape'[u][i] <= tape'[u][j]
                       /\ \A i \in DOMAIN tape'[u] : tape'[u][i] <= now
      BY <1>3, <1>7 DEF TapeOK
    <2> QED
      BY <1>1, <2>2, <2>3 DEF TapeOK
  <1>9. Cut(stream, tape', now)
    <2> SUFFICES ASSUME NEW n \in DOMAIN stream, NEW u \in V
                 PROVE  /\ stream[n].ids[u] <= Len(tape'[u])
                        /\ \A j \in DOMAIN tape'[u] : j <= stream[n].ids[u] => tape'[u][j] <= stream[n].at
                        /\ \A j \in DOMAIN tape'[u] : j > stream[n].ids[u] => tape'[u][j] >= stream[n].at
                        /\ stream[n].at <= now
      BY DEF Cut
    <2>1. /\ stream[n].ids[u] <= Len(tape[u]) /\ stream[n].ids[u] \in Nat /\ stream[n].at \in Nat
          /\ \A j \in DOMAIN tape[u] : j <= stream[n].ids[u] => tape[u][j] <= stream[n].at
          /\ \A j \in DOMAIN tape[u] : j > stream[n].ids[u] => tape[u][j] >= stream[n].at
          /\ stream[n].at <= now
      BY Snapshot DEF StreamOK, Cut
    <2>2. CASE u # v
      BY <1>3, <2>1, <2>2
    <2>3. CASE u = v
      <3> DEFINE b == stream[n].ids[u]
                 t == stream[n].at
      <3>1. /\ b \in Nat /\ t \in Nat /\ b <= Len(q) /\ t <= now
            /\ \A j \in DOMAIN q : j <= b => q[j] <= t
            /\ \A j \in DOMAIN q : j > b => q[j] >= t
        BY <2>1, <2>3
      <3> HIDE DEF q, p, b, t
      <3>2. ASSUME NEW j \in DOMAIN p PROVE (j <= b => p[j] <= t) /\ (j > b => p[j] >= t)
        <4>1. CASE j \in DOMAIN q /\ p[j] = q[j]
          BY <3>1, <4>1
        <4>2. CASE j = Len(q) + 1 /\ p[j] = now
          BY <1>1, <1>4, <3>1, <4>2
        <4> QED
          BY <1>6, <3>2, <4>1, <4>2
      <3>3. b <= Len(p)
        BY <1>4, <3>1
      <3> QED
        BY <2>3, <3>1, <3>2, <3>3 DEF p, b, t
    <2> QED
      BY <2>2, <2>3
  <1>10. Reaching(stream, tape')
    <2>1. \A u \in V : Len(tape'[u]) <= IdsAt(stream, Len(stream), u) + SnapLen
      <3>1. Len(p) <= IdsAt(stream, Len(stream), v) + SnapLen
        <4>1. Len(stream) \in 0..Len(stream)
          BY LenProperties DEF StreamOK, Typed
        <4>2. IdsAt(stream, Len(stream), v) \in Nat /\ SnapLen \in Nat
          BY <4>1, IdsAtIs, FoldAssumption
        <4>3. Len(q) - IdsAt(stream, Len(stream), v) < SnapLen
          BY PolledIs DEF Trade
        <4> HIDE DEF q, p
        <4> QED
          BY <1>4, <4>2, <4>3
      <3>2. \A u \in V : u # v => Len(tape'[u]) <= IdsAt(stream, Len(stream), u) + SnapLen
        BY <1>3 DEF StreamOK, Reaching
      <3> QED
        BY <3>1, <3>2
    <2> QED
      BY <2>1 DEF StreamOK, Reaching
  <1> QED
    BY <1>1, <1>8, <1>9, <1>10 DEF StreamOK

LEMMA PollStep ==
    ASSUME TapeOK, StreamOK, Poll
    PROVE  /\ TapeOK' /\ StreamOK' /\ Len(stream') = Len(stream) + 1
           /\ \A n \in 0..Len(stream) : \A v \in V : IdsAt(stream', n, v) = IdsAt(stream, n, v)
  <1> DEFINE new == [at |-> now, ids |-> [v \in V |-> Len(tape[v])]]
             m == Len(stream)
  <1>1. now' = now /\ tape' = tape /\ stream' = Append(stream, new) /\ now \in Nat
    BY DEF TapeOK, Poll
  <1>2. \A u \in V : tape[u] \in Seq(Nat) /\ Len(tape[u]) \in Nat /\ DOMAIN tape[u] = 1..Len(tape[u])
    BY LenProperties DEF TapeOK
  <1>3. new \in [at : Nat, ids : [V -> Nat]] /\ new.at = now /\ \A v \in V : new.ids[v] = Len(tape[v])
    BY <1>1, <1>2
  <1> HIDE DEF new
  <1> DEFINE R == [at : Nat, ids : [V -> Nat]]
  <1>4. stream \in Seq(R) /\ new \in R
    BY <1>3 DEF StreamOK, Typed
  <1> HIDE DEF R
  <1>5. /\ m \in Nat /\ DOMAIN stream = 1..m /\ stream' \in Seq(R)
        /\ Len(stream') = m + 1 /\ DOMAIN stream' = 1..(m + 1)
        /\ stream'[m + 1] = new /\ \A n \in 1..m : stream'[n] = stream[n]
    BY <1>1, <1>4, AppendProperties, LenProperties
  <1>6. ASSUME NEW n \in DOMAIN stream'
        PROVE  (n \in DOMAIN stream /\ stream'[n] = stream[n] /\ n <= m) \/ (n = m + 1 /\ stream'[n] = new)
    <2>1. n \in 1..m \/ n = m + 1
      BY <1>5, <1>6
    <2> QED
      BY <1>5, <2>1
  <1>7. \A n \in 0..m : \A v \in V : IdsAt(stream', n, v) = IdsAt(stream, n, v)
    BY <1>5 DEF IdsAt
  <1>8. Typed(stream')
    BY <1>5 DEF Typed, R
  <1>9. Cut(stream', tape, now)
    <2> SUFFICES ASSUME NEW n \in DOMAIN stream', NEW v \in V
                 PROVE  /\ stream'[n].ids[v] <= Len(tape[v])
                        /\ \A j \in DOMAIN tape[v] : j <= stream'[n].ids[v] => tape[v][j] <= stream'[n].at
                        /\ \A j \in DOMAIN tape[v] : j > stream'[n].ids[v] => tape[v][j] >= stream'[n].at
                        /\ stream'[n].at <= now
      BY DEF Cut
    <2>1. CASE n \in DOMAIN stream /\ stream'[n] = stream[n]
      BY <2>1 DEF StreamOK, Cut
    <2>2. CASE stream'[n] = new
      <3>1. \A j \in DOMAIN tape[v] : tape[v][j] <= now /\ ~ (j > Len(tape[v]))
        BY <1>2 DEF TapeOK
      <3> QED
        BY <1>1, <1>2, <1>3, <2>2, <3>1
    <2> QED
      BY <1>6, <2>1, <2>2
  <1>10. Rising(stream')
    <2> SUFFICES ASSUME NEW n \in DOMAIN stream', NEW l \in DOMAIN stream', n <= l, NEW v \in V
                 PROVE  stream'[n].ids[v] <= stream'[l].ids[v]
      BY DEF Rising
    <2>1. CASE l = m + 1 /\ stream'[l] = new
      BY <1>3, <1>9, <2>1 DEF Cut
    <2>2. CASE l \in DOMAIN stream /\ stream'[l] = stream[l] /\ l <= m
      <3>1. n \in DOMAIN stream /\ stream'[n] = stream[n]
        BY <1>5, <2>2
      <3> QED
        BY <2>2, <3>1 DEF StreamOK, Rising
    <2> QED
      BY <1>6, <2>1, <2>2
  <1>11. Reaching(stream', tape)
    <2>1. ASSUME NEW n \in DOMAIN stream', NEW v \in V
          PROVE  stream'[n].ids[v] <= IdsAt(stream', n - 1, v) + SnapLen
      <3>1. n - 1 \in 0..m
        BY <1>5
      <3>2. IdsAt(stream', n - 1, v) = IdsAt(stream, n - 1, v)
        BY <1>7, <3>1
      <3>3. CASE n \in DOMAIN stream /\ stream'[n] = stream[n]
        BY <3>2, <3>3 DEF StreamOK, Reaching
      <3>4. CASE n = m + 1 /\ stream'[n] = new
        <4>1. n - 1 = m
          BY <1>5, <3>4
        <4> QED
          BY <1>3, <3>2, <3>4, <4>1 DEF StreamOK, Reaching
      <3> QED
        BY <1>6, <3>3, <3>4
    <2>2. ASSUME NEW v \in V PROVE Len(tape[v]) <= IdsAt(stream', Len(stream'), v) + SnapLen
      <3>1. IdsAt(stream', Len(stream'), v) = Len(tape[v])
        BY <1>3, <1>5 DEF IdsAt
      <3> QED
        BY <1>2, <3>1, FoldAssumption
    <2> QED
      BY <2>1, <2>2 DEF Reaching
  <1>12. TapeOK'
    BY <1>1 DEF TapeOK
  <1> QED
    BY <1>1, <1>5, <1>7, <1>8, <1>9, <1>10, <1>11, <1>12 DEF StreamOK

-----------------------------------------------------------------------------
(* The inductive invariant: the worker's fold and the ledger's row are     *)
(* folds of the tape, and unless the fold was set back both hold what they *)
(* should, and the worker's has caught up with what was delivered.         *)
Sound ==
    /\ Kept(fold, tape, now)
    /\ Caught(fold, delivered, tape, stream, now)
    /\ row # NoRow => Kept(row, tape, now)
FoldIInv ==
    /\ TapeOK /\ StreamOK
    /\ FoldOK(fold, tape)
    /\ row # NoRow => FoldOK(row, tape)
    /\ delivered \in 0..Len(stream)
    /\ ~setBack => Sound

LEMMA NewFoldOK ==
    ASSUME TapeOK
    PROVE  FoldOK(NewFold, tape)
  <1>1. \A v \in V : Len(tape[v]) \in Nat
    BY LenProperties DEF TapeOK
  <1>2. /\ DOMAIN NewFold = {"segments", "hwm", "late"} /\ DOMAIN NewFold.segments = {}
        /\ DOMAIN NewFold.hwm = V /\ \A v \in V : NewFold.hwm[v] = 0
    BY DEF NewFold
  <1> QED
    BY <1>1, <1>2 DEF FoldOK, Shaped, Topped, Under, InPlace, Once

LEMMA FoldInitIInv == FoldInit => FoldIInv
  <1> SUFFICES ASSUME FoldInit PROVE FoldIInv
    OBVIOUS
  <1>1. now = 0 /\ tape = [v \in V |-> <<>>] /\ stream = <<>> /\ delivered = 0 /\ fold = NewFold /\ row = NoRow
    BY DEF FoldInit
  <1>2. Len(<<>>) = 0 /\ DOMAIN <<>> = {} /\ <<>> \in Seq(Nat) /\ "spot" \in V
    BY DEF V
  <1>3. TapeOK
    BY <1>1, <1>2 DEF TapeOK
  <1>4. StreamOK
    <2>1. Typed(stream)
      BY <1>1 DEF Typed
    <2>2. Cut(stream, tape, now) /\ Rising(stream)
      BY <1>1, <1>2 DEF Cut, Rising
    <2>3. Reaching(stream, tape)
      BY <1>1, <1>2, FoldAssumption DEF Reaching, IdsAt
    <2> QED
      BY <2>1, <2>2, <2>3 DEF StreamOK
  <1>5. Sound
    <2>1. DOMAIN NewFold.segments = {} /\ NewFold.hwm["spot"] = 0 /\ DOMAIN tape["spot"] = {}
      BY <1>1, <1>2 DEF NewFold
    <2>2. 1..0 = {}
      OBVIOUS
    <2> QED
      BY <1>1, <2>1, <2>2 DEF Sound, Kept, Ahead, Covered, Caught
  <1> QED
    BY <1>1, <1>2, <1>3, <1>4, <1>5, NewFoldOK DEF FoldIInv

LEMMA FoldStepIInv ==
    ASSUME FoldIInv, [FoldNext]_foldVars
    PROVE  FoldIInv'
  <1>0. /\ TapeOK /\ StreamOK /\ FoldOK(fold, tape) /\ (row # NoRow => FoldOK(row, tape))
        /\ delivered \in 0..Len(stream) /\ (~setBack => Sound)
        /\ Len(stream) \in Nat /\ "spot" \in V
    BY LenProperties DEF FoldIInv, StreamOK, Typed, V
  <1>1. CASE ClockTick
    <2>1. tape' = tape /\ stream' = stream /\ delivered' = delivered /\ fold' = fold /\ row' = row
          /\ setBack' = setBack /\ now' = now + 1
      BY <1>1 DEF ClockTick
    <2>2. TapeOK' /\ StreamOK'
      BY <1>0, <1>1, TickStep
    <2>3. Sound => Sound'
      <3> SUFFICES ASSUME Sound PROVE Sound'
        OBVIOUS
      <3>1. Kept(fold, tape, now + 1) /\ Caught(fold, delivered, tape, stream, now + 1)
        BY <1>0, Later DEF Sound
      <3>2. row # NoRow => Kept(row, tape, now + 1)
        BY <1>0, Later DEF Sound
      <3> QED
        BY <2>1, <3>1, <3>2 DEF Sound
    <2> QED
      BY <1>0, <2>1, <2>2, <2>3 DEF FoldIInv
  <1>2. ASSUME NEW v \in V, Trade(v) PROVE FoldIInv'
    <2>1. now' = now /\ stream' = stream /\ delivered' = delivered /\ fold' = fold /\ row' = row
          /\ setBack' = setBack /\ tape' = [tape EXCEPT ![v] = Append(@, now)]
      BY <1>2 DEF Trade
    <2>2. TapeOK' /\ StreamOK'
      BY <1>0, <1>2, TradeStep
    <2>3. FoldOK(fold, tape') /\ (row # NoRow => FoldOK(row, tape'))
      BY <1>0, <2>1, Extended
    <2>4. Sound => Sound'
      <3> SUFFICES ASSUME Sound PROVE Sound'
        OBVIOUS
      <3>1. IdsAt(stream, delivered, "spot") \in Nat /\ IdsAt(stream, delivered, "spot") <= Len(tape["spot"])
        BY <1>0, IdsAtIs
      <3>2. Kept(fold, tape', now) /\ Caught(fold, delivered, tape', stream, now)
        BY <1>0, <2>1, <3>1, Extended DEF Sound
      <3>3. row # NoRow => Kept(row, tape', now)
        BY <1>0, <2>1, Extended DEF Sound
      <3> QED
        BY <2>1, <3>2, <3>3 DEF Sound
    <2> QED
      BY <1>0, <2>1, <2>2, <2>3, <2>4 DEF FoldIInv
  <1>3. CASE Poll
    <2>1. now' = now /\ tape' = tape /\ delivered' = delivered /\ fold' = fold /\ row' = row
          /\ setBack' = setBack
      BY <1>3 DEF Poll
    <2>2. /\ TapeOK' /\ StreamOK' /\ Len(stream') = Len(stream) + 1
          /\ IdsAt(stream', delivered, "spot") = IdsAt(stream, delivered, "spot")
      BY <1>0, <1>3, PollStep
    <2>3. Sound => Sound'
      BY <2>1, <2>2 DEF Sound, Caught
    <2>4. delivered' \in 0..Len(stream')
      BY <1>0, <2>1, <2>2
    <2> QED
      BY <1>0, <2>1, <2>2, <2>3, <2>4 DEF FoldIInv
  <1>4. CASE Decide
    <2> DEFINE n == IF Len(stream) - delivered > ReadLimit THEN delivered + ReadLimit ELSE Len(stream)
    <2>1. /\ now' = now /\ tape' = tape /\ stream' = stream /\ row' = row /\ setBack' = setBack
          /\ fold' = FoldSnapshots(fold, SubSeq(stream, delivered + 1, n)) /\ delivered' = n
      BY <1>4 DEF Decide
    <2>2. n \in delivered..Len(stream) /\ n \in 0..Len(stream)
      <3>1. ReadLimit \in Nat /\ ReadLimit > 0
        BY FoldAssumption
      <3> QED
        BY <1>0, <3>1
    <2> HIDE DEF n
    <2>3. /\ FoldOK(fold', tape)
          /\ Kept(fold, tape, now) /\ Caught(fold, delivered, tape, stream, now)
             => Kept(fold', tape, now) /\ Caught(fold', n, tape, stream, now)
      BY <1>0, <2>1, <2>2, FoldSnapshotsOK
    <2>4. Sound => Sound'
      BY <2>1, <2>3 DEF Sound
    <2>5. TapeOK' /\ StreamOK'
      BY <1>0, <2>1 DEF TapeOK, StreamOK
    <2> QED
      BY <1>0, <2>1, <2>2, <2>3, <2>4, <2>5 DEF FoldIInv
  <1>5. CASE Backfill
    <2>1. /\ now' = now /\ tape' = tape /\ stream' = stream /\ row' = row /\ delivered' = delivered
      BY <1>5 DEF Backfill
    <2>2. PICK restored \in (IF row # NoRow THEN {row} ELSE {fold})
                            \cup (IF "pg" \in Faults THEN {fold} ELSE {}) :
            \/ fold' = FoldVenues(restored, Window) /\ setBack' = setBack
            \/ fold' = restored /\ setBack' = (setBack \/ restored # fold)
      BY <1>5 DEF Backfill
    <2>3. restored = fold \/ (restored = row /\ row # NoRow)
      BY <2>2
    <2>4. FoldOK(restored, tape) /\ (Sound => Kept(restored, tape, now))
      BY <1>0, <2>3 DEF Sound
    <2>5. TapeOK' /\ StreamOK'
      BY <1>0, <2>1 DEF TapeOK, StreamOK
    <2>6. CASE fold' = FoldVenues(restored, Window) /\ setBack' = setBack
      <3>1. /\ FoldOK(fold', tape)
            /\ Kept(restored, tape, now) =>
                 Kept(fold', tape, now) /\ Caught(fold', Len(stream), tape, stream, now)
        BY <1>0, <2>4, <2>6, WindowOK
      <3>2. Caught(fold', Len(stream), tape, stream, now) => Caught(fold', delivered, tape, stream, now)
        <4>1. IdsAt(stream, delivered, "spot") <= IdsAt(stream, Len(stream), "spot")
          <5>1. CASE delivered = 0
            <6>1. Len(stream) \in 0..Len(stream)
              BY <1>0
            <6>2. IdsAt(stream, Len(stream), "spot") \in Nat
              BY <1>0, <6>1, IdsAtIs
            <6> QED
              BY <5>1, <6>2 DEF IdsAt
          <5>2. CASE delivered # 0
            <6>1. delivered \in DOMAIN stream /\ Len(stream) \in DOMAIN stream /\ delivered <= Len(stream)
                  /\ Len(stream) # 0
              BY <1>0, <5>2, LenProperties DEF StreamOK, Typed
            <6> QED
              BY <1>0, <5>2, <6>1 DEF StreamOK, Rising, IdsAt
          <5> QED
            BY <5>1, <5>2
        <4>2. IdsAt(stream, delivered, "spot") \in Nat /\ IdsAt(stream, Len(stream), "spot") \in Nat
          BY <1>0, IdsAtIs
        <4>3. DOMAIN tape["spot"] \subseteq Nat
          BY <1>0, LenProperties DEF TapeOK
        <4> QED
          BY <4>1, <4>2, <4>3 DEF Caught
      <3>3. Sound => Sound'
        BY <2>1, <2>4, <3>1, <3>2 DEF Sound
      <3> QED
        BY <1>0, <2>1, <2>5, <2>6, <3>1, <3>3 DEF FoldIInv
    <2>7. CASE fold' = restored /\ setBack' = (setBack \/ restored # fold)
      <3>1. ~setBack' => ~setBack /\ fold' = fold
        BY <2>7
      <3>2. ~setBack' => Sound'
        BY <1>0, <2>1, <3>1 DEF Sound
      <3> QED
        BY <1>0, <2>1, <2>4, <2>5, <2>7, <3>2 DEF FoldIInv
    <2> QED
      BY <2>2, <2>6, <2>7
  <1>6. CASE FirePersists
    <2>1. /\ now' = now /\ tape' = tape /\ stream' = stream /\ delivered' = delivered /\ fold' = fold
          /\ setBack' = setBack /\ (row' = fold \/ row' = row)
      BY <1>6 DEF FirePersists
    <2>2. TapeOK' /\ StreamOK'
      BY <1>0, <2>1 DEF TapeOK, StreamOK
    <2>3. Sound => Sound'
      BY <2>1 DEF Sound
    <2> QED
      BY <1>0, <2>1, <2>2, <2>3 DEF FoldIInv
  <1>7. CASE FireDrops \/ UNCHANGED foldVars
    <2>1. /\ now' = now /\ tape' = tape /\ stream' = stream /\ delivered' = delivered /\ fold' = fold
          /\ setBack' = setBack /\ row' = row
      BY <1>7 DEF FireDrops, foldVars
    <2>2. TapeOK' /\ StreamOK'
      BY <1>0, <2>1 DEF TapeOK, StreamOK
    <2>3. Sound => Sound'
      BY <2>1 DEF Sound
    <2> QED
      BY <1>0, <2>1, <2>2, <2>3 DEF FoldIInv
  <1>8. CASE FoldLost \/ Upgrade
    <2>1. /\ now' = now /\ tape' = tape /\ stream' = stream /\ delivered' = delivered
          /\ fold' = NewFold /\ setBack' = TRUE /\ (row' = row \/ row' = NoRow)
      BY <1>8 DEF FoldLost, Upgrade
    <2>2. TapeOK' /\ StreamOK'
      BY <1>0, <2>1 DEF TapeOK, StreamOK
    <2> QED
      BY <1>0, <2>1, <2>2, NewFoldOK DEF FoldIInv
  <1> QED
    BY <1>1, <1>2, <1>3, <1>4, <1>5, <1>6, <1>7, <1>8 DEF FoldNext

(* The worker's fold and the ledger's row are folds of the tape, always.   *)
THEOREM FoldInvariance == FoldSpec => []FoldIInv
  <1>1. FoldInit => FoldIInv
    BY FoldInitIInv
  <1>2. FoldIInv /\ [FoldNext]_foldVars => FoldIInv'
    BY FoldStepIInv
  <1> QED
    BY <1>1, <1>2, PTL DEF FoldSpec

(* No trade counts twice in any horizon (horizons.py:218), whatever the    *)
(* overlap of the snapshots, the limit of a read and the restarts.         *)
THEOREM CountedOnce == FoldSpec => []FoldedOnce
  <1>1. FoldIInv => FoldedOnce
    BY DEF FoldIInv, FoldOK, Once, FoldedOnce
  <1> QED
    BY <1>1, FoldInvariance, PTL

(* A fold that was never set back holds every spot trade inside the        *)
(* horizon (horizons.py:229).                                              *)
THEOREM NothingIsLost == FoldSpec => []NothingLost
  <1>1. FoldIInv => NothingLost
    BY DEF FoldIInv, Sound, Kept, Covered, NothingLost
  <1> QED
    BY <1>1, FoldInvariance, PTL
=============================================================================
