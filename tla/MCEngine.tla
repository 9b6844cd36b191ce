------------------------------ MODULE MCEngine ------------------------------
(* What the engine says and what it rests on, in seven parts that share no *)
(* variable: the answer of a cycle, its record, its failure node, the tape *)
(* a forward fit is made from, the forward answers, the price-impact fits  *)
(* over the cycles, and the agent's memory.  `part` says which of them a   *)
(* behavior is about.                                                      *)
EXTENDS MCAnswerGate, OutputStage, FailureNode, ForwardTape, ForwardForecast, MCImpactHistory,
        EpisodicMemory

VARIABLE part

engineVars == <<part, gateVars, outVars, nodeVars, tapeVars, forecastVars, impactVars, memoryVars>>

GateIdle == GateInit /\ frame = CHOOSE f \in Frames : TRUE
OutIdle == OutInit /\ durable = [c \in OutCycles |-> FALSE]
ForecastIdle == ForecastInit /\ usable = 0
ImpactIdle == ImpactInit /\ window.shape = Shape(70, TRUE, 1, 2)

\* One replay in a behavior.
OneReplay == trip # "done" /\ TapeNext

EngineInit ==
    /\ part \in {"gate", "output", "node", "tape", "forecast", "impact", "memory"}
    /\ IF part = "gate" THEN GateInit ELSE GateIdle
    /\ IF part = "output" THEN OutInit ELSE OutIdle
    /\ IF part = "forecast" THEN ForecastInit ELSE ForecastIdle
    /\ IF part = "impact" THEN ImpactInit ELSE ImpactIdle
    /\ NodeInit /\ TapeInit /\ MemoryInit
EngineNext ==
    \/ /\ part = "gate" /\ GateNext
       /\ UNCHANGED <<part, outVars, nodeVars, tapeVars, forecastVars, impactVars, memoryVars>>
    \/ /\ part = "output" /\ OutNext
       /\ UNCHANGED <<part, gateVars, nodeVars, tapeVars, forecastVars, impactVars, memoryVars>>
    \/ /\ part = "node" /\ NodeNext
       /\ UNCHANGED <<part, gateVars, outVars, tapeVars, forecastVars, impactVars, memoryVars>>
    \/ /\ part = "tape" /\ OneReplay
       /\ UNCHANGED <<part, gateVars, outVars, nodeVars, forecastVars, impactVars, memoryVars>>
    \/ /\ part = "forecast" /\ ForecastNext
       /\ UNCHANGED <<part, gateVars, outVars, nodeVars, tapeVars, impactVars, memoryVars>>
    \/ /\ part = "impact" /\ ImpactNext
       /\ UNCHANGED <<part, gateVars, outVars, nodeVars, tapeVars, forecastVars, memoryVars>>
    \/ /\ part = "memory" /\ MemoryNext
       /\ UNCHANGED <<part, gateVars, outVars, nodeVars, tapeVars, forecastVars, impactVars>>
EngineSpec == EngineInit /\ [][EngineNext]_engineVars
=============================================================================
