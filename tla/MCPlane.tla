------------------------------- MODULE MCPlane -------------------------------
(* What surrounds the workers of a plane, in parts that share no variable: *)
(* `part` says which of them a behavior is about.                          *)
(* The governor: a light substrate that is only invoked and a heavy one    *)
(* with a resident worker, requests with repeated and with unknown names.  *)
(* The dispatch leases: two invokes of the calculation plane beside one of *)
(* the analysis plane, leases of two ticks.                                *)
(* The telemetry kernel: two emitters, one of a process without            *)
(* PostgreSQL, whose three events come in any order, late or twice, and a  *)
(* rebuild that overlaps with them and does not see all of them.           *)
(* The depth capture: two prices that are there or not, on either venue,   *)
(* four update ids, and two connections.                                   *)
EXTENDS PlaneGovernance, DispatchLease, TelemetryKernel, DepthBook

CONSTANTS c1, c2, a1

VARIABLE part

MCInvokes == {c1, c2, a1}
MCRank    == [tape |-> 0, delta |-> 1]
MCAsked   == {<<>>, <<"delta", "tape", "delta">>, <<"tape", "spread">>}

planeVars == <<part, govVars, leaseVars, kernelVars, vars>>

\* The capture another behavior leaves alone is one of its states.
CaptureIdle == venue = "spot" /\ hist = <<CHOOSE b \in Books : TRUE>>

PlaneInit ==
    /\ part \in {"governor", "lease", "telemetry", "depth"}
    /\ GovInit /\ LeaseInit /\ KernelInit /\ Init
    /\ part # "depth" => CaptureIdle
PlaneNext ==
    \/ part = "governor" /\ GovNext /\ UNCHANGED <<part, leaseVars, kernelVars, vars>>
    \/ part = "lease" /\ LeaseNext /\ UNCHANGED <<part, govVars, kernelVars, vars>>
    \/ part = "telemetry" /\ KernelNext /\ UNCHANGED <<part, govVars, leaseVars, vars>>
    \/ part = "depth" /\ Next /\ UNCHANGED <<part, govVars, leaseVars, kernelVars>>
PlaneSpec == PlaneInit /\ [][PlaneNext]_planeVars
=============================================================================
