----------------------------- MODULE MCMqttTunnel -----------------------------
(* Instances of MqttTunnel for TLC: one base, liveness.                    *)
EXTENDS MqttTunnel, TLC

CONSTANTS b1, c1, c2

Budget(ticks, messages, starts, losses, calls) ==
    [ticks |-> ticks, messages |-> messages, starts |-> starts,
     losses |-> losses, calls |-> calls]

LivenessBudgets == {Budget(1, 0, 1, 1, 1)}

ResponseBudgets == {Budget(0, 1, 0, 1, 1)}
=============================================================================
