------------------------------ MODULE MCClient ------------------------------
(* The desktop application and the state pipeline, for TLC. They share no   *)
(* state, so one of them runs in a behaviour.                               *)
EXTENDS DesktopApp, StatePipeline

VARIABLE part

MCCaps == {[latency |-> 3, upload |-> 2, rekey |-> 4], [latency |-> 0, upload |-> 0, rekey |-> 0]}
MCFractions == {SCALE + 1, NaN}
MCLatencies == {None, 5}
MCRates == {-1, 1, NaN}

\* Either the buttons are tried, or the readings of a changing machine.
MCBudgets ==
    {[toggle |-> 3, refresh |-> 1, load |-> 1, time |-> 0, send |-> 0, switch |-> 0],
     [toggle |-> 0, refresh |-> 2, load |-> 0, time |-> MaxClock, send |-> 2, switch |-> 2]}

ClientInit ==
    /\ DesktopInit /\ PipelineInit
    /\ \/ part = "desktop" /\ caps = CHOOSE c \in Caps : TRUE
       \/ part = "pipeline" /\ Wifi \in present /\ budget.load = 0

ClientNext ==
    \/ part = "desktop" /\ DesktopNext /\ UNCHANGED <<part, pipelineVars>>
    \/ part = "pipeline" /\ PipelineNext /\ UNCHANGED <<part, desktopVars>>

ClientSpec == ClientInit /\ [][ClientNext]_<<part, desktopVars, pipelineVars>>
=============================================================================
