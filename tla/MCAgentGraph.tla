---------------------------- MODULE MCAgentGraph ----------------------------
(* Plans of two and three steps for the instances of AgentGraph. *)
EXTENDS AgentGraph

CONSTANT DesktopSteps  \* the steps of the plan that are for the desktop

MCStepEnv == [i \in 1..Steps |-> IF i \in DesktopSteps THEN "desktop" ELSE "browser"]
=============================================================================
