---------------------------- MODULE MCStagedApply ----------------------------
(* The staged apply with an output endpoint and one live setting, two values *)
(* each, and a hardware attribute where the hardware card has a part.        *)
EXTENDS StagedApply

CONSTANTS dev, tone, hw, a, b

MCFields == {dev, tone}
MCHardwareFields == {dev, tone, hw}
MCLive == {tone}
MCFactory == [f \in Fields |-> a]
=============================================================================
