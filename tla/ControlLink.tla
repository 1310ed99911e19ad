---------------------------- MODULE ControlLink -----------------------------
(***************************************************************************)
(* What HQPTuner promises about its control connection, and nothing of how: *)
(* there is at most one, it is attached to the daemon instance running at   *)
(* that moment, it reads as whole only once its connect has run to the end,  *)
(* and a connection given up never reads as half or whole again: it is let   *)
(* go of before another one is attached.  Daemons restart when they like.   *)
(* The one flaw is part of the promise: a connect that ends on a connection  *)
(* already given up reads as one, overtaken, until that is found out.        *)
(***************************************************************************)
EXTENDS Naturals

CONSTANTS Hosts, None

VARIABLES
    running, \* per host: the number of the instance that runs there
    link     \* the instance attached, if any, and how far the attachment got

Unattached == [stage |-> "none", inst |-> None]

Init == running = [h \in Hosts |-> 0] /\ link = Unattached

Attach(h) ==
    /\ link = Unattached
    /\ link' = [stage |-> "half", inst |-> [host |-> h, epoch |-> running[h]]]
    /\ UNCHANGED running

Complete ==
    /\ link.stage = "half"
    /\ link' = [link EXCEPT !.stage = "whole"]
    /\ UNCHANGED running

\* The connection is given up; it is still attached while it closes.
GiveUp ==
    /\ link.stage \in {"half", "whole", "overtaken"} /\ link.inst # None
    /\ link' = [link EXCEPT !.stage = "torn"]
    /\ UNCHANGED running

\* A connect ends on the connection given up under it.
Overtake ==
    /\ link.stage = "torn"
    /\ link' = [link EXCEPT !.stage = "overtaken"]
    /\ UNCHANGED running

\* A connection overtaken is let go of before it is found out.
Vanish ==
    /\ link.stage = "overtaken"
    /\ link' = [link EXCEPT !.inst = None]
    /\ UNCHANGED running

Lose ==
    /\ link.stage # "none"
    /\ link' = Unattached
    /\ UNCHANGED running

Restart(h) == running' = [running EXCEPT ![h] = @ + 1] /\ UNCHANGED link

Next ==
    \/ Complete \/ GiveUp \/ Overtake \/ Vanish \/ Lose
    \/ \E h \in Hosts : Attach(h) \/ Restart(h)

Spec == Init /\ [][Next]_<<running, link>>
=============================================================================
