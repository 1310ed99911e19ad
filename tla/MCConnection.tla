----------------------------- MODULE MCConnection -----------------------------
(* Two daemons that both take the one right password.  The web port of the    *)
(* second is closed until a turn opens it.                                    *)
EXTENDS Connection

CONSTANTS h1, h2, right, wrong

BothTakeRight == {<<h1, right>>, <<h2, right>>}
OnlyFirstServes == {{h1}}
=============================================================================
