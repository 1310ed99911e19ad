------------------------------ MODULE MCEditor ------------------------------
(* Two presets: the one that plays, and one with Direct SDM and no fixed volume. *)
EXTENDS Editor

MCPresets == [plain |-> [f \in Fields |-> 0], pinned |-> [f \in Fields |-> IF f = "direct_sdm" THEN 1 ELSE 0]]

\* Direct SDM on and off, and the fixed volume that keeps it from pinning.
MCSwitch == {<<"direct_sdm", 0>>, <<"direct_sdm", 1>>}
MCFixed == {<<"fixed_volume", 1>>}
MCBoth == MCSwitch \cup MCFixed
=============================================================================
