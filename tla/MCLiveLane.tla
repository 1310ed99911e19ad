------------------------------ MODULE MCLiveLane ------------------------------
(* The live lane with two filters on each chain, of which one ID is in both.  *)
EXTENDS LiveLane, TLC

MCLists == [pcm |-> <<"a", "b">>, sdm |-> <<"b", "c">>]
MCEdits == {<<"filter", "b">>, <<"filter", "c">>, <<"filter1x", "b">>, <<"oversampling", "b">>, <<"oversampling", "c">>,
            <<"mode", "pcm">>, <<"mode", "sdm">>, <<"junk_filter", 2>>}
MCPresets == {{<<"mode", "sdm">>, <<"oversampling", "c">>}, {<<"mode", "pcm">>, <<"filter", "b">>}}
=============================================================================
