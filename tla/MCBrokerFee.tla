----------------------------- MODULE MCBrokerFee -----------------------------
(***************************************************************************)
(* Small instances of BrokerFee: two chains with different reductions, a   *)
(* setting with a single percentage and one beyond 100, one with a part    *)
(* that does not parse, none; levels within a list, beyond it, below 0.    *)
(***************************************************************************)
EXTENDS BrokerFee, TLC

CONSTANTS zkevm, xlayer

Part(c, percs) == [chain |-> c, percs |-> percs]

MCSettings ==
    {<<Part(zkevm, <<48, 72, 100>>), Part(xlayer, <<10, 20>>)>>,
     <<Part(zkevm, <<50>>), Part(xlayer, <<0, 151>>)>>,
     <<Part(zkevm, <<48, 72>>), None>>,
     <<>>}

MCLevels == {-1, 0, 2}

MCSymmetry == Permutations(Request) \cup Permutations(Trader)
=============================================================================
