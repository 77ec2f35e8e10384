------------------------ MODULE MCChainDoubleSpend -------------------------
(***************************************************************************)
(* C2 spends the coinbase output cc1:1 (tc).  The fork after C2 has A3,    *)
(* which carries nothing, and B3 with more trust, whose td spends cc1:1    *)
(* again.  Connected as a direct extension B3 is rejected; connected by    *)
(* Reorganize it is not.                                                   *)
(***************************************************************************)
EXTENDS ChainState

MCBlock == {"G", "C1", "C2", "A3", "B3"}

MCParent == "C1" :> "G" @@ "C2" :> "C1" @@ "A3" :> "C2" @@ "B3" :> "C2"

MCTrust == [b \in MCBlock |-> IF b = "B3" THEN 2 ELSE 1]

MCBlockTxs ==
    "G"  :> <<"cg">> @@
    "C1" :> <<"cc1">> @@
    "C2" :> <<"cc2", "tc">> @@
    "A3" :> <<"ca3">> @@
    "B3" :> <<"cb3", "td">>

MCTx == {"cg", "cc1", "cc2", "tc", "ca3", "cb3", "td"}

MCTxIns == [t \in MCTx |-> IF t \in {"tc", "td"} THEN << <<"cc1", 1>> >> ELSE << >>]

MCNOut == [t \in MCTx |-> 1]

MCCoinStake == {}
MCBadBlock  == {}
MCFlaky     == {}

MCRejected == {}
MCStake == [b \in MCBlock |-> NoStake]

=============================================================================
