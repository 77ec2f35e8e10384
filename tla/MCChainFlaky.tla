--------------------------- MODULE MCChainFlaky ----------------------------
(***************************************************************************)
(* A2 is the tip after C1.  The competing branch B2 <- B3 <- B4 has more   *)
(* trust, and B2 and B3 carry masternode payments whose check in           *)
(* ConnectBlock depends on the clock and the masternode list, so it may    *)
(* fail on one attempt and pass on the next.  A failed B2 stays indexed    *)
(* with more trust than the tip, which sends the next block of the branch  *)
(* through the vpindexSecondary path of SetBestChain.                      *)
(***************************************************************************)
EXTENDS ChainState

MCBlock == {"G", "C1", "A2", "B2", "B3", "B4"}

MCParent == "C1" :> "G" @@ "A2" :> "C1" @@ "B2" :> "C1" @@ "B3" :> "B2" @@ "B4" :> "B3"

MCTrust == [b \in MCBlock |-> IF b = "B2" THEN 2 ELSE 1]

MCBlockTxs ==
    "G"  :> <<"cg">> @@
    "C1" :> <<"cc1">> @@
    "A2" :> <<"ca2">> @@
    "B2" :> <<"cb2">> @@
    "B3" :> <<"cb3", "t3">> @@
    "B4" :> <<"cb4">>

MCTx == {"cg", "cc1", "ca2", "cb2", "cb3", "t3", "cb4"}

MCTxIns == [t \in MCTx |-> IF t = "t3" THEN << <<"cc1", 1>> >> ELSE << >>]

MCNOut == [t \in MCTx |-> 1]

MCCoinStake == {}
MCBadBlock  == {}
MCFlaky     == {"B2", "B3"}

MCRejected == {}
MCStake == [b \in MCBlock |-> NoStake]

=============================================================================
