--------------------------- MODULE MCChainHonest ---------------------------
(***************************************************************************)
(* A block tree with a fork after C1.  Branch A (A2..A4) and branch B      *)
(* (B2..B4) both spend the coinbase output cc1:1 (ta, and the coinstake   *)
(* tb), and both confirm tw (spending cc1:2).  Y spends its own coinbase   *)
(* (immature) and X2 fails the reward checks.  No block double-spends      *)
(* within its own chain.  Chain trust: C1 1, A2 2, A3 3, A4 5, B2 3, B3 4, *)
(* B4 5, Y 6, X2 4, so the tip moves back and forth between the branches   *)
(* depending on arrival order.  tl (spending ca2:1) and tm (spending cc1:2,*)
(* in conflict with tw) are loose transactions that only reach the pool.   *)
(***************************************************************************)
EXTENDS ChainState

MCBlock == {"G", "C1", "A2", "A3", "A4", "B2", "B3", "B4", "Y", "X2"}

MCParent ==
    [b \in MCBlock \ {"G"} |->
        CASE b = "C1" -> "G"
          [] b \in {"A2", "B2", "X2"} -> "C1"
          [] b = "A3" -> "A2"
          [] b = "A4" -> "A3"
          [] b = "B3" -> "B2"
          [] b = "B4" -> "B3"
          [] b = "Y"  -> "B4"]

MCTrust == [b \in MCBlock |->
              CASE b = "B2" -> 2 [] b = "A4" -> 2 [] b = "X2" -> 3 [] OTHER -> 1]

MCBlockTxs ==
    "G"  :> <<"cg">> @@
    "C1" :> <<"cc1">> @@
    "A2" :> <<"ca2", "ta">> @@
    "A3" :> <<"ca3", "ta2", "tw">> @@
    "A4" :> <<"ca4">> @@
    "B2" :> <<"cb2", "tb">> @@
    "B3" :> <<"cb3">> @@
    "B4" :> <<"cb4", "tw">> @@
    "Y"  :> <<"cy", "tbad">> @@
    "X2" :> <<"cx2">>

MCTx == {"cg", "cc1", "ca2", "ta", "ca3", "ta2", "tw", "ca4",
         "cb2", "tb", "cb3", "cb4", "cy", "tbad", "cx2", "tl", "tm"}

MCTxIns ==
    [t \in MCTx |->
        CASE t = "ta"   -> << <<"cc1", 1>> >>
          [] t = "tb"   -> << <<"cc1", 1>> >>
          [] t = "tw"   -> << <<"cc1", 2>> >>
          [] t = "ta2"  -> << <<"ta", 1>> >>
          [] t = "tbad" -> << <<"cy", 1>> >>
          [] t = "tl"   -> << <<"ca2", 1>> >>
          [] t = "tm"   -> << <<"cc1", 2>> >>
          [] OTHER      -> << >>]

MCNOut == [t \in MCTx |-> IF t = "cc1" THEN 2 ELSE 1]

MCCoinStake == {"tb"}
MCBadBlock  == {"X2"}
MCFlaky     == {}

MCRejected == {}
MCStake == [b \in MCBlock |-> IF b = "B2" THEN "s1" ELSE NoStake]

=============================================================================
