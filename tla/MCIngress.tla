------------------------------ MODULE MCIngress ------------------------------
(***************************************************************************)
(* Blocks arriving in any order.  After C1 two branches compete: A2 and B2 *)
(* are proof-of-stake blocks on the same stake s1 (coinstakes ka and kb    *)
(* spend the same output cc1:1), so whichever arrives second is refused    *)
(* as a duplicate stake unless its child A3 / B3 is already waiting as an  *)
(* orphan.  R fails AcceptBlock's contextual checks; X passes them but     *)
(* fails ConnectBlock, and its child X3 can be left waiting behind it.     *)
(* Chain trust: C1 2, A2 3, A3 5, B2 4, B3 5, X 5, X3 6, R 3.              *)
(***************************************************************************)
EXTENDS Ingress

MCBlock == {"G", "C1", "A2", "A3", "B2", "B3", "R", "X", "X3"}

MCParent ==
    [b \in MCBlock \ {"G"} |->
        CASE b = "C1" -> "G"
          [] b \in {"A2", "B2", "R", "X"} -> "C1"
          [] b = "A3" -> "A2"
          [] b = "B3" -> "B2"
          [] b = "X3" -> "X"]

MCTrust == [b \in MCBlock |->
              CASE b = "A3" -> 2 [] b = "B2" -> 2 [] b = "X" -> 3 [] OTHER -> 1]

MCBlockTxs ==
    "G"  :> <<"cg">> @@
    "C1" :> <<"cc1">> @@
    "A2" :> <<"ca2", "ka">> @@
    "A3" :> <<"ca3">> @@
    "B2" :> <<"cb2", "kb">> @@
    "B3" :> <<"cb3">> @@
    "R"  :> <<"cr">> @@
    "X"  :> <<"cx">> @@
    "X3" :> <<"cx3">>

MCTx == {"cg", "cc1", "ca2", "ka", "ca3", "cb2", "kb", "cb3", "cr", "cx", "cx3"}

MCTxIns == [t \in MCTx |-> IF t \in {"ka", "kb"} THEN << <<"cc1", 1>> >> ELSE << >>]

MCNOut == [t \in MCTx |-> 1]

MCCoinStake == {"ka", "kb"}
MCBadBlock  == {"X"}
MCFlaky     == {}
MCRejected  == {"R"}
MCStake     == [b \in MCBlock |-> IF b \in {"A2", "B2"} THEN "s1" ELSE NoStake]

=============================================================================
