--------------------------- MODULE MCIngressStake ---------------------------
(***************************************************************************)
(* Two orphans on one stake under different missing parents.  After C1    *)
(* two branches grow, PA - A3 and PD - D3 - D4; A3 and D3 are             *)
(* proof-of-stake blocks on the same stake s1 (coinstakes ka and kd spend  *)
(* the same output cc1:1).  D3 enters the orphan pool beside A3 only when  *)
(* its child D4 is already waiting there (the mapOrphanBlocksByPrev        *)
(* exception of the duplicate-stake guard).                                *)
(***************************************************************************)
EXTENDS Ingress

MCBlock == {"G", "C1", "PA", "A3", "PD", "D3", "D4"}

MCParent ==
    [b \in MCBlock \ {"G"} |->
        CASE b \in {"C1"} -> "G"
          [] b \in {"PA", "PD"} -> "C1"
          [] b = "A3" -> "PA"
          [] b = "D3" -> "PD"
          [] b = "D4" -> "D3"]

MCTrust == [b \in MCBlock |-> 1]

MCBlockTxs ==
    "G"  :> <<"cg">> @@
    "C1" :> <<"cc1">> @@
    "PA" :> <<"cpa">> @@
    "A3" :> <<"ca3", "ka">> @@
    "PD" :> <<"cpd">> @@
    "D3" :> <<"cd3", "kd">> @@
    "D4" :> <<"cd4">>

MCTx == {"cg", "cc1", "cpa", "ca3", "ka", "cpd", "cd3", "kd", "cd4"}

MCTxIns == [t \in MCTx |-> IF t \in {"ka", "kd"} THEN << <<"cc1", 1>> >> ELSE << >>]

MCNOut == [t \in MCTx |-> 1]

MCCoinStake == {"ka", "kd"}
MCStake     == [b \in MCBlock |-> IF b \in {"A3", "D3"} THEN "s1" ELSE NoStake]

=============================================================================
