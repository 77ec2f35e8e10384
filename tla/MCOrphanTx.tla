----------------------------- MODULE MCOrphanTx -----------------------------
(***************************************************************************)
(* Loose transactions around a two-block fork.  p spends the coinbase     *)
(* output cc1:1 and is also confirmed by block A2; B2 out-trusts A2, so a  *)
(* reorganization can put p back into the pool.  o1 and o2 both spend p:1  *)
(* (a double spend), o3 spends o1:1, so o3 waits on an orphan; q spends    *)
(* cc1:2 and big spends p:1 but is over the 5000-byte orphan limit.  At    *)
(* most two orphans are kept, so three waiting orphans force an eviction.  *)
(***************************************************************************)
EXTENDS OrphanTx

MCBlock == {"G", "C1", "A2", "B2"}

MCParent == "C1" :> "G" @@ "A2" :> "C1" @@ "B2" :> "C1"

MCTrust == [b \in MCBlock |-> IF b = "B2" THEN 2 ELSE 1]

MCBlockTxs == "G" :> <<"cg">> @@ "C1" :> <<"cc1">> @@ "A2" :> <<"ca2", "p">> @@ "B2" :> <<"cb2">>

MCTxHashOrder == <<"o2", "cb2", "p", "o1", "cg", "o3", "cc1", "q", "ca2", "big">>

MCTx == ToSet(MCTxHashOrder)

MCTxIns ==
    [t \in MCTx |->
        CASE t = "p"   -> << <<"cc1", 1>> >>
          [] t = "q"   -> << <<"cc1", 2>> >>
          [] t \in {"o1", "o2", "big"} -> << <<"p", 1>> >>
          [] t = "o3"  -> << <<"o1", 1>> >>
          [] OTHER     -> << >>]

MCNOut == [t \in MCTx |-> IF t = "cc1" THEN 2 ELSE 1]

MCCoinStake == {}
MCBadBlock  == {}
MCFlaky     == {}
MCRejected  == {}
MCStake     == [b \in MCBlock |-> NoStake]
MCBigTx     == {"big"}

=============================================================================
