------------------------------ MODULE BestChain ------------------------------
(***************************************************************************)
(* What block acceptance promises about the best chain, without the tx    *)
(* index, the db transaction or the reorganisation steps: the node learns  *)
(* blocks whose parent it already knows, and the tip moves to a newly     *)
(* learnt block exactly when that block's chain is valid and carries more  *)
(* chain trust than the tip (nChainTrust > nBestChainTrust, strict, so the *)
(* first of two equally trusted chains stays best).                        *)
(*                                                                         *)
(* ChainState implements this module under the mapping known <-            *)
(* mapBlockIndex, tip <- pindexBest (its property BestChainRefined).       *)
(***************************************************************************)
EXTENDS Integers

CONSTANTS
    Block,      \* block hashes
    Genesis,    \* the genesis block
    Parent,     \* hashPrevBlock of each non-genesis block
    Trust,      \* GetBlockTrust() of each block
    Rejected,   \* blocks AcceptBlock refuses on their own contextual checks
    Valid(_)    \* Valid(b): the chain from genesis to b is a valid ledger

VARIABLES
    known,      \* the blocks the node has indexed
    tip         \* the best block

avars == <<known, tip>>

\* nChainTrust: the trust of the chain from genesis to b
RECURSIVE ChainTrustOf(_)
ChainTrustOf(b) == IF b = Genesis THEN Trust[b] ELSE ChainTrustOf(Parent[b]) + Trust[b]

Init == known = {Genesis} /\ tip = Genesis

\* block b, whose parent is known, is accepted and indexed; it becomes the
\* tip when its chain is valid and out-trusts the tip
Receive(b) ==
    /\ b \notin known \cup Rejected \cup {Genesis}
    /\ Parent[b] \in known
    /\ known' = known \cup {b}
    /\ tip' = IF Valid(b) /\ ChainTrustOf(b) > ChainTrustOf(tip) THEN b ELSE tip

Next == \E b \in Block : Receive(b)

Spec == Init /\ [][Next]_avars

=============================================================================
