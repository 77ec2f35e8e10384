------------------------------- MODULE Ingress -------------------------------
(***************************************************************************)
(* Block ingress of src/src/main.cpp: ProcessNewBlock, the orphan-block    *)
(* pool (mapOrphanBlocks, mapOrphanBlocksByPrev), the stake-duplicate      *)
(* guards (setStakeSeen, setStakeSeenOrphan) and the work-queue drain that *)
(* hands waiting orphans to AcceptBlock once their parent is indexed.      *)
(*                                                                         *)
(* One step is one block delivered by a peer (or by the miner) to          *)
(* ProcessNewBlock under cs_main; the chain state it changes is the one of *)
(* ChainState, through the AcceptBlock / AddToBlockIndex / SetBestChain    *)
(* functions of that module.  The node is past initial block download and  *)
(* no sync checkpoint is pending, so the duplicate-stake guards apply and  *)
(* WantedByPendingSyncCheckpoint is false; CheckBlock and the min-work     *)
(* test against the last sync checkpoint are taken to pass.                *)
(*                                                                         *)
(* mapOrphanBlocksByPrev holds exactly the orphans of mapOrphanBlocks      *)
(* keyed by their parent (both are inserted and erased together), so the   *)
(* pool is one sequence in arrival order: a multimap visits the entries of *)
(* one key in insertion order, which fixes the order the drain accepts     *)
(* siblings in.                                                            *)
(***************************************************************************)
EXTENDS ChainState

VARIABLES
    mapOrphanBlocks,    \* orphan blocks in arrival order
    setStakeSeenOrphan  \* stakes recorded for proof-of-stake orphans

orphanVars == <<mapOrphanBlocks, setStakeSeenOrphan>>
ivars == <<vars, orphanVars>>

-----------------------------------------------------------------------------

IsOrphan(b) == b \in ToSet(mapOrphanBlocks)

\* mapOrphanBlocksByPrev.count(b): some orphan waits on b
HasOrphanChild(orphans, b) == \E i \in DOMAIN orphans : Parent[orphans[i]] = b

\* mutant: the duplicate-stake guard without the orphan-child exception
DuplicateStakeNoException(seen, b) == IsProofOfStake(b) /\ Stake[b] \in seen

\* the "limited duplicity on stake" test, against setStakeSeen or
\* setStakeSeenOrphan: a second block on a seen stake is refused unless an
\* orphan is waiting on it
DuplicateStake(seen, b) ==
    /\ IsProofOfStake(b)
    /\ Stake[b] \in seen
    /\ ~HasOrphanChild(mapOrphanBlocks, b)

\* mutant: an accepted orphan is not pushed onto the work queue
DrainChildrenNoPush(d, hashPrev, fails) ==
    FoldLeftOnce(LAMBDA e, o :
               [s     |-> AcceptBlock(e.s, o, fails).s,
                orph  |-> Remove(e.orph, o),
                seen  |-> e.seen \ {Stake[o]},
                queue |-> e.queue],
             d, SelectSeq(d.orph, LAMBDA o : Parent[o] = hashPrev))

\* the inner loop of the drain for one hashPrev: every orphan waiting on it,
\* in insertion order, goes to AcceptBlock; one that is accepted joins the
\* work queue, and each is erased from the pool and its stake from
\* setStakeSeenOrphan whatever AcceptBlock returned
DrainChildren(d, hashPrev, fails) ==
    FoldLeftOnce(LAMBDA e, o :
               Let(AcceptBlock(e.s, o, fails), LAMBDA r :
                 [s     |-> r.s,
                  orph  |-> Remove(e.orph, o),
                  seen  |-> e.seen \ {Stake[o]},
                  queue |-> IF r.ok THEN Append(e.queue, o) ELSE e.queue]),
             d, SelectSeq(d.orph, LAMBDA o : Parent[o] = hashPrev))

\* the vWorkQueue loop, from position i of the queue
RECURSIVE Drain(_, _, _)
Drain(d, i, fails) ==
    IF i > Len(d.queue) THEN d
    ELSE Let(DrainChildren(d, d.queue[i], fails), LAMBDA x : Drain(x, i + 1, fails))

\* mutant: ProcessNewBlock without the mapOrphanBlocks duplicate check
AdmissibleNoOrphanCheck(b) ==
    /\ b \in NonGenesis
    /\ b \notin mapBlockIndex
    /\ ~DuplicateStake(setStakeSeen, b)

\* the checks of ProcessNewBlock before the parent lookup
Admissible(b) ==
    /\ b \in NonGenesis
    /\ b \notin mapBlockIndex
    /\ ~IsOrphan(b)
    /\ ~DuplicateStake(setStakeSeen, b)

\* the parent is unknown: the block is shunted to the orphan pool, unless
\* it repeats the stake of a waiting orphan without an orphan child of its own
StoreOrphan(b) ==
    /\ Parent[b] \notin mapBlockIndex
    /\ ~DuplicateStake(setStakeSeenOrphan, b)
    /\ mapOrphanBlocks' = Append(mapOrphanBlocks, b)
    /\ setStakeSeenOrphan' = IF IsProofOfStake(b) THEN setStakeSeenOrphan \cup {Stake[b]}
                             ELSE setStakeSeenOrphan
    /\ UNCHANGED vars

\* the parent is known: AcceptBlock; when it fails ProcessNewBlock returns
\* at once (whatever AcceptBlock already changed stays), otherwise the
\* orphans that depended on the block are processed recursively
AcceptAndDrain(b) ==
    /\ Parent[b] \in mapBlockIndex
    /\ \E fails \in SUBSET Flaky : \E r \in {AcceptBlock(St, b, fails)} :
         IF r.ok
         THEN \E d \in {Drain([s |-> r.s, orph |-> mapOrphanBlocks,
                               seen |-> setStakeSeenOrphan, queue |-> <<b>>], 1, fails)} :
                 /\ Commit(d.s)
                 /\ mapOrphanBlocks' = d.orph
                 /\ setStakeSeenOrphan' = d.seen
         ELSE /\ Commit(r.s)
              /\ UNCHANGED orphanVars

\* ProcessNewBlock(pfrom, pblock)
ProcessNewBlock(b) ==
    /\ Admissible(b)
    /\ \/ StoreOrphan(b)
       \/ AcceptAndDrain(b)

IInit ==
    /\ Init
    /\ mapOrphanBlocks = <<>>
    /\ setStakeSeenOrphan = {}

INext == \E b \in NonGenesis : ProcessNewBlock(b)

\* ENABLED <<ProcessNewBlock(b)>>_ivars, spelled out: the block is admitted
\* and is either stored as an orphan or, its parent known, passes
\* AcceptBlock's checks (a block that does is always added to the index)
CanDeliver(b) ==
    /\ Admissible(b)
    /\ IF Parent[b] \in mapBlockIndex THEN b \notin Rejected
       ELSE ~DuplicateStake(setStakeSeenOrphan, b)

\* Peers answer the getblocks / AskFor(WantedByOrphan) requests that
\* ProcessNewBlock sends for a missing ancestor, so a block that could be
\* delivered is eventually delivered: weak fairness of each delivery,
\* written <>[]ENABLED A => []<>A with CanDeliver for ENABLED A.
IFairness ==
    \A b \in NonGenesis : <>[]CanDeliver(b) => []<><<ProcessNewBlock(b)>>_ivars

ISpec == IInit /\ [][INext]_ivars /\ IFairness

-----------------------------------------------------------------------------
(* Properties                                                              *)

\* the chain to b is valid and passes AcceptBlock's contextual checks
Acceptable(b) == RefValid(b) /\ ToSet(PathTo(b)) \cap Rejected = {}
AcceptableBlocks == {b \in NonGenesis : Acceptable(b)}

ITypeOK ==
    /\ TypeOK
    /\ mapOrphanBlocks \in Seq(NonGenesis)
    /\ IsInjective(mapOrphanBlocks)
    /\ \A i \in DOMAIN mapOrphanBlocks : mapOrphanBlocks[i] \notin mapBlockIndex
    /\ setStakeSeenOrphan \subseteq Range(Stake) \ {NoStake}

\* An orphan block only waits for a parent that is missing, or for one
\* whose chain is invalid: once ProcessNewBlock indexes a block with a valid
\* chain, the drain has handed every orphan depending on it to AcceptBlock
\* (spec 4.4: orphans are drained transitively once the parent arrives).
OrphansWaitOnMissingOrInvalidParent ==
    \A i \in DOMAIN mapOrphanBlocks :
        LET p == Parent[mapOrphanBlocks[i]] IN p \notin mapBlockIndex \/ p \notin AcceptableBlocks

\* Every proof-of-stake orphan in the pool has its stake recorded in
\* setStakeSeenOrphan (spec 4, ProcessNewBlock step 5: "stash in orphan
\* pool, record PoS duplicate set"), the set the orphan-side duplicate-stake
\* guard (2654) consults.  The drain erases a drained orphan's stake
\* whatever other orphan still holds it.
OrphanStakesRecorded ==
    \A i \in DOMAIN mapOrphanBlocks :
        IsProofOfStake(mapOrphanBlocks[i]) => Stake[mapOrphanBlocks[i]] \in setStakeSeenOrphan

\* A valid orphan is eventually indexed: the peer supplies its ancestors,
\* and an ancestor whose stake was already seen on a competing branch is
\* still let in because an orphan waits on it (the mapOrphanBlocksByPrev
\* exception of the duplicate-stake guards).
ValidOrphanEventuallyIndexed ==
    \A b \in AcceptableBlocks : IsOrphan(b) ~> b \in mapBlockIndex

=============================================================================
