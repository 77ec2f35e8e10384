----------------------------- MODULE ChainState -----------------------------
(***************************************************************************)
(* The chain-state core of src/src/main.cpp: the in-memory block index     *)
(* (mapBlockIndex, pindexBest, hashBestChain, the pnext pointers), the     *)
(* transactional tx index on disk (tx/<txid> -> position and vSpent), the  *)
(* on-disk block-index records (hashNext) and best-chain hash, and the     *)
(* mempool as far as block connection touches it.                         *)
(*                                                                         *)
(* One step is one block handed to AcceptBlock under cs_main: it is added  *)
(* to the index and, when its chain trust beats the tip, SetBestChain runs *)
(* the whole connect / reorganize / secondary-reconnect sequence.          *)
(*                                                                         *)
(* Data is abstracted: a block is a model value with a fixed parent, trust *)
(* and transaction list; a transaction is a model value with a fixed list  *)
(* of outpoints <<prevTx, n>>.  A disk position CDiskTxPos is the block    *)
(* that holds the transaction (for the maturity walk) and a spent marker   *)
(* is the spending transaction.  Value, fee, sigop, signature, reward and  *)
(* masternode/developer payment checks are folded into BadBlock (always    *)
(* fail) and Flaky (outcome depends on the clock and the masternode list). *)
(***************************************************************************)
EXTENDS Integers, Sequences, FiniteSets, SequencesExt

CONSTANTS
    Block,          \* candidate blocks; a block is identified by its hash
    Genesis,        \* the genesis block written by LoadBlockIndex
    Parent,         \* Parent[b]: hashPrevBlock of a non-genesis block b
    Trust,          \* Trust[b]: GetBlockTrust() of b, a small positive integer
    BlockTxs,       \* BlockTxs[b]: vtx of b, coinbase first
    Tx,             \* transactions; a transaction is identified by its hash
    TxIns,          \* TxIns[t]: the prevouts <<prevTx, n>> of vin; <<>> for a coinbase
    NOut,           \* NOut[t]: vout.size()
    CoinStake,      \* the coinstake transactions
    BadBlock,       \* blocks failing the reward / signature / payment checks of ConnectBlock
    Flaky,          \* blocks whose masternode-payee check may fail or pass from call to call
    Rejected,       \* blocks failing the contextual checks of AcceptBlock (nBits, time, finality, checkpoints)
    Stake,          \* Stake[b]: GetProofOfStake() = (prevoutStake, nStakeTime) of a PoS block, else NoStake
    NoStake,        \* the stake of a proof-of-work block
    CoinbaseMaturity,      \* nCoinbaseMaturity
    InnerDefaultPostponed, \* default of SetBestChainInner's postponedBlocks (main.h)
    NoBlock,        \* a null CBlockIndex* / zero hash
    NoEntry,        \* no tx/<txid> record (and "not queued" in mapQueuedChanges)
    Null            \* a null CDiskTxPos in vSpent

ASSUME Genesis \in Block /\ CoinbaseMaturity \in Nat /\ InnerDefaultPostponed \in Int

VARIABLES
    mapBlockIndex,  \* blocks with a CBlockIndex node in memory
    pnext,          \* pnext[b]: in-memory next-in-main-chain pointer
    pindexBest,     \* the in-memory tip
    hashBestChain,  \* the global tip hash, compared by SetBestChain
    mempool,        \* txids in the memory pool
    setStakeSeen,   \* stakes of indexed proof-of-stake blocks
    txindex,        \* disk: txindex[t] = [blk, spent] or NoEntry
    hashNext,       \* disk: hashNext field of each block-index record
    diskBest,       \* disk: the hashBestChain key
    diskIndex       \* disk: blocks with a blockindex record

memVars  == <<mapBlockIndex, pnext, pindexBest, hashBestChain, mempool, setStakeSeen>>
diskVars == <<txindex, hashNext, diskBest, diskIndex>>
vars     == <<memVars, diskVars>>

-----------------------------------------------------------------------------
(* Transactions and the block tree                                         *)

\* Op(v) with v computed once: an accumulator or result bound through a
\* one-element set is a value, not an expression TLC evaluates again at
\* every use
Let(v, Op(_)) == CHOOSE r \in {Op(x) : x \in {v}} : TRUE

\* FoldLeft of SequencesExt, with each accumulator computed once
RECURSIVE FoldLeftOnce(_, _, _)
FoldLeftOnce(Op(_, _), acc, seq) ==
    IF seq = <<>> THEN acc
    ELSE Let(Op(acc, Head(seq)), LAMBDA x : FoldLeftOnce(Op, x, Tail(seq)))

NonGenesis == Block \ {Genesis}
IsCoinBase(t) == TxIns[t] = <<>>
IsCoinStake(t) == t \in CoinStake
Spends(t) == ToSet(TxIns[t])
IsProofOfStake(b) == Stake[b] # NoStake

RECURSIVE Height(_)
Height(b) == IF b = Genesis THEN 0 ELSE Height(Parent[b]) + 1

\* nChainTrust as computed by AddToBlockIndex
RECURSIVE ChainTrust(_)
ChainTrust(b) == IF b = Genesis THEN Trust[b] ELSE ChainTrust(Parent[b]) + Trust[b]

\* the pprev walk from b back to genesis, genesis first
RECURSIVE PathTo(_)
PathTo(b) == IF b = Genesis THEN <<Genesis>> ELSE Append(PathTo(Parent[b]), b)

\* blocks strictly above ancestor a up to b, lowest first
Branch(a, b) == SubSeq(PathTo(b), Height(a) + 2, Height(b) + 1)

\* the pfork / plonger walk of Reorganize
Fork(p, q) ==
    LET common == ToSet(PathTo(p)) \cap ToSet(PathTo(q))
    IN  CHOOSE a \in common : \A c \in common : Height(c) <= Height(a)

TxsOfBlocks(bs) == FlattenSeq([i \in DOMAIN bs |-> BlockTxs[bs[i]]])

-----------------------------------------------------------------------------
(* The tx index: FetchInputs, ConnectInputs, CalculateBlockAmounts,        *)
(* ConnectBlock, DisconnectInputs, DisconnectBlock.  A store st is the     *)
(* state of the open db transaction: [txindex, hashNext, diskBest].        *)

NoQueue == [t \in Tx |-> NoEntry]

\* CTxIndex(posThisTx, vout.size()): all outputs unspent
FreshEntry(b, t) == [blk |-> b, spent |-> [n \in 1..NOut[t] |-> Null]]

\* FetchInputs(fBlock): mapQueuedChanges first, else ReadTxIndex
Fetched(q, idx, h) == IF q[h] # NoEntry THEN q[h] ELSE idx[h]

InputsFound(q, idx, t) ==
    \A k \in DOMAIN TxIns[t] : Fetched(q, idx, TxIns[t][k][1]) # NoEntry

\* mutant: the maturity loop is dropped
ImmatureNever(b, h, e) == FALSE

\* mutant: the maturity walk goes one block too far back (<= for <)
ImmatureOffByOne(b, h, e) ==
    /\ IsCoinBase(h) \/ IsCoinStake(h)
    /\ \E a \in ToSet(PathTo(b)) : a = e.blk /\ Height(b) - Height(a) <= CoinbaseMaturity

\* the maturity walk: the block holding a coinbase/coinstake prevout lies
\* within nCoinbaseMaturity blocks back from the block being connected
Immature(b, h, e) ==
    /\ IsCoinBase(h) \/ IsCoinStake(h)
    /\ \E a \in ToSet(PathTo(b)) : a = e.blk /\ Height(b) - Height(a) < CoinbaseMaturity

\* ConnectInputs(fBlock = true): first loop (maturity), then the second loop
\* marks each prevout spent in mapTestPool, stopping at the first one already
\* spent (txAlreadyUsed); marks made before that stop are kept in q.
ConnectInputs(idx, q, b, t) ==
    IF \E k \in DOMAIN TxIns[t] :
          Immature(b, TxIns[t][k][1], Fetched(q, idx, TxIns[t][k][1]))
    THEN [ok |-> FALSE, used |-> FALSE, q |-> q]
    ELSE FoldLeftOnce(
           LAMBDA s, o :
             IF ~s.ok THEN s
             ELSE LET e == Fetched(s.q, idx, o[1]) IN
                  IF e.spent[o[2]] # Null
                  THEN [ok |-> FALSE, used |-> TRUE, q |-> s.q]
                  ELSE [s EXCEPT !.q[o[1]] = [e EXCEPT !.spent[o[2]] = t]],
           [ok |-> TRUE, used |-> FALSE, q |-> q], TxIns[t])

\* one iteration of the vtx loop of CalculateBlockAmounts
AmountsStep(idx, b, skipTxCheck, s, t) ==
    IF ~s.ok THEN s
    ELSE IF /\ ~skipTxCheck
            /\ idx[t] # NoEntry
            /\ \E n \in DOMAIN idx[t].spent : idx[t].spent[n] = Null
         THEN [s EXCEPT !.ok = FALSE]                      \* BIP30 overwrite
    ELSE IF IsCoinBase(t) THEN [s EXCEPT !.q[t] = FreshEntry(b, t)]
    ELSE IF ~InputsFound(s.q, idx, t) THEN [s EXCEPT !.ok = FALSE]
    ELSE Let(ConnectInputs(idx, s.q, b, t), LAMBDA c :
           IF ~c.ok /\ ~(skipTxCheck /\ c.used)
           THEN [s EXCEPT !.ok = FALSE]
           ELSE [ok |-> TRUE, q |-> [c.q EXCEPT ![t] = FreshEntry(b, t)]])

CalculateBlockAmounts(idx, b, skipTxCheck) ==
    FoldLeftOnce(LAMBDA s, t : AmountsStep(idx, b, skipTxCheck, s, t),
             [ok |-> TRUE, q |-> NoQueue], BlockTxs[b])

\* CBlock::ConnectBlock(txdb, pindex, fJustCheck, reorganize, ...)
ConnectBlock(st, b, fJustCheck, reorganize, nxt, fails) ==
    Let(CalculateBlockAmounts(st.txindex, b, reorganize), LAMBDA r :
    IF ~r.ok \/ b \in BadBlock \/ b \in fails
    THEN [ok |-> FALSE, st |-> st]
    ELSE LET st1 == [st EXCEPT !.hashNext[b] = nxt[b]]   \* WriteBlockIndex(pindex)
         IN IF fJustCheck THEN [ok |-> TRUE, st |-> st1]
            ELSE [ok |-> TRUE,
                  st |-> [st1 EXCEPT
                            !.txindex = [x \in Tx |-> IF r.q[x] # NoEntry
                                                     THEN r.q[x] ELSE st.txindex[x]],
                            !.hashNext[Parent[b]] = b]])

\* mutant: DisconnectInputs without the trailing EraseTxIndex
DisconnectInputsKeepsIndex(idx, t) ==
    FoldLeftOnce(LAMBDA a, o :
               IF ~a.ok THEN a
               ELSE IF a.idx[o[1]] = NoEntry THEN [a EXCEPT !.ok = FALSE]
               ELSE [a EXCEPT !.idx[o[1]].spent[o[2]] = Null],
             [ok |-> TRUE, idx |-> idx], TxIns[t])

\* CTransaction::DisconnectInputs: null the spent slot of every prevout,
\* then EraseTxIndex of the transaction itself
DisconnectInputs(idx, t) ==
    Let(FoldLeftOnce(LAMBDA a, o :
                  IF ~a.ok THEN a
                  ELSE IF a.idx[o[1]] = NoEntry THEN [a EXCEPT !.ok = FALSE]
                  ELSE [a EXCEPT !.idx[o[1]].spent[o[2]] = Null],
                [ok |-> TRUE, idx |-> idx], TxIns[t]),
        LAMBDA s : IF s.ok THEN [s EXCEPT !.idx[t] = NoEntry] ELSE s)

\* mutant: DisconnectBlock leaves the parent's on-disk hashNext in place
DisconnectBlockKeepsNext(st, b) ==
    Let(FoldLeftOnce(LAMBDA a, t : IF ~a.ok THEN a ELSE DisconnectInputs(a.idx, t),
                [ok |-> TRUE, idx |-> st.txindex], Reverse(BlockTxs[b])),
        LAMBDA s : IF ~s.ok THEN [ok |-> FALSE, st |-> st]
                   ELSE [ok |-> TRUE, st |-> [st EXCEPT !.txindex = s.idx]])

\* CBlock::DisconnectBlock: transactions in reverse order, then the parent's
\* on-disk hashNext is zeroed
DisconnectBlock(st, b) ==
    Let(FoldLeftOnce(LAMBDA a, t : IF ~a.ok THEN a ELSE DisconnectInputs(a.idx, t),
                [ok |-> TRUE, idx |-> st.txindex], Reverse(BlockTxs[b])),
        LAMBDA s : IF ~s.ok THEN [ok |-> FALSE, st |-> st]
                   ELSE [ok |-> TRUE,
                         st |-> [st EXCEPT !.txindex = s.idx,
                                           !.hashNext[Parent[b]] = NoBlock]])

-----------------------------------------------------------------------------
(* The mempool operations block connection calls.  CTxMemPool is in       *)
(* txmempool.cpp, outside src/: these follow the spec (section 4.3/4.6).   *)

Conflicts(pool, t) == {p \in pool : p # t /\ Spends(p) \cap Spends(t) # {}}

\* mempool.accept(txdb, tx, fCheckInputs = false)
AcceptNoCheck(pool, idx, t) ==
    IF \/ IsCoinBase(t) \/ IsCoinStake(t)
       \/ t \in pool
       \/ Conflicts(pool, t) # {}
       \/ idx[t] # NoEntry
    THEN pool ELSE pool \cup {t}

\* mempool.remove(tx) followed by mempool.removeConflicts(tx)
RemoveWithConflicts(pool, t) == (pool \ {t}) \ Conflicts(pool, t)

\* AcceptableInputs(pool, tx, ...): the checks mempool.accept applies to a
\* loose transaction against the txdb idx and the tip best.  FetchInputs in
\* pool mode takes a prevout from the txdb, else from the pool (a fresh
\* vSpent), else reports missing inputs; only txdb prevouts can be spent or
\* immature.  Fee, standardness, time and signature checks are abstracted.
\* mutant: the mempool conflict test is dropped
PreFetchChecksNoConflict(pool, idx, t) ==
    /\ ~IsCoinBase(t) /\ ~IsCoinStake(t)
    /\ t \notin pool
    /\ idx[t] = NoEntry

PreFetchChecks(pool, idx, t) ==
    /\ ~IsCoinBase(t) /\ ~IsCoinStake(t)
    /\ t \notin pool
    /\ Conflicts(pool, t) = {}
    /\ idx[t] = NoEntry

InputsAvailable(pool, idx, t) == \A o \in Spends(t) : idx[o[1]] # NoEntry \/ o[1] \in pool

\* the only rejection that sets *pfMissingInputs: FetchInputs fails
MissingInputs(pool, idx, t) == PreFetchChecks(pool, idx, t) /\ ~InputsAvailable(pool, idx, t)

AcceptableInputs(pool, idx, best, t) ==
    /\ PreFetchChecks(pool, idx, t)
    /\ InputsAvailable(pool, idx, t)
    /\ \A o \in Spends(t) : idx[o[1]] # NoEntry =>
          /\ ~Immature(best, o[1], idx[o[1]])
          /\ idx[o[1]].spent[o[2]] = Null

-----------------------------------------------------------------------------
(* Reorganize, SetBestChainInner, SetBestChain, AddToBlockIndex and        *)
(* AcceptBlock as functions of a state record S with one field per        *)
(* variable, so that a caller can run several of them in one step (the     *)
(* orphan drain of ProcessNewBlock).  Inside SetBestChain a context ctx    *)
(* carries the store, the pnext pointers and the mempool.                 *)

St == [mapBlockIndex |-> mapBlockIndex, pnext |-> pnext, pindexBest |-> pindexBest,
       hashBestChain |-> hashBestChain, mempool |-> mempool,
       setStakeSeen |-> setStakeSeen, txindex |-> txindex, hashNext |-> hashNext,
       diskBest |-> diskBest, diskIndex |-> diskIndex]

Commit(S) ==
    /\ mapBlockIndex' = S.mapBlockIndex /\ pnext' = S.pnext
    /\ pindexBest' = S.pindexBest /\ hashBestChain' = S.hashBestChain
    /\ mempool' = S.mempool /\ setStakeSeen' = S.setStakeSeen
    /\ txindex' = S.txindex /\ hashNext' = S.hashNext
    /\ diskBest' = S.diskBest /\ diskIndex' = S.diskIndex

Disk(S) == [txindex |-> S.txindex, hashNext |-> S.hashNext, diskBest |-> S.diskBest]

\* Reorganize(txdb, pindexNew, postponedBlocks)
Reorganize(S, pnew, fails) ==
    LET fork        == Fork(S.pindexBest, pnew)
        vDisconnect == Reverse(Branch(fork, S.pindexBest))
        vConnect    == Branch(fork, pnew)
        dis == FoldLeftOnce(LAMBDA s, b : IF ~s.ok THEN s ELSE DisconnectBlock(s.st, b),
                        [ok |-> TRUE, st |-> Disk(S)], vDisconnect)
        con == FoldLeftOnce(LAMBDA s, b : IF ~s.ok THEN s
                                      ELSE ConnectBlock(s.st, b, FALSE, TRUE, S.pnext, fails),
                        dis, vConnect)
        vResurrect == SelectSeq(TxsOfBlocks(vDisconnect),
                                LAMBDA t : ~(IsCoinBase(t) \/ IsCoinStake(t)))
        vDelete    == TxsOfBlocks(vConnect)
        cut  == {Parent[vDisconnect[i]] : i \in DOMAIN vDisconnect}
        link == [x \in {Parent[vConnect[i]] : i \in DOMAIN vConnect} |->
                    CHOOSE c \in ToSet(vConnect) : Parent[c] = x]
        nxt  == [x \in Block |-> IF x \in DOMAIN link THEN link[x]
                                 ELSE IF x \in cut THEN NoBlock ELSE S.pnext[x]]
    IN  Let(con, LAMBDA c :
          LET pool1 == FoldLeftOnce(LAMBDA p, t : AcceptNoCheck(p, c.st.txindex, t),
                               S.mempool, vResurrect)
              pool2 == FoldLeftOnce(LAMBDA p, t : RemoveWithConflicts(p, t), pool1, vDelete)
          IN  [ok    |-> c.ok,
               st    |-> [c.st EXCEPT !.diskBest = pnew],
               pnext |-> nxt,
               pool  |-> pool2])

\* mutant: SetBestChainInner without the mempool.remove loop
SetBestChainInnerKeepsPool(ctx, p, reorganize, postponed, fails) ==
    Let(ConnectBlock(ctx.st, p, reorganize, postponed # 0, ctx.pnext, fails), LAMBDA r :
    IF ~r.ok THEN [ctx EXCEPT !.ok = FALSE]
    ELSE [ok    |-> TRUE,
          st    |-> [r.st EXCEPT !.diskBest = p],
          pnext |-> [ctx.pnext EXCEPT ![Parent[p]] = p],
          pool  |-> ctx.pool])

\* CBlock::SetBestChainInner: ConnectBlock(txdb, pindexNew, reorganize,
\* postponedBlocks) binds reorganize to fJustCheck and postponedBlocks to
\* reorganize; on success commit, link pprev->pnext, drop the block's txs
SetBestChainInner(ctx, p, reorganize, postponed, fails) ==
    Let(ConnectBlock(ctx.st, p, reorganize, postponed # 0, ctx.pnext, fails), LAMBDA r :
    IF ~r.ok THEN [ctx EXCEPT !.ok = FALSE]
    ELSE [ok    |-> TRUE,
          st    |-> [r.st EXCEPT !.diskBest = p],
          pnext |-> [ctx.pnext EXCEPT ![Parent[p]] = p],
          pool  |-> ctx.pool \ ToSet(BlockTxs[p])])

\* the vpindexSecondary walk: step back while the parent out-trusts the tip
RECURSIVE Intermediate(_, _)
Intermediate(b, best) ==
    IF b # Genesis /\ ChainTrust(Parent[b]) > ChainTrust(best)
    THEN Intermediate(Parent[b], best) ELSE b

\* BOOST_REVERSE_FOREACH over vpindexSecondary; a failure stops the loop
\* and leaves pindexNew at the failed block's parent
ReconnectSecondary(ctx, sec, postponed, fails, b) ==
    FoldLeftOnce(LAMBDA s, p :
               IF s.stopped THEN s
               ELSE Let(SetBestChainInner(s.ctx, p, TRUE, postponed, fails), LAMBDA r :
                      IF r.ok THEN [s EXCEPT !.ctx = r]
                      ELSE [stopped |-> TRUE, ctx |-> s.ctx, tip |-> Parent[p]]),
             [stopped |-> FALSE, ctx |-> ctx, tip |-> b], sec)

\* the tail of SetBestChain: new tip in memory, committed store on disk
NewBest(S, ctx, tip, b) ==
    [S EXCEPT !.txindex = ctx.st.txindex, !.hashNext = ctx.st.hashNext,
              !.diskBest = ctx.st.diskBest, !.mempool = ctx.pool,
              !.pnext = [ctx.pnext EXCEPT ![tip] = NoBlock],
              !.pindexBest = tip, !.hashBestChain = b]

\* CBlock::SetBestChain(txdb, pindexNew) for a block b past genesis; a
\* failed SetBestChainInner or Reorganize aborts the transaction
SetBestChain(S, b, fails) ==
    LET ctx0 == [ok |-> TRUE, st |-> Disk(S), pnext |-> S.pnext, pool |-> S.mempool] IN
    IF Parent[b] = S.hashBestChain
    THEN Let(SetBestChainInner(ctx0, b, FALSE, InnerDefaultPostponed, fails), LAMBDA r :
           IF r.ok THEN [ok |-> TRUE, s |-> NewBest(S, r, b, b)]
           ELSE [ok |-> FALSE, s |-> S])
    ELSE LET pi        == Intermediate(b, S.pindexBest)
             sec       == Branch(pi, b)
             postponed == IF sec = <<>> THEN -1 ELSE Len(sec)
         IN  Let(Reorganize(S, pi, fails), LAMBDA rr :
               IF ~rr.ok THEN [ok |-> FALSE, s |-> S]
               ELSE Let(ReconnectSecondary(rr, sec, postponed, fails, b), LAMBDA x :
                      [ok |-> TRUE, s |-> NewBest(S, x.ctx, x.tip, b)]))

\* the bookkeeping of AddToBlockIndex before the best-chain test: the node,
\* the stake seen and the blockindex record
Indexed(S, b) ==
    [S EXCEPT !.mapBlockIndex = @ \cup {b}, !.diskIndex = @ \cup {b},
              !.setStakeSeen = IF IsProofOfStake(b) THEN @ \cup {Stake[b]} ELSE @]

\* mutant: AddToBlockIndex without its WriteBlockIndex
AddToBlockIndexNoDiskRecord(S, b, fails) ==
    LET S1 == [Indexed(S, b) EXCEPT !.diskIndex = S.diskIndex] IN
    IF ChainTrust(b) > ChainTrust(S.pindexBest) THEN SetBestChain(S1, b, fails)
    ELSE [ok |-> TRUE, s |-> S1]

\* mutant: AddToBlockIndex calls SetBestChain whatever the new chain trust
AddToBlockIndexAlwaysSetsBest(S, b, fails) == SetBestChain(Indexed(S, b), b, fails)

\* CBlock::AddToBlockIndex: SetBestChain runs when nChainTrust beats
\* nBestChainTrust, and its failure is AddToBlockIndex's
AddToBlockIndex(S, b, fails) ==
    IF ChainTrust(b) > ChainTrust(S.pindexBest) THEN SetBestChain(Indexed(S, b), b, fails)
    ELSE [ok |-> TRUE, s |-> Indexed(S, b)]

\* CBlock::AcceptBlock: the duplicate and missing-parent early returns, the
\* contextual checks (failing exactly for Rejected), then AddToBlockIndex
AcceptBlock(S, b, fails) ==
    IF b \in S.mapBlockIndex \/ Parent[b] \notin S.mapBlockIndex \/ b \in Rejected
    THEN [ok |-> FALSE, s |-> S]
    ELSE AddToBlockIndex(S, b, fails)

-----------------------------------------------------------------------------
(* Actions                                                                 *)

\* state after LoadBlockIndex on an empty data directory: the genesis block
\* is indexed and named best without being connected
Init ==
    /\ mapBlockIndex = {Genesis}
    /\ pnext = [b \in Block |-> NoBlock]
    /\ pindexBest = Genesis
    /\ hashBestChain = Genesis
    /\ mempool = {}
    /\ setStakeSeen = {}
    /\ txindex = [t \in Tx |-> NoEntry]
    /\ hashNext = [b \in Block |-> NoBlock]
    /\ diskBest = Genesis
    /\ diskIndex = {Genesis}

\* a block whose parent is indexed handed to AcceptBlock under cs_main (the
\* accept branch of ProcessNewBlock when no orphan waits on it); a rejected
\* block changes nothing.  The outcome of the Flaky checks is chosen here.
AcceptBlockStep(b) ==
    /\ b \in NonGenesis \ (mapBlockIndex \cup Rejected)
    /\ Parent[b] \in mapBlockIndex
    /\ \E fails \in SUBSET Flaky : \E r \in {AcceptBlock(St, b, fails)} : Commit(r.s)

\* CTransaction::AcceptToMemoryPool(txdb, fCheckInputs = true) for a loose
\* transaction: mempool.accept inserts it when AcceptableInputs holds
AcceptToMemoryPool(t) ==
    /\ AcceptableInputs(mempool, txindex, pindexBest, t)
    /\ mempool' = mempool \cup {t}
    /\ UNCHANGED <<mapBlockIndex, pnext, pindexBest, hashBestChain, setStakeSeen, diskVars>>

Next ==
    \/ \E b \in NonGenesis : AcceptBlockStep(b)
    \/ \E t \in Tx : AcceptToMemoryPool(t)

Spec == Init /\ [][Next]_vars

\* LoadBlockIndex (CTxDB::LoadBlockIndex, outside src/): the in-memory
\* index is rebuilt from the blockindex records, pnext from their hashNext,
\* the tip from the hashBestChain key and setStakeSeen from the
\* proof-of-stake records; the mempool starts empty
Loaded(di, hn, db) ==
    [mapBlockIndex |-> di, pnext |-> hn, pindexBest |-> db, hashBestChain |-> db,
     mempool |-> {}, setStakeSeen |-> {Stake[x] : x \in {y \in di : IsProofOfStake(y)}},
     txindex |-> txindex, hashNext |-> hn, diskBest |-> db, diskIndex |-> di]

\* the node stops between two handlers (every db transaction is committed
\* or aborted) and restarts from disk
Restart == Commit(Loaded(diskIndex, hashNext, diskBest))

\* AddToBlockIndex commits b's blockindex record in its own transaction
\* (TxnBegin, WriteBlockIndex, TxnCommit) and the node stops before the
\* best-chain test and SetBestChain run; it restarts from disk
CrashAfterIndexWrite(b) ==
    /\ b \in NonGenesis \ (mapBlockIndex \cup Rejected)
    /\ Parent[b] \in mapBlockIndex
    /\ Commit(Loaded(diskIndex \cup {b}, hashNext, diskBest))

NextCrash == Next \/ Restart \/ \E b \in NonGenesis : CrashAfterIndexWrite(b)

SpecCrash == Init /\ [][NextCrash]_vars

-----------------------------------------------------------------------------
(* Reference definitions the properties compare against                    *)

MainChain == ToSet(PathTo(pindexBest))

ConfirmedTxs(c) == UNION {ToSet(BlockTxs[b]) : b \in c \ {Genesis}}

BlockOf(c, t) == CHOOSE b \in c \ {Genesis} : t \in ToSet(BlockTxs[b])

SpendersIn(c, t, n) == {s \in ConfirmedTxs(c) : <<t, n>> \in Spends(s)}

\* the tx index a correct node keeps for the chain c (section 3 of the spec)
ExpectedIndex(c) ==
    [t \in Tx |->
        IF t \in ConfirmedTxs(c)
        THEN [blk   |-> BlockOf(c, t),
              spent |-> [n \in 1..NOut[t] |->
                           IF SpendersIn(c, t, n) = {} THEN Null
                           ELSE CHOOSE s \in SpendersIn(c, t, n) : TRUE]]
        ELSE NoEntry]

\* the transactions of the chain to b past genesis, as <<block, tx>> in order
Ledger(b) ==
    LET p == Branch(Genesis, b)
    IN  FlattenSeq([i \in DOMAIN p |->
                      [k \in DOMAIN BlockTxs[p[i]] |-> <<p[i], BlockTxs[p[i]][k]>>]])

\* consensus validity of the chain to b, stated as a ledger: every prevout
\* was created earlier on the chain, is spent once, coinbase and coinstake
\* outputs are mature, no txid repeats, and no block fails its other checks
RefValid(b) ==
    LET L == Ledger(b) IN
    /\ \A i \in DOMAIN L : L[i][1] \notin BadBlock
    /\ \A i, j \in DOMAIN L : i # j => L[i][2] # L[j][2]
    /\ \A i \in DOMAIN L : \A o \in Spends(L[i][2]) :
          /\ \E j \in 1..(i - 1) :
                /\ L[j][2] = o[1]
                /\ (IsCoinBase(o[1]) \/ IsCoinStake(o[1])) =>
                       Height(L[i][1]) - Height(L[j][1]) >= CoinbaseMaturity
          /\ \A j \in DOMAIN L : j # i => o \notin Spends(L[j][2])

-----------------------------------------------------------------------------
(* Properties                                                              *)

Entry(t) == [blk : Block, spent : [1..NOut[t] -> Tx \cup {Null}]]

TypeOK ==
    /\ mapBlockIndex \subseteq Block /\ Genesis \in mapBlockIndex
    /\ pnext \in [Block -> Block \cup {NoBlock}]
    /\ pindexBest \in mapBlockIndex
    /\ hashBestChain \in Block
    /\ mempool \subseteq Tx
    /\ setStakeSeen \subseteq Range(Stake) \ {NoStake}
    /\ \A t \in Tx : txindex[t] = NoEntry \/ txindex[t] \in Entry(t)
    /\ hashNext \in [Block -> Block \cup {NoBlock}]
    /\ diskBest \in Block
    /\ diskIndex = mapBlockIndex

\* The tx index on disk is exactly the index of the chain ending at the
\* in-memory tip: after any sequence of ConnectBlock, DisconnectBlock,
\* Reorganize and secondary reconnects every confirmed tx has its record
\* with the right spent markers, and no other tx has one (spec section 8.3).
TxIndexMatchesMainChain == txindex = ExpectedIndex(MainChain)

\* The chain the node reports as best is a valid ledger: ConnectBlock and
\* Reorganize never leave a double spend, an immature coinbase/coinstake
\* spend, a spend of a missing output or a failing block on it.
MainChainValid == RefValid(pindexBest)

\* pindexBest has maximal chain trust among the indexed blocks whose chain
\* is valid: AddToBlockIndex / SetBestChain never miss a better valid chain
\* whatever order the blocks arrive in (spec section 3).
BestIsMaxValid ==
    \A b \in mapBlockIndex : RefValid(b) => ChainTrust(b) <= ChainTrust(pindexBest)

\* The tip recorded in the three places agrees, and the pnext pointers in
\* memory and the hashNext fields on disk both spell out the path from
\* genesis to pindexBest and nothing else: what LoadBlockIndex would read
\* back after a restart is the chain in memory.
NextOnMain(b) ==
    IF b \in MainChain /\ b # pindexBest THEN PathTo(pindexBest)[Height(b) + 2]
    ELSE NoBlock

ChainPointersConsistent ==
    /\ hashBestChain = pindexBest
    /\ diskBest = pindexBest
    /\ \A b \in Block : pnext[b] = NextOnMain(b) /\ hashNext[b] = pnext[b]

\* The global hashBestChain names the in-memory tip: when a secondary
\* reconnect fails SetBestChain keeps the last good block as the tip (spec
\* 4.8), and the next block compares its hashPrevBlock against that tip.
BestHashIsTip == hashBestChain = pindexBest

\* No transaction sits both in the mempool and in a block of the main chain:
\* SetBestChainInner and Reorganize drop connected transactions from the
\* pool and resurrection never re-adds a confirmed one.
MempoolDisjointFromChain == mempool \cap ConfirmedTxs(MainChain) = {}

\* the abstract best chain: the indexed blocks and the in-memory tip
BC == INSTANCE BestChain WITH known <- mapBlockIndex, tip <- pindexBest, Valid <- RefValid

\* Block acceptance implements BestChain: every step either leaves the
\* index and the tip alone or indexes one block whose parent is indexed,
\* and the tip moves exactly when that block's chain is valid and more
\* trusted -- however AddToBlockIndex, SetBestChain, Reorganize and the
\* secondary reconnects get there, and never to another block.
BestChainRefined == BC!Spec

=============================================================================
