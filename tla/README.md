# TLA+ models of the Neutron chain-state core

This directory holds TLA+ models of the chain-state core in `src/src/main.cpp`,
a Peercoin-derived PoW/PoS node. It also covers the small helpers next to it
(`ismine.cpp`, `random.h`, `utiltime.cpp`). Each module is translated from the
source. `PROJECT.json` maps every modelled definition to the lines it stands for.
It also lists the runs, the mutants that show each property can fail, the
findings and the hazards of the code.

## 1. The system

| Part | Code | State it keeps | Operations |
|---|---|---|---|
| Block index | `main.cpp` globals 37-72, `AddToBlockIndex` 2238 | `mapBlockIndex` (never shrinks), `pprev`/`pnext`, `nChainTrust`, `pindexBest`, `hashBestChain`, `nBestChainTrust`, `setStakeSeen` | add a node; move the tip |
| Best-chain selection | `SetBestChain` 2009, `SetBestChainInner` 1982, `Reorganize` 1854 | the tip globals, `pnext` | direct extension; reorganization to `pindexIntermediate`; then reconnecting the postponed (`vpindexSecondary`) blocks one db transaction each |
| Block connection | `ConnectBlock` 1584, `CalculateBlockAmounts` 1473, `FetchInputs` 1131, `ConnectInputs` 1276, `DisconnectBlock` 1449, `DisconnectInputs` 1095 | the tx index on disk (`tx/<txid>` → position and `vSpent`), the block-index records (`hashNext`), the `hashBestChain` key | stage changes in `mapQueuedChanges`, then write them; undo a block |
| Memory pool | `AcceptableInputs` 513, `AcceptToMemoryPool` 732; `CTxMemPool` is in txmempool.cpp (outside src/) | pool txs, `mapNextTx` | admit; remove; remove conflicts; resurrect after a reorganization |
| Block ingress | `ProcessNewBlock` 2559, `AcceptBlock` 2410, orphan-block maps | `mapOrphanBlocks`, `mapOrphanBlocksByPrev`, `setStakeSeenOrphan` | accept or park a block; drain orphans whose parent arrived |
| Orphan transactions | `AddOrphanTx` 179, `EraseOrphanTx` 215, `LimitOrphanTxSize` 233, "tx" handler ~3940 | `mapOrphanTransactions`, `...ByPrev` | park, drain, evict at random |
| Block download | `ProcessMessage` getblocks/inv/getdata/block 3531-4030, `ProcessGetData` 3270, `SendMessages` 4414 | `hashContinue`, `setInventoryKnown`, `vInventoryToSend`, `mapAskFor`, `mapAlreadyAskedFor`, the reset counter | answer a getblocks with a batch of invs; ask for unknown blocks; serve them; continue after a batch |
| Difficulty retargeting | `GetLastBlockIndex` 989, `GetNextTargetRequired` 1005, the header checks of `AcceptBlock` 2426-2444 | none (pure, over the chain) | next `nBits` of each kind |
| Rewards and fees | `GetProofOfWorkReward` 894, `GetProofOfStakeReward` 931, `GetMinFee` 481, the free-relay limiter 596, payments 4514-4558 | the limiter's `dFreeCount`, `nLastTime` | integer functions |
| Ownership | `ismine.cpp` | none (pure, over the keystore) | `HaveKeys`, recursive `IsMine` over scripts, `IsMine` over destinations |
| Random numbers | `random.h` | two 32-bit MWC states | `insecure_rand` |
| Clock | `utiltime.cpp` | mock time | `GetTime`, sleeps, formatting |
| GUI options | `qt/optionsmodel.h` | declarations only | none |

How the parts interact:
- `ProcessMessage` hands a block to `ProcessNewBlock`.
  - `AcceptBlock` writes it.
  - `AddToBlockIndex` indexes it.
  - When its chain trust beats `nBestChainTrust`, `SetBestChain` moves the tip. This connects and disconnects blocks against the tx index inside one db transaction, then fixes the `pnext` pointers in memory and updates the pool.
- Loose transactions reach the pool through `mempool.accept`, which uses `AcceptableInputs`. If they lack inputs they go to the orphan-transaction maps instead.
- Everything runs under `cs_main`. Each handler is therefore one atomic step, and the interleaving is the order in which blocks and transactions arrive.

Hard behaviours of the code:
- the order in which competing blocks arrive;
- multi-block reorganizations inside one db transaction, with abort on failure;
- the postponed-reconnect path;
- checks that depend on the clock or the masternode list, which can fail once and pass later;
- resurrecting transactions into the pool;
- orphan drains;
- random eviction at a bound;
- integer edges in the rewards, fees and RNG.

## 2. Modules

### `ChainState` (block index, best-chain selection, block connection, pool)

Variables:

| Variable | Code |
|---|---|
| `mapBlockIndex` | `mapBlockIndex` |
| `pnext` | `CBlockIndex::pnext` |
| `pindexBest` | `pindexBest` |
| `hashBestChain` | `hashBestChain` |
| `mempool` | `mempool` |
| `txindex` | `tx/<txid>` records |
| `hashNext` | on-disk `CDiskBlockIndex::hashNext` |
| `diskBest` | the `hashBestChain` key |
| `diskIndex` | `blockindex/<hash>` records |
| `setStakeSeen` | `setStakeSeen` (stakes of indexed proof-of-stake blocks) |

Actions:

- **`AcceptBlockStep(b)`** is `AcceptBlock` for a block whose parent is indexed: the contextual checks (the `Rejected` set), then `AddToBlockIndex`, which indexes the block (and its stake) and calls `SetBestChain` only when its chain trust beats the tip's. `AcceptBlock` and `AddToBlockIndex` are functions of a state record returning `[ok, s]`, so `Ingress` can call them several times in one step; a failing `SetBestChain` returns `ok = FALSE` with the block still indexed, as the code does.
  - `SetBestChain` is one operator built from `SetBestChainInner`, `Reorganize`, `Intermediate` (the `vpindexSecondary` walk), `ReconnectSecondary` and `NewBest` (the tail that sets the tip globals).
  - Each db transaction is a record of the three disk variables that is either committed or dropped, as `TxnCommit`/`TxnAbort` do.
  - `ConnectBlock` is a fold over `vtx` (`CalculateBlockAmounts`). Each step does the BIP30 test, then `FetchInputs` from `mapQueuedChanges` or the tx index, then the two loops of `ConnectInputs`. The second loop keeps the marks made before an input that was already spent. Then comes the `txAlreadyUsed` skip when `skipTxCheck`, and the fresh `CTxIndex`.
  - The early `return true` when `fJustCheck` is modelled where the code has it: after `WriteBlockIndex(pindex)`, before the queued changes and the parent's `hashNext` are written.
  - The argument shift of `SetBestChainInner` is kept: its `reorganize` is passed as `fJustCheck`, and `postponedBlocks != 0` as `reorganize`.
- **`AcceptToMemoryPool(t)`** is `mempool.accept` with `fCheckInputs = true`: the checks of `AcceptableInputs`, then insertion.

Data abstraction:
- Blocks and transactions are strings with a fixed parent, trust, `vtx` and `vin`.
- A disk position is the block that holds the transaction, which is all the maturity walk compares.
- A spent marker is the spending transaction.
- Value, fee, sigop, time, signature, PoW/PoS reward and masternode/developer payment checks are folded into two block sets:
  - `BadBlock`: the block always fails them.
  - `Flaky`: the outcome is chosen afresh at each `SetBestChain`. The masternode-payee check reads the wall clock, the masternode list and sporks.

The default of `SetBestChainInner`'s `postponedBlocks` is declared in `main.h`, outside src/. It is the constant `InnerDefaultPostponed` and is 0 in every run. A non-zero default would make every direct extension skip the double-spend checks.

Reference definitions used by the properties:
- `ExpectedIndex(c)`: the tx index a correct node keeps for chain `c`.
- `RefValid(b)`: the chain to `b` read as a ledger. Every prevout was created earlier on the chain and is spent once, coinbase/coinstake spends are mature, no txid repeats, and no `BadBlock` is on it.

### `Ingress` (ProcessNewBlock, orphan blocks) — extends `ChainState`

Variables: `mapOrphanBlocks`, the orphan pool as a sequence in arrival order (`mapOrphanBlocksByPrev` holds the same blocks keyed by parent, and a multimap visits one key's entries in insertion order, which fixes the order siblings are drained in), and `setStakeSeenOrphan`.

`ProcessNewBlock(b)` is the whole handler under `cs_main`: the duplicate checks against `mapBlockIndex` and the orphan pool, the duplicate-stake guard against `setStakeSeen` with its exception for a block an orphan waits on, then either `StoreOrphan` (unknown parent: the `setStakeSeenOrphan` guard, store) or `AcceptAndDrain` (`AcceptBlock`; on failure return at once, otherwise the `vWorkQueue` loop: `DrainChildren` gives every orphan waiting on a queued hash to `AcceptBlock`, queues it only if that succeeded, and erases it and its stake whatever the result). The node is past initial block download with no pending sync checkpoint; `CheckBlock` and the min-work test are taken to pass.

Fairness: `ProcessNewBlock` asks the peer for the missing ancestors (`getblocks`, `AskFor`), so a block that can be delivered is eventually delivered — weak fairness of each `ProcessNewBlock(b)`. It is written `<>[]CanDeliver(b) => []<><<ProcessNewBlock(b)>>_ivars`, with `CanDeliver(b)` the state predicate equal to `ENABLED`, which TLC evaluates far faster than `ENABLED` of the whole drain.

### `OrphanTx` (the "tx" handler, orphan transactions) — extends `ChainState`

Variables: `mapOrphanTransactions` (a set of txids), `mapOrphanTransactionsByPrev` (a function whose domain changes, as a `map`'s keys do), and two logs: `walletSynced`, the txs passed to `SyncWithWallets`, and `relayed`, the txs passed to `RelayTransaction`.

`ReceiveTx(t)` is the handler:
- `AcceptTx(t)`: `AcceptToMemoryPool` succeeds; the tx is synced and relayed, then the `vWorkQueue` loop (`DrainOrphanTxs`, `VisitPrev`) retries, in txid order (`TxHashOrder`), the orphans listed under each queued hash against the pool as it stands. An accepted orphan is relayed and queued; one refused for a reason other than missing inputs is queued for erasure. `operator[]` inserts the key it reads. Last, every hash of `vEraseQueue` goes through `EraseOrphanTx`.
- `StoreOrphanTx(t)`: `AcceptToMemoryPool` reports missing inputs (only the `FetchInputs` failure sets `*pfMissingInputs`); `AddOrphanTx` (refusing a stored or oversized tx, `BigTx`), then `LimitOrphanTxSize`. The random hash of the eviction loop is modelled as every set of orphans whose removal leaves exactly `MaxOrphans`.
- Blocks keep arriving through `AcceptBlockStep`, which moves the tx index and pool the handler checks against.

Restart (spec_modelled: `CTxDB::LoadBlockIndex` is in txdb, outside src/):
- `Loaded(di, hn, db)` is the state `LoadBlockIndex` rebuilds: the index from the blockindex records, `pnext` from their `hashNext`, the tip and `hashBestChain` from the `hashBestChain` key, `setStakeSeen` from the proof-of-stake records, and an empty pool.
- **`Restart`** is a stop between two handlers. Every db transaction is then committed or aborted, so the node reloads what is on disk.
- **`CrashAfterIndexWrite(b)`** is a stop inside `AddToBlockIndex` (2291-2306). The blockindex record of `b` was committed in its own transaction, and the node stopped before the trust comparison and `SetBestChain`.
- Both are in `NextCrash` / `SpecCrash`, which only the crash run uses.

Refinement:
- `BC == INSTANCE BestChain WITH known <- mapBlockIndex, tip <- pindexBest, Valid <- RefValid` maps the detailed state onto the abstract one.
- `BestChainRefined == BC!Spec` is checked as a temporal property.

### `BestChain` (what best-chain selection promises)

- Variables: `known` (indexed blocks) and `tip`.
- **`Receive(b)`** indexes a block whose parent is known and that is not `Rejected`. The tip moves to `b` exactly when `Valid(b)` holds and `b`'s chain trust is strictly greater than the tip's (`nChainTrust > nBestChainTrust`, 2303; the first of two equally trusted chains stays best).
- `ChainState` implements this module: AddToBlockIndex, SetBestChain, Reorganize and the secondary reconnects, in every arrival order, end on the same tip as the one-line rule. The flaky and crash configurations fall outside it, and their runs show where.

### `Retarget` (difficulty retargeting)

- The single variable `chain` is the main chain as a sequence of `[pos, time, bits]`, genesis first.
- **`AcceptBlock(fPoS, dt)`** appends a block of either kind `dt` seconds after the tip. The block must carry the `nBits` that `GetNextTargetRequired` demands and pass the timestamp window of `AcceptBlock`: after the median of the last eleven blocks (`GetPastTimeLimit`) and not more than `FutureDrift` before its parent.
- `GetNextTargetRequired` is translated in full:
  - `GetLastBlockIndex` walks back over the other kind's blocks;
  - the first and second block of each kind get the limit;
  - a negative spacing is clamped to `nTargetSpacing`;
  - the moving-average step follows;
  - the result is clamped to `(0, limit]`.
- `CBigNum`'s compact encoding (`GetCompact`/`SetCompact`, bignum.h, outside src/) is modelled by what it does: it keeps three mantissa bytes and shifts once more when the top bit would read as a sign. Re-encoding therefore loses low bits.
- Targets are kept below 2^29 so that TLC's 32-bit integers hold `bn * k`. `MulDiv` splits the product so that no intermediate value overflows. A quotient beyond 2^30 is taken as 2^30: it is above every limit, and the caller clamps it to the limit as the code does.
- `ProcessNewBlock`'s guard against bogus blocks (2588-2632) is part of `AcceptBlock`. `ComputeMaxBits` allows twice the checkpoint kind's last target, doubled again once per started day since the checkpoint, up to the kind's limit. `ComputeMinWork` and `ComputeMinStake` apply it for the two kinds. The guard applies only when there is a sync checkpoint and the block neither extends the tip nor is wanted by a pending checkpoint; this is the input `fChecked`. The checkpoint is any block of the chain, since `checkpoints.cpp` is outside the source tree.
- `Kinds` is the set of block kinds produced. It is both kinds in `retarget_chain`, and proof of work only in `retarget_minwork_day_gap`.

### `IsMine` (ownership of outputs)

- Variables: the keystore's `keys` and `scripts` (redeem scripts). Both only grow, through `AddKey` and `AddCScript`.
- `Solver` is outside src/. A script's template kind and `vSolutions` are therefore the constants `Kind` and `Sol`, and a `CScriptID` names the script it hashes.
- `IsMineScript` is the recursive `IsMine(keystore, scriptPubKey)`:
  - a key or key-hash script is mine when its key is held;
  - a script hash is mine when the redeem script is held and is itself mine;
  - a multisig is mine when `HaveKeys` counts all of its keys, duplicates included.
- `IsMineDest` is the destination overload, `CKeyStoreIsMineVisitor`.
- The reference `RefIsMine` is spec section 4: the wallet holds the keys needed to spend, and P2SH redemption goes one level deep.

### `RewardsFees` (rewards, relay fees, the clock)

Two halves that share no state, checked in one run.

Minting, for blocks that extend the tip:
- Variables: the tip's `nHeight`, `nMoneySupply` and `nMint`, and a count of the blocks connected.
- `GetProofOfWorkReward` and `GetProofOfStakeReward` are operators translated line by line. The height tables are sequences of `<<bound, coins>>`; above height 13 500 the stake subsidy is `40 COIN >> halvings`, less the linear interpolation within the halving window.
- A block `b` is a record: its kind, the fees its ordinary transactions give up (`nFees`), the outputs of its coinbase or coinstake (`vout`, an amount and a payee each), and `pm`, the answers of the masternode payments manager and the sporks. What the coinbase or coinstake creates is `Claim(b)`: the outputs less the stake `StakeIn` it spends. By `CalculateBlockAmounts` and `CheckBlock`, the block's `nValueOut - nValueIn` is then `Claim(b) - nFees`.
- **`ConnectBlock(b, fIBD)`** is `ConnectBlock` from the amounts to the payment checks (1584-1822):
  - a zero `nMoneySupply` on the parent is refused unless `IsInitialBlockDownload()` (the input `fIBD`);
  - above height 17 901 a claim above the reward for the block's height is refused;
  - outside initial download a proof-of-stake block must pass the payment checks (`PaymentsOK`): `MnPaymentOK` takes the last output worth `GetMasternodePayment` as the block's payee; past `ENFORCE_MN_PAYMENT_HEIGHT` some output must pay that amount, and when the list is synced, the block young (`pm.fCheckPayee`), spork 2 on and the postponed blocks under spork 12 (`pm.fEnforce`) the payee must be the one `GetBlockPayee` expected, or the one it names after `ProcessBlock` reprocesses the list (`pm.recomputed`). `DevPaymentOK` asks, past `ENFORCE_DEV_PAYMENT_HEIGHT`, for an output paying the developer script `GetDeveloperPayment`;
  - otherwise `nMint = Claim(b)` and `nMoneySupply` grows by `Claim(b) - nFees`.
- Coinbases tried: nothing, exactly the reward, one unit more. Coinstakes tried: the stake back alone; the split among staker, masternode (any of `Masternodes`, or the staker itself) and developer; that split with one unit more for the staker; splits without the developer or without the masternode output. `pm` ranges over every answer the manager can give; during initial download the checks are skipped.
- Two ghost variables add up, above the checkpoint, the supply actually created and the subsidy the spec's formula (section 4.9) grants.
- A third ghost variable, `unpaid`, records the heights of blocks connected under enforcement, past both heights, without the payments of spec 4.10.
- `DEVELOPER_PAYMENT_V2`, `ENFORCE_MN_PAYMENT_HEIGHT` and `ENFORCE_DEV_PAYMENT_HEIGHT` are constants: the first is used but not defined in src/; the heights take the values of main.cpp 62-63. `masternodePayments.AddPastWinningMasternode` in initial download changes only the manager's state, which is not modelled.

Relay fees:
- Variables: the limiter's statics `dFreeCount` and `nLastTime`, `nMockTime`, the operating system clock `wallClock`, and the last answer of `AcceptableInputs`.
- `GetMinFee` is translated in full, with the dust clause and the scaling as the block fills.
- A relayed transaction is a record: its inputs (`prevout`, and `sigOK` for a scriptSig of at most 500 bytes, push-only and canonical), its outputs (`nValue`, and a script: `std`, `nulldata`, `nonstd` or `empty`), its size and the value of the inputs `FetchInputs` finds. `IsCoinBase`, `IsCoinStake` and `IsEmpty` (main.h, not in the repository) follow spec section 3.
- **`AcceptableInputs(tx, fLimitFree)`** (513-613) is `RefuseLooseTx` (the opening checks fail: `CheckTransaction` with its output loop and running total, a coinbase or coinstake as a loose transaction, `IsStandard`) or `FeeChecks`: `nFees = GetValueIn - GetValueOut`, `fDust` from the outputs, the fee check, then the free-relay limiter. The pool and index lookups in between are those of `OrphanTx` and `ChainState`. The limiter decays the count by `pow(1 - 1/600, nNow - nLastTime)`. This is modelled one second at a time in whole bytes (`Decay`), growing the count for a negative interval.
- `GetTime` and `SetMockTime` are those of `utiltime.cpp`. `ClockStep` is the environment: the clock moves by a step of `ClockSteps`, backwards included.

Amounts are in units of `1/COIN`, with `COIN = 10` in the run. The real `10^8` does not fit TLC's integers, since the interpolation multiplies `40 * COIN` by up to `10^6`. The halving period and all heights keep their real values.

### `BlockSync` (block download: getblocks, inv, getdata, block)

Two peers exchange the messages of `ProcessMessage` (3531-4030), `ProcessGetData` (3270-3311) and `SendMessages` (4414-4509). Each node has one FIFO channel `chan[n]` (the TCP stream from its peer) and handles the message at its head, one handler per action, as the message handler thread does under `cs_main`.
- Blocks are the heights `0..Top` of one chain. Forks and validation are the subject of `ChainState` and `Ingress`; here a block is its height, and `ProcessNewBlock` is abstracted to its effect on `have` (`mapBlockIndex`), `orphans` (`mapOrphanBlocks`) and the requests it sends (`ProcessOrphanBlock`, `ProcessConnectBlock`, whose `Connected` set is the orphan drain of 2701-2722). Each block the drain links becomes the best block, and `AcceptBlock` queues its inv for the peer (2513-2525); the peer's `setInventoryKnown` usually filters it, since the peer sent that block.
- `ProcessGetBlocks` sends up to `NLimit` invs after the locator's fork point and sets `hashContinue` at the limit. `ServeData` answers a getdata block by block and, on the `hashContinue` block, sends the inv of `GetLastBlockIndex(pindexBest, false)` (`LastPoWBlock`, line 3306).
- `ProcessInv` is the inv handler (3689-3751): `AskFor` for a block not `AlreadyHave`, the orphan-root getblocks for a known orphan, and the getblocks from the last inv (`InvReply`).
- `ProcessDuplicateBlock` is the block handler when the block is already had: on the `MAX_TIME_SINCE_BEST_BLOCK` timeout (a nondeterministic input) it asks again from the tip.
- `SendMessages` flushes `invToSend` through `setInventoryKnown` (`invKnown`, an mruset of capacity `InvKnownMax`, so each block is announced at most once until evicted), then turns `askFor` into getdata and records `alreadyAsked` (`mapAlreadyAskedFor`).
- `AcceptNewTip` is another peer giving `Source` a new block; `AcceptBlock` relays it (2513-2525).
- `Init` is the connection: each side sends the version handler's getblocks (3531-3581, `VersionRequests`). `IBD` is an input (`IsInitialBlockDownload` is not in the repository). `counter` is the static counter of the reset branch at 3593; it is shared by all peers, so its phase at connection is any value.
- `PushGetBlocks`, `Msg`, `LocatorFork` and the mruset (`KnownInsert`) live in net.h/net.cpp, outside the repository, and follow the spec.

Fairness: `Spec` assumes weak fairness of each node's `Receive` and `SendMessages`. The message handler thread loops over every peer's receive queue, and the send thread calls `SendMessages` for every peer, forever. `DownloadSpec` is the same without the reset branch, which is off while both peers are in initial download.

### Evaluation note

The operators that run a whole handler in one step bind each intermediate result with `Let(v, Op(_))` and fold with `FoldLeftOnce`, so that TLC evaluates it once even when run with `-coverage` (which re-evaluates `LET` definitions at every use).

### Planned modules (later sittings)

None: what remains is listed in section 5.

## 3. Runs

| Run | Config | Expect | What it shows |
|---|---|---|---|
| `chain_honest` | `MCChainHonest.cfg` | pass | The tx index, the tip pointers in memory and on disk, and the pool stay consistent with the most-trusted valid chain. This holds in every arrival order of a ten-block tree, with loose transactions arriving in between. |
| `reorg_double_spend` | `MCChainDoubleSpend.cfg` | violation | A fork block re-spending an output spent below the fork becomes the tip through `Reorganize`. |
| `chain_crash_index` | `MCChainCrash.cfg` | violation | A stop between `AddToBlockIndex`'s blockindex commit and `SetBestChain` restarts with a valid block more trusted than the tip in the index. |
| `ingress_arrival_orders` | `MCIngress.cfg` | pass | Blocks of two proof-of-stake branches on one stake, a rejected block and an invalid block with a child arrive in every order: orphans wait only on a missing or invalid parent, the chain state stays consistent after multi-block drains, and every valid orphan is eventually indexed. |
| `ingress_orphan_stake_erase` | `MCIngressStake.cfg` | violation | Two orphans on one stake under different missing parents: draining one erases the stake while the other still waits (`OrphanStakesRecorded`). |
| `orphan_tx_pool` | `MCOrphanTx.cfg` | pass | Through drains, evictions, block connection and reorganization the two orphan maps agree and the pool holds no two spends of an output. |
| `retarget_chain` | `MCRetarget.cfg` | pass | On every chain of up to five PoW/PoS blocks with valid timestamps: every `nBits` decodes within its kind's limit; each kind retargets from its own blocks only; a spacing of exactly `nTargetSpacing` keeps the target; a later timestamp never gives a harder target while the spacing is non-negative; the checkpoint min-work guard admits every block carrying the demanded target (`MinWorkAdmitsValidBlocks`). |
| `retarget_minwork_day_gap` | `MCRetargetMinWork.cfg` | violation | After a day-long gap between two proof-of-work blocks, the next block carries the target `GetNextTargetRequired` demands, yet the min-work guard refuses it when it does not extend the tip. |
| `ismine_reference` | `MCIsMine.cfg` | pass | For every keystore reachable by adding keys and redeem scripts, `IsMine` agrees with the spec's definition on every script that is not a nested script hash. |
| `rewards_fees` | `MCRewardsFees.cfg` | pass | Blocks of either kind that claim nothing, the reward, or one unit more never raise the money supply past the spec's subsidies (`SupplyWithinSpecSchedule`). The stake subsidy never rises from one height to the next, across halving windows (`StakeSubsidyNonIncreasing`). No transaction, whatever its size and fee, and whatever the clock does, reaches the free-relay limiter (`FreeRelayLimiterNeverRuns`). No enforced proof-of-stake block is connected unless it pays a masternode the manager named, the developer their share, and the staker no more than the rest (`PaymentsMadeWhenEnforced`). Relay accepts only transactions that the spec's rules (sections 3 and 4.6) admit (`RelayAdmitsOnlySpecTxs`). |
| `block_sync` | `MCBlockSync.cfg` | pass | Two peers in initial block download, one holding six blocks and receiving new ones: every block a node requests with getdata eventually arrives, through the getblocks batches, the `hashContinue` continuation, orphan-root requests and the inventory filter (`AskedBlocksDelivered`). |
| `block_sync_reset_swallow` | `MCBlockSyncReset.cfg` | violation | A serving peer that has left initial download swallows every third message (the reset branch at 3593); when the swallowed one is a getdata, the requested blocks never arrive (`AskedBlocksDelivered`). |

`chain_honest` checks:
- `TxIndexMatchesMainChain` (spec 8.3);
- `MainChainValid`;
- `BestIsMaxValid` (spec 3);
- `ChainPointersConsistent`: `hashBestChain`, the `hashBestChain` key, `pnext` and the on-disk `hashNext` all spell out the path to `pindexBest`;
- `MempoolDisjointFromChain`;
- `BestChainRefined`: the refinement of `BestChain`.

Every one of these properties is broken by a mutant of the code it is about (see `PROJECT.json`).

### Bounds

`MCChainHonest` is a tree of ten blocks:
- a common prefix `C1`;
- branch A: `A2`, `A3`, `A4`;
- branch B: `B2`, `B3`, `B4`;
- `Y`, whose transaction spends its own block's coinbase;
- `X2`, which fails its reward checks.

The trusts make the tip cross between the branches in both directions, including a three-block reorganization. Both branches spend the same coinbase output. `tw` is confirmed on both branches, so it is disconnected and reconnected. Two loose transactions, `tl` and `tm`, reach the pool, and `tm` conflicts with `tw`. With a maturity of 1, a same-block coinbase spend is immature and a spend one block later is mature, so both sides of the boundary occur.

Probes confirmed that the following are reachable:
- reorganizations A→B and B→A;
- resurrection into the pool;
- the pool after a return to branch A.

The run has 207 distinct states. The violation configs are the smallest trees that reach each disagreement.

`MCIngress` has nine blocks: `C1`, two proof-of-stake blocks `A2` and `B2` on the same stake (their coinstakes spend the same output) with children `A3` and `B3`, a `Rejected` block `R`, and an invalid block `X` with a child `X3`. `B2` is more trusted than `A2` and `A3` more than `B3`, so the tip crosses branches, and the stake guard refuses the second of `A2`/`B2` unless an orphan child already waits on it — the case `ValidOrphanEventuallyIndexed` is about. 9521 distinct states.

`MCIngressStake` has two branches after `C1`, `PA - A3` and `PD - D3 - D4`, with `A3` and `D3` on one stake. Seven blocks are the fewest that put two orphans on one stake under different parents with the child exception in play; TLC finds the violation at depth 6.

`MCOrphanTx` has a four-block fork (`A2` confirms `p`, `B2` out-trusts it, so `p` can be resurrected) and loose txs: `p`; `o1` and `o2` both spending `p:1`; `o3` spending `o1:1`; `q`; and `big`, an oversized spend of `p:1`. `MaxOrphans = 2` while up to four orphans can wait, so eviction happens; `o1`/`o2` drained from one parent exercise the in-drain conflict; `o3` exercises the transitive drain. 370 distinct states.

`MCRetarget` uses `nTargetSpacing = 79` s and `nTargetTimespan = 1200` s, which is the code's interval of 15. `FutureDrift` is 15 s. Block-time steps of -10, 0, 30, 79 and 200 s cover:
- a back-dated block that the window allows;
- equal timestamps;
- a faster, an on-time and a slower block.

`MCRetargetMinWork` grows proof-of-work chains of up to fourteen blocks, each one second or one day after its parent. Eleven one-second spacings harden the target below a quarter of the limit. A day-long gap then lets the following block's target ease past four times the checkpoint's. TLC finds the violation at depth 14, after 6039 distinct states.

Chains reach five blocks of any kind mix, so each kind gets past its first two blocks, and the retarget formula itself runs. The PoW limit is `2^29 - 1` and the PoS limit `2^28 - 1`. A four-byte target therefore loses its low byte in the compact encoding, as 256-bit targets do. The run has 3427 distinct states.

`MCIsMine` has three keys and nine scripts:
- a pubkey and two pubkey-hash scripts;
- a 1-of-2 multisig;
- a multisig listing one key twice;
- script hashes over the multisig and over a key hash;
- a script hash over a script hash;
- a null-data script.

Every subset of keys and scripts is reachable: 4096 distinct states.

`MCRewardsFees` starts from genesis (supply 0) and from tips with supply 1000 at heights 13 498, 17 899, 999 998, 1 099 998, 1 199 998, 1 999 998 and 63 999 998. With three blocks these cross:
- the start of the halving schedule;
- the reward checkpoint;
- the masternode and the developer enforcement heights (`DEVELOPER_PAYMENT_V2 = 1`, a tenth; `StakeIn = 100`; two masternodes, so a payee can be right or wrong);
- the first and second halving;
- the 64th halving, where the shift stops.

Blocks give up 0 or 3 in fees. `COIN = 10`, `MIN_TX_FEE = 5`, `MIN_RELAY_TX_FEE = 1` and `MAX_BLOCK_SIZE_GEN = 500 000`. Well-formed standard transactions (one output of 10, or a dust output of 1 beside an OP_RETURN, with `CENT = 10`) of 300, 249 000 and 499 000 bytes paying 0, 1, 5 or 500 reach every branch of `GetMinFee`: the base fee, the scaled fee, and `MAX_MONEY` at a full block. Beside them, one transaction for each defect the opening checks look for pays 500: no inputs, a coinbase, a repeated prevout, a null prevout, a bad scriptSig, no outputs, a negative output after a positive one (the running total alone does not catch it), a total of `MAX_MONEY + 1`, an output over `MAX_MONEY`, a coinstake, an empty output in a user transaction, a zero output, a nonstandard script, two OP_RETURNs, and a size over `MAX_BLOCK_SIZE`. The clock moves by ±1 within 1..3, and the mock time is 0 or 2, so the limiter would see negative, zero and positive intervals. 24 648 distinct states.

`MCChainCrash` is the honest tree of `MCChainHonest` with `SpecCrash`.

`MCBlockSync` has a server at height 5 and a client at genesis, with `Top = 6` (one block arrives later through `AcceptNewTip`), `LastPoW = 4` and `NLimit = 2`, so the download takes several batches and each batch ends on a `hashContinue`. `InvKnownMax = 3` is the smallest mruset that evicts during the download, which is what lets a block be announced twice and reach `ProcessDuplicateBlock`. 2395 distinct states. `MCBlockSyncReset` has `ResetInterval = 3` and the server out of initial download; 4953 distinct states before the violation.

Liveness is checked in two runs:
- `ingress_arrival_orders`, under the delivery fairness described for `Ingress`;
- `block_sync`, under the fairness of the message and send threads described for `BlockSync`.

`CHECK_DEADLOCK FALSE` is set because the supply of blocks and transactions is finite: once all are processed nothing is enabled, while the node itself never stops.

## 4. Findings

- **Reorganize skips the double-spend check** (main.cpp 1563-1578). `Reorganize` connects with `reorganize=true`, which becomes `skipTxCheck`. BIP30 is skipped and an input that is already spent is tolerated. A fork block that re-spends an old output is refused as a direct extension but accepted through a reorganization.
- **A stop inside `AddToBlockIndex` leaves a better block unused** (2294-2306). The blockindex record is committed in a transaction of its own, and only then does `nChainTrust > nBestChainTrust` lead to `SetBestChain`. After a restart the tip comes from `hashBestChain`, and nothing compares it with the indexed blocks again. This is against spec section 3, which says `pindexBest` has maximal chain trust among valid nodes. The block becomes best only when a descendant arrives. That descendant goes through `Reorganize` plus `vpindexSecondary`, so the `fJustCheck` disagreement below then leaves its transactions out of the tx index. With `TxIndexMatchesMainChain`, TLC reaches that state from the honest tree in three steps.
- **The min-work guard refuses valid blocks after a long gap** (969, 2619). `ComputeMaxBits` ("Maximum 200% adjustment per day") allows the checkpoint's target times two, doubled again per started day since the checkpoint. `GetNextTargetRequired` caps only a negative spacing. After a day-long gap between two blocks of a kind, the next target eases by `((I-1)T + 2*86400) / ((I+1)T)`, about 137 times, up to the limit. If the checkpoint is the late block, a block after it that arrives as an orphan or on a fork is refused with the target it must carry, and its sender gets 100 misbehaviour points. This contradicts the comment at line 998: "minimum amount of work that could possibly be required".
- **The free-relay limiter can never run** (591-613). With `fLimitFree` a transaction must pay `GetMinFee(1000, GMF_RELAY, nSize)`, which starts at `(1 + nBytes/1000) * MIN_RELAY_TX_FEE`. The limiter's guard `nFees < MIN_RELAY_TX_FEE` is then never true, and the dust clause of `GetMinFee` is dead too. Spec section 4.6 and its end-to-end scenario 5 (section 8) expect free transactions to be admitted until `-limitfreerelay` refuses them; the code refuses all of them on the fee check. `FreeRelayLimiterNeverRuns` holds in `rewards_fees`, and its mutant (a first thousand bytes without fee) reaches the limiter.

- **The orphan drain forgets a stake another orphan holds** (2718). The drain erases each drained orphan's stake from `setStakeSeenOrphan`. A second orphan on the same stake, under another missing parent, is admitted by the `mapOrphanBlocksByPrev` exception when its own child arrived first. Once the first orphan's parent arrives, the second waits with its stake no longer in `setStakeSeenOrphan`. Spec 4 step 5 says a stashed orphan's stake is recorded in the duplicate set. `OrphanStakesRecorded` is violated in six steps. In that trace the drained orphan is accepted, so its stake is in `setStakeSeen` and the guard at 2576 still refuses further childless blocks on it. The flood guard would be open only if the drained orphan failed `AcceptBlock` in the drain, and the run does not reach that case.

- **The reset branch swallows requests** (3593). A static counter shared by all peers counts every message; outside initial download every `PUSHGETBLOCKS_RESET_INTERVAL`-th message is dropped before its handler runs, whatever its command. When it is a getdata, the blocks recorded in `mapAlreadyAskedFor` never arrive, and the inventory filter keeps the peer from announcing them again. `AskedBlocksDelivered` is violated under `MCBlockSyncReset.cfg`.

Disagreements seen while modelling, for which no run is kept:
- **`hashBestChain = hash` after a failed postponed reconnect** (2098). Shown with `BestHashIsTip` on `MCChainFlaky` (the run was retired for the block-download runs). The tip hash names a block that was never connected. The next block's direct-extension test (2025) and the relay in `AcceptBlock` (2516) act on it.
- **The wallet is synced with the parent, not the orphan** (3968). Shown with `WalletSeesRelayedTxs` on `OrphanTx` (the run was retired for the block-download runs). `SyncWithWallets(tx, ...)` in the orphan drain passes the message's tx.
- **Block download stalls after the last proof-of-work block** (3306). Once the client holds `LastPoW`, the inv `ProcessGetData` sends after a continuation block names a block the client already has, so `ProcessInv` asks for the next batch from it; the invs of that batch were already announced and `setInventoryKnown` filters them. Download stops near `LastPoW + NLimit`, and an orphan relayed in the meantime waits: `OrphansEventuallyConnected` is violated under `MCBlockSync.cfg`. In a real network new tips relayed by other peers restart the download, so no run is kept.
- **Postponed blocks are connected with `fJustCheck=true`** (2080 → 1987 → 1826). Their transactions never reach the tx index and the parent's on-disk `hashNext` is not written, yet they become the tip. Later blocks that spend their outputs fail with "prev tx not found". Their inputs remain spendable a second time. Spec sections 8.3 and 9 say the tx index matches the main chain. Shown with `TxIndexMatchesMainChain` on `MCChainFlaky` (the run was retired for the orphan-stake run; `chain_honest` and `ingress_arrival_orders` still check the invariant where no block is postponed).
- **Orphans of a block whose `SetBestChain` failed are stranded** (2697, 2714). `AcceptBlock` returns false although the block is indexed, so the drain never starts from it, and a re-sent orphan is refused as a duplicate. Seen with `OrphansWaitOnMissingOrInvalidParent` on a four-block chain whose middle block's payee check fails (`Flaky`). `ingress_arrival_orders` checks the property without failures.
- **`IsMine` claims nested script hashes** (ismine.cpp 64-69). The `TX_SCRIPTHASH` case recurses into the stored redeem script with no depth limit. A script hash over a script hash over one of the wallet's keys is therefore counted as the wallet's. Spec section 4 forbids nested P2SH in redemption, and such an output can be spent by anyone who knows the inner script. `IsMineMatchesReference` checks every other script.
- **The spec's supply invariant counts fees twice** (spec section 8, invariant 2). It states that the sum of `nMint` equals `nMoneySupply`. `ConnectBlock` sets `nMint = nValueOut - nValueIn + nFees`, while the supply grows by `nValueOut - nValueIn` only. The two differ by the fees of every block.
- **A chain started from genesis needs initial download** (1610-1626). The genesis block's supply is 0, since `SetBestChain` takes it without `ConnectBlock`. The next block is refused with "Money supply was calculated to zero" unless `IsInitialBlockDownload()` holds. The spec's end-to-end scenario 1 (section 8) feeds blocks 1..10 on genesis without mentioning this.
- **No `removeConflicts` on direct extension** (2003). A pool transaction that conflicts with the new block stays in the pool. `Reorganize` does call it, at 1974.
- **`mapOrphanTransactionsByPrev` leaks keys** (3956). `operator[]` inserts an empty set for every accepted tx, and nothing removes it.
- **The destination overload of `IsMine` needs no keys for a script id** (ismine.cpp 37). `HaveCScript` alone makes an address "mine". The script form also needs the keys the redeem script names.
- **A negative spacing is clamped to `nTargetSpacing`** (1024). A block back-dated within `FutureDrift` leaves its kind's next target as easy as an on-time block would, while a block at the same second tightens it. Spec section 8 states that the target is monotone in the spacing. `RetargetMonotoneForward` checks the law where the spacing is non-negative.

## 5. Not modelled, and why

- **The `tx` handler's DoS scoring and its transaction inventory bookkeeping.** They change no chain or pool state; the block inventory bookkeeping is in `BlockSync`.
- **P2P commands other than block download** (version handshake details, addr, ping, alert, tx inventory, masternode messages) and the DoS scoring. `BlockSync` keeps the getblocks/inv/getdata/block exchange only.
- **Wallet notification, block-file I/O and the Qt options model.** These have no chain-state transitions (see `PROJECT.json` components).
- **Script evaluation, signature checks, the stake kernel and checkpoints.** Their code is outside src/. Their outcomes are the `BadBlock`/`Flaky` sets.
- **Amounts in `ChainState`.** The chain model keeps no values; the reward checks are the `BadBlock` set there. `RewardsFees` models the amounts of blocks on one chain, without reorganization.
- **The masternode payments manager and the sporks.** Their code is outside src/. `RewardsFees` takes their answers as inputs of each block.
- **`insecure_rand` and `FastRandomContext`** (random.h). No code under src/ calls them, and `seed_insecure_rand` is in random.cpp, which is not in the repository. Their products (`36969 * 65535 + 65535`) also exceed TLC's 32-bit integers.
- **`GetTimeMillis`, `GetTimeMicros`, `MilliSleep` and date formatting** (utiltime.cpp). They wrap the operating system and keep no state.
- **`InvalidChainFound`'s `nBestInvalidTrust`.** It only feeds warnings.
- **Db write failures and `ReadFromDisk` failures** in the secondary loop. The latter break without lowering `pindexNew`.
