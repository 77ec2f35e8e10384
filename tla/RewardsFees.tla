----------------------------- MODULE RewardsFees -----------------------------
(***************************************************************************)
(* Rewards and fees of src/src/main.cpp.                                   *)
(*                                                                         *)
(* Minting: the money-supply bookkeeping and reward checks of ConnectBlock *)
(* for a block that extends the tip, with the subsidy schedules            *)
(* GetProofOfWorkReward and GetProofOfStakeReward.  A block is abstracted  *)
(* to its kind, the fees its ordinary transactions give up (nFees) and     *)
(* what its coinbase (proof of work) or coinstake (proof of stake) creates *)
(* the outputs of its coinbase (proof of work) or coinstake (proof of     *)
(* stake): an amount and a payee each.  The masternode and developer       *)
(* payment checks read the masternode payments manager and the sporks;    *)
(* what they answer is the block's pm record, any answer they can give.    *)
(*                                                                         *)
(* Relay: AcceptableInputs for a transaction of a given shape (inputs,    *)
(* outputs, size, value in): CheckTransaction, the coinbase / coinstake    *)
(* refusal, IsStandard, then GetMinFee, the fee checks and the free-relay  *)
(* limiter, with GetTime / SetMockTime of src/src/utiltime.cpp, the clock  *)
(* the limiter reads.  The two halves share no state.                      *)
(*                                                                         *)
(* Amounts are integers in units of 1/COIN coin with COIN a constant: the  *)
(* real 10^8 does not fit TLC's 32-bit integers (the proof-of-stake        *)
(* interpolation multiplies 40 * COIN by up to 10^6).                      *)
(***************************************************************************)
EXTENDS Integers, FiniteSets, SequencesExt

CONSTANTS
    COIN,               \* amount units per coin
    MAX_MONEY,
    StartTips,          \* [height, supply] of tips the node can start from
    BlockFees,          \* nFees a block's ordinary transactions can give up
    MaxBlocks,          \* bound on the blocks connected in one behaviour
    StakeIn,            \* the stake a coinstake spends
    Masternodes,        \* payee scripts of masternodes
    DEVELOPER_PAYMENT_V2,                   \* developer share, per COIN
    ENFORCE_MN_PAYMENT_HEIGHT, ENFORCE_DEV_PAYMENT_HEIGHT,
    MIN_TX_FEE, MIN_RELAY_TX_FEE, MAX_BLOCK_SIZE_GEN, LimitFreeRelay,
    MAX_BLOCK_SIZE, CENT,
    RelayTxs,           \* [vin, vout, nSize, nValueIn] of relayed transactions
    NullOut,            \* the null prevout
    ClockSteps,         \* how far the wall clock moves in one step (< 0: set back)
    MockTimes,          \* arguments of SetMockTime (0 turns mocking off)
    MaxTime             \* bound on the wall clock

VARIABLES
    nHeight, nMoneySupply, nMint,   \* of the tip's CBlockIndex
    nConnected,                     \* blocks connected so far (bounded)
    issued, scheduled,              \* ghost: supply created, and the spec's
                                    \* subsidies, past the reward checkpoint
    unpaid,                         \* ghost: heights of enforced blocks
                                    \* connected without the spec's payments
    dFreeCount, nLastTime,          \* statics of the free-relay limiter
    nMockTime, wallClock,           \* utiltime: mocked time, time(NULL)
    lastRelay,                      \* what AcceptableInputs last returned
    admittedOffSpec                 \* ghost: some transaction the spec's
                                    \* relay rules refuse was accepted

chainVars == <<nHeight, nMoneySupply, nMint, nConnected, issued, scheduled, unpaid>>
relayVars == <<dFreeCount, nLastTime, nMockTime, wallClock, lastRelay, admittedOffSpec>>
vars == <<chainVars, relayVars>>

-----------------------------------------------------------------------------
(* Subsidy schedules                                                       *)

g_RewardHalvingPeriod == 1000000
RewardCheckHeight == 17901     \* "Check coinbase reward after hardcoded checkpoint"

\* x >> n for 0 <= x < 2^31 (all the amounts shifted here)
ShiftRight(x, n) == IF n >= 31 THEN 0 ELSE x \div 2^n

\* the first <<bound, coins>> whose bound exceeds h, or 0 past the last
Scheduled(sched, h, dflt) ==
    LET s == SelectSeq(sched, LAMBDA e : h < e[1]) IN IF s = <<>> THEN dflt ELSE Head(s)[2]

PoWSchedule == << <<120, 0>>, <<950, 750>>, <<1400, 550>>, <<1900, 425>>,
                  <<2400, 325>>, <<2850, 251>>, <<3500, 190>>, <<4000, 105>> >>
PoSSchedule == << <<5000, 30>>, <<7000, 45>>, <<7250, 190>>, <<8500, 80>>,
                  <<10000, 15>>, <<13500, 30>> >>

\* mainnet only (fTestNet is false)
GetProofOfWorkReward(nFees, h) == Scheduled(PoWSchedule, h, 0) * COIN + nFees

\* mutant: the interpolation over the whole period instead of half of it
GetProofOfStakeRewardFullSlope(nCoinAge, nFees, h) ==
    IF h < 13500 THEN Scheduled(PoSSchedule, h, 0) * COIN + nFees
    ELSE LET halvings == h \div g_RewardHalvingPeriod
             nSubsidy == IF halvings >= 64 THEN 0 ELSE ShiftRight(40 * COIN, halvings)
         IN nSubsidy - (nSubsidy * (h % g_RewardHalvingPeriod)) \div g_RewardHalvingPeriod + nFees

\* nCoinAge is a parameter the code never reads
GetProofOfStakeReward(nCoinAge, nFees, h) ==
    IF h < 13500 THEN Scheduled(PoSSchedule, h, 0) * COIN + nFees
    ELSE LET halvings == h \div g_RewardHalvingPeriod
             nSubsidy == IF halvings >= 64 THEN 0 ELSE ShiftRight(40 * COIN, halvings)
         IN nSubsidy - (nSubsidy * (h % g_RewardHalvingPeriod)) \div (2 * g_RewardHalvingPeriod) + nFees

-----------------------------------------------------------------------------
(* ConnectBlock                                                            *)

Kinds == {"pow", "pos"}

NoPayee == "none"           \* the empty CScript

\* what the coinbase (pow) or coinstake (pos) may create at height h
Allowed(k, nFees, h) ==
    IF k = "pow" THEN GetProofOfWorkReward(nFees, h) ELSE GetProofOfStakeReward(0, nFees, h)

\* the reward test of ConnectBlock for a block at height h
RewardOK(k, nFees, claim, h) == ~(h > RewardCheckHeight /\ claim > Allowed(k, nFees, h))

\* GetValueOut of the coinbase or coinstake
ValueOut(vout) == FoldLeft(LAMBDA acc, o : acc + o.nValue, 0, vout)

\* what block b's coinbase or coinstake creates: its nValueOut - nValueIn
\* (the coinstake spends the stake StakeIn)
Claim(b) == ValueOut(b.vout) - (IF b.kind = "pos" THEN StakeIn ELSE 0)

GetDeveloperPayment(nBlockValue) == (nBlockValue * DEVELOPER_PAYMENT_V2) \div COIN

GetMasternodePayment(nBlockHeight, blockValue) ==
    ((blockValue - GetDeveloperPayment(blockValue)) * 66) \div 100

\* mutant: the payee is never compared with the expected one
MnPaymentOKAnyPayee(b, h, V) ==
    LET paying         == SelectSeq(b.vout, LAMBDA o : o.nValue = GetMasternodePayment(h, V))
        fMnPaymentMade == paying # <<>>
    IN /\ fMnPaymentMade \/ h < ENFORCE_MN_PAYMENT_HEIGHT
       /\ b.pm.fCheckPayee /\ b.pm.fEnforce => fMnPaymentMade

\* the masternode check for reward V: the last coinstake output paying
\* nRequiredMnPmt names blockPayee; with the list synced and the block
\* young (fCheckPayee) it must be the payee the payments manager expects,
\* asked again after ProcessBlock on a mismatch (recomputed), when spork 2
\* is on and postponedBlocks is under spork 12 (fEnforce)
MnPaymentOK(b, h, V) ==
    LET paying         == SelectSeq(b.vout, LAMBDA o : o.nValue = GetMasternodePayment(h, V))
        fMnPaymentMade == paying # <<>>
        blockPayee     == IF fMnPaymentMade THEN paying[Len(paying)].payee ELSE NoPayee
        fPaidCorrectMn == /\ b.pm.expected # NoPayee
                          /\ blockPayee \in {b.pm.expected, b.pm.recomputed}
    IN /\ fMnPaymentMade \/ h < ENFORCE_MN_PAYMENT_HEIGHT
       /\ b.pm.fCheckPayee /\ b.pm.fEnforce => fMnPaymentMade /\ fPaidCorrectMn

\* some coinstake output pays the developer script its share of V
DevPaymentOK(b, h, V) ==
    \/ \E i \in DOMAIN b.vout : b.vout[i] = [nValue |-> GetDeveloperPayment(V), payee |-> "dev"]
    \/ h < ENFORCE_DEV_PAYMENT_HEIGHT

\* the payment checks, for a proof-of-stake block outside initial download
PaymentsOK(b, h, fIBD) ==
    b.kind = "pos" /\ ~fIBD =>
        LET V == GetProofOfStakeReward(0, b.nFees, h)
        IN MnPaymentOK(b, h, V) /\ DevPaymentOK(b, h, V)

\* the subsidy spec 4.9 gives past the checkpoint: none for proof of work
\* ("0 above" 4000), for proof of stake 40 COIN >> (height / 1 000 000),
\* less the linear interpolation within the halving window
SpecSubsidy(k, h) ==
    IF k = "pow" THEN 0
    ELSE LET hv == h \div 1000000
             s  == IF hv >= 64 THEN 0 ELSE ShiftRight(40 * COIN, hv)
         IN s - (s * (h % 1000000)) \div (2 * 1000000)

\* spec 4.10: at height h past both enforcement heights the coinstake pays
\* one of the payees the payments manager named its share of V, the
\* developer script its share, and the staker keeps no more than the rest
PaidAsSpecified(b, h) ==
    LET V    == GetProofOfStakeReward(0, b.nFees, h)
        dev  == GetDeveloperPayment(V)
        mn   == GetMasternodePayment(h, V)
        take == ValueOut(SelectSeq(b.vout, LAMBDA o : o.payee = "staker")) - StakeIn
    IN /\ \E i \in DOMAIN b.vout : b.vout[i].nValue = mn /\ b.vout[i].payee \in {b.pm.expected, b.pm.recomputed}
       /\ \E i \in DOMAIN b.vout : b.vout[i] = [nValue |-> dev, payee |-> "dev"]
       /\ take <= V - mn - dev

\* ConnectBlock for block b on the tip, fIBD the value
\* IsInitialBlockDownload() returns and hReward the height the reward is
\* checked at.  b's nValueOut - nValueIn is Claim(b) - b.nFees
\* (CalculateBlockAmounts: the ordinary transactions give up their fees,
\* the coinbase or coinstake creates Claim(b); a proof-of-stake coinbase is
\* empty by CheckBlock), and nMint = nValueOut - nValueIn + nFees.  A zero
\* money supply on the parent is an error outside initial download; a
\* failing check leaves the index as it was.
Connect(b, fIBD, hReward) ==
    LET h == nHeight + 1
        claim == Claim(b)
    IN
    /\ nMoneySupply # 0 \/ fIBD
    /\ RewardOK(b.kind, b.nFees, claim, hReward)
    /\ PaymentsOK(b, h, fIBD)
    /\ nHeight' = h
    /\ nMint' = claim
    /\ nMoneySupply' = nMoneySupply + claim - b.nFees
    /\ nConnected' = nConnected + 1
    /\ issued' = IF h > RewardCheckHeight THEN issued + claim - b.nFees ELSE issued
    /\ scheduled' = IF h > RewardCheckHeight THEN scheduled + SpecSubsidy(b.kind, h) ELSE scheduled
    /\ unpaid' = IF /\ b.kind = "pos" /\ ~fIBD /\ b.pm.fCheckPayee /\ b.pm.fEnforce
                    /\ h >= ENFORCE_MN_PAYMENT_HEIGHT /\ h >= ENFORCE_DEV_PAYMENT_HEIGHT
                    /\ ~PaidAsSpecified(b, h)
                 THEN unpaid \cup {h} ELSE unpaid
    /\ UNCHANGED relayVars

\* mutant: the reward checked at the parent's height
ConnectBlockParentHeight(b, fIBD) == Connect(b, fIBD, nHeight)

\* CBlock::ConnectBlock(txdb, pindex) for a block whose parent is the tip
ConnectBlock(b, fIBD) == Connect(b, fIBD, nHeight + 1)

\* the coinbase outputs a miner can write at height h: nothing, the reward,
\* one unit more
CoinbaseVouts(nFees, h) ==
    {<<[nValue |-> c, payee |-> "miner"]>> : c \in {0, Allowed("pow", nFees, h), Allowed("pow", nFees, h) + 1}}

\* the coinstake outputs a staker can write at height h: the stake back
\* alone; the split of the reward between staker, a masternode (or the
\* staker itself) and the developer; that split with one unit more; and
\* splits that leave out the developer or the masternode
CoinstakeVouts(nFees, h) ==
    LET V   == Allowed("pos", nFees, h)
        dev == GetDeveloperPayment(V)
        mn  == GetMasternodePayment(h, V)
        sp  == V - mn - dev
        st(x) == [nValue |-> StakeIn + x, payee |-> "staker"]
        to(v, p) == [nValue |-> v, payee |-> p]
    IN {<<st(0)>>, <<st(sp + mn), to(dev, "dev")>>}
       \cup {<<st(sp), to(mn, m), to(dev, "dev")>> : m \in Masternodes \cup {"staker"}}
       \cup {<<st(sp + 1), to(mn, m), to(dev, "dev")>> : m \in Masternodes}
       \cup {<<st(sp + dev), to(mn, m)>> : m \in Masternodes}

\* what the masternode payments manager and the sporks answer
PaymentAnswers ==
    {[fCheckPayee |-> FALSE, fEnforce |-> e, expected |-> NoPayee, recomputed |-> NoPayee] : e \in BOOLEAN}
    \cup {[fCheckPayee |-> TRUE, fEnforce |-> a[1], expected |-> a[2], recomputed |-> a[3]] :
            a \in {t \in BOOLEAN \X (Masternodes \cup {NoPayee}) \X (Masternodes \cup {NoPayee}) :
                      t[3] \in Masternodes \cup {t[2]}}}

\* a block someone can build on the tip: its fees and a coinstake's stake
\* are coins that exist
ConnectNext ==
    /\ nConnected < MaxBlocks
    /\ \E k \in Kinds, nFees \in BlockFees, fIBD \in BOOLEAN :
         /\ nFees <= nMoneySupply
         /\ k = "pos" => nMoneySupply > 0
         /\ \E vout \in IF k = "pow" THEN CoinbaseVouts(nFees, nHeight + 1) ELSE CoinstakeVouts(nFees, nHeight + 1),
               pm \in IF k = "pos" /\ ~fIBD THEN PaymentAnswers ELSE {CHOOSE a \in PaymentAnswers : ~a.fCheckPayee /\ ~a.fEnforce} :
               ConnectBlock([kind |-> k, nFees |-> nFees, vout |-> vout, pm |-> pm], fIBD)

-----------------------------------------------------------------------------
(* Relay fees and the clock                                                *)

GMF_BLOCK == "block"
GMF_RELAY == "relay"

MoneyRange(v) == 0 <= v /\ v <= MAX_MONEY

\* mutant: no base fee below the first thousand bytes
GetMinFeeFreeSmall(fDust, nBlockSize, mode, nBytes) ==
    LET nBaseFee == IF mode = GMF_RELAY THEN MIN_RELAY_TX_FEE ELSE MIN_TX_FEE
        nNewBlockSize == nBlockSize + nBytes
        fee0 == (nBytes \div 1000) * nBaseFee
        fee1 == IF fee0 < nBaseFee /\ fDust THEN nBaseFee ELSE fee0
        fee2 == fee1 * (MAX_BLOCK_SIZE_GEN \div (MAX_BLOCK_SIZE_GEN - nNewBlockSize))
    IN IF nBlockSize # 1 /\ nNewBlockSize >= MAX_BLOCK_SIZE_GEN \div 2
       THEN IF nNewBlockSize >= MAX_BLOCK_SIZE_GEN THEN MAX_MONEY
            ELSE IF MoneyRange(fee2) THEN fee2 ELSE MAX_MONEY
       ELSE IF MoneyRange(fee1) THEN fee1 ELSE MAX_MONEY

\* CTransaction::GetMinFee; fDust: some output is below CENT.  The price
\* rises as the block fills, to MAX_MONEY (refusal) once it would be full.
GetMinFee(fDust, nBlockSize, mode, nBytes) ==
    LET nBaseFee == IF mode = GMF_RELAY THEN MIN_RELAY_TX_FEE ELSE MIN_TX_FEE
        nNewBlockSize == nBlockSize + nBytes
        fee0 == (1 + nBytes \div 1000) * nBaseFee
        fee1 == IF fee0 < nBaseFee /\ fDust THEN nBaseFee ELSE fee0
        fee2 == fee1 * (MAX_BLOCK_SIZE_GEN \div (MAX_BLOCK_SIZE_GEN - nNewBlockSize))
    IN IF nBlockSize # 1 /\ nNewBlockSize >= MAX_BLOCK_SIZE_GEN \div 2
       THEN IF nNewBlockSize >= MAX_BLOCK_SIZE_GEN THEN MAX_MONEY
            ELSE IF MoneyRange(fee2) THEN fee2 ELSE MAX_MONEY
       ELSE IF MoneyRange(fee1) THEN fee1 ELSE MAX_MONEY

\* utiltime GetTime(): the mocked time when one is set, else time(NULL)
GetTime == IF nMockTime # 0 THEN nMockTime ELSE wallClock

\* dFreeCount * pow(1 - 1/600, dt), a second at a time, in whole bytes;
\* a negative dt makes the power grow
RECURSIVE Decay(_, _)
Decay(c, dt) ==
    IF dt = 0 THEN c
    ELSE IF dt > 0 THEN Decay((c * 599) \div 600, dt - 1)
    ELSE Decay((c * 600) \div 599, dt + 1)

\* main.h (spec 3): IsEmpty, IsCoinBase, IsCoinStake
IsEmptyOut(o) == o.nValue = 0 /\ o.script = "empty"
IsCoinBase(tx) == Len(tx.vin) = 1 /\ tx.vin[1].prevout = NullOut
IsCoinStake(tx) ==
    /\ Len(tx.vin) >= 1 /\ Len(tx.vout) >= 2
    /\ IsEmptyOut(tx.vout[1]) /\ tx.vout[2].nValue > 0

\* mutant: the negative-value test dropped from the output loop
OutputsOKNoNegative(tx, i, nValueOut) ==
    LET o == tx.vout[i]
    IN /\ ~(IsEmptyOut(o) /\ ~IsCoinBase(tx) /\ ~IsCoinStake(tx))
       /\ o.nValue <= MAX_MONEY
       /\ MoneyRange(nValueOut + o.nValue)

\* one pass of CheckTransaction's output loop, nValueOut the running total
\* of the outputs before vout[i] (int64: with every output and the total
\* before it at most MAX_MONEY the sum cannot wrap)
OutputsOK(tx, i, nValueOut) ==
    LET o == tx.vout[i]
    IN /\ ~(IsEmptyOut(o) /\ ~IsCoinBase(tx) /\ ~IsCoinStake(tx))
       /\ o.nValue >= 0
       /\ o.nValue <= MAX_MONEY
       /\ MoneyRange(nValueOut + o.nValue)

\* CTransaction::CheckTransaction: the loop stops at the first output that
\* fails; the coinbase scriptSig size check is left out (a coinbase is
\* refused as a loose transaction right after)
CheckTransaction(tx) ==
    /\ tx.vin # <<>>
    /\ tx.vout # <<>>
    /\ tx.nSize <= MAX_BLOCK_SIZE
    /\ \A i \in DOMAIN tx.vout : OutputsOK(tx, i, ValueOut(SubSeq(tx.vout, 1, i - 1)))
    /\ IsInjective([i \in DOMAIN tx.vin |-> tx.vin[i].prevout])
    /\ ~IsCoinBase(tx) => \A i \in DOMAIN tx.vin : tx.vin[i].prevout # NullOut

\* CTransaction::IsStandard: sigOK stands for a scriptSig of at most 500
\* bytes, push-only with canonical pushes; "std" and "nulldata" are the
\* scripts ::IsStandard accepts; one OP_RETURN output at most, none of value 0
IsStandard(tx) ==
    /\ \A i \in DOMAIN tx.vin : tx.vin[i].sigOK
    /\ \A i \in DOMAIN tx.vout : tx.vout[i].script \in {"std", "nulldata"} /\ tx.vout[i].nValue # 0
    /\ Cardinality({i \in DOMAIN tx.vout : tx.vout[i].script = "nulldata"}) <= 1

\* the opening checks of AcceptableInputs: CheckTransaction, no coinbase
\* or coinstake as a loose transaction, IsStandard (mainnet)
LooseTxOK(tx) ==
    CheckTransaction(tx) /\ ~IsCoinBase(tx) /\ ~IsCoinStake(tx) /\ IsStandard(tx)

\* spec 3 and 4.6: what the pool may admit: CheckTransaction's invariants,
\* neither coinbase nor coinstake, standard, and no more out than in
SpecRelayable(tx) ==
    LET prevouts == [i \in DOMAIN tx.vin |-> tx.vin[i].prevout]
        values   == {tx.vout[i].nValue : i \in DOMAIN tx.vout}
    IN /\ tx.vin # <<>> /\ tx.vout # <<>> /\ tx.nSize <= MAX_BLOCK_SIZE
       /\ values \subseteq 1..MAX_MONEY /\ ValueOut(tx.vout) \in 0..MAX_MONEY
       /\ IsInjective(prevouts) /\ NullOut \notin Range(prevouts)
       /\ \A i \in DOMAIN tx.vin : tx.vin[i].sigOK
       /\ \A i \in DOMAIN tx.vout : tx.vout[i].script \in {"std", "nulldata"}
       /\ Cardinality({i \in DOMAIN tx.vout : tx.vout[i].script = "nulldata"}) <= 1
       /\ ValueOut(tx.vout) <= tx.nValueIn

\* AcceptableInputs returns false on one of its opening checks
RefuseLooseTx(tx) ==
    /\ ~LooseTxOK(tx)
    /\ lastRelay' = "refused"
    /\ UNCHANGED <<chainVars, dFreeCount, nLastTime, nMockTime, wallClock, admittedOffSpec>>

\* the fee part of AcceptableInputs for a transaction past the opening
\* checks whose inputs are found (FetchInputs): nFees = GetValueIn -
\* GetValueOut.  It refuses a fee below GetMinFee(1000, GMF_RELAY,
\* nSize), or below MIN_TX_FEE when fLimitFree is off; a transaction
\* paying less than MIN_RELAY_TX_FEE goes through the free-relay limiter,
\* which reads the clock, decays and stamps its count, and refuses once
\* the count is over -limitfreerelay thousand bytes a minute.
FeeChecks(tx, fLimitFree) ==
    LET nSize == tx.nSize
        nFees == tx.nValueIn - ValueOut(tx.vout)
        fDust == \E i \in DOMAIN tx.vout : tx.vout[i].nValue < CENT
        txMinFee == GetMinFee(fDust, 1000, GMF_RELAY, nSize)
        nNow == GetTime
        decayed == Decay(dFreeCount, nNow - nLastTime)
    IN
    /\ LooseTxOK(tx)
    /\ IF (fLimitFree /\ nFees < txMinFee) \/ (~fLimitFree /\ nFees < MIN_TX_FEE)
       THEN /\ lastRelay' = "low fee"
            /\ UNCHANGED <<dFreeCount, nLastTime>>
       ELSE IF fLimitFree /\ nFees < MIN_RELAY_TX_FEE
       THEN /\ nLastTime' = nNow
            /\ IF decayed > LimitFreeRelay * 10 * 1000
               THEN dFreeCount' = decayed /\ lastRelay' = "rate limited"
               ELSE dFreeCount' = decayed + nSize /\ lastRelay' = "accepted"
       ELSE /\ lastRelay' = "accepted"
            /\ UNCHANGED <<dFreeCount, nLastTime>>
    /\ admittedOffSpec' = (admittedOffSpec \/ (lastRelay' = "accepted" /\ ~SpecRelayable(tx)))
    /\ UNCHANGED <<chainVars, nMockTime, wallClock>>

\* AcceptableInputs(pool, tx, fLimitFree), as far as the transaction's own
\* shape and fees go (pool and index lookups are those of OrphanTx)
AcceptableInputs(tx, fLimitFree) == RefuseLooseTx(tx) \/ FeeChecks(tx, fLimitFree)

RelayNext == \E tx \in RelayTxs, fLimitFree \in BOOLEAN : AcceptableInputs(tx, fLimitFree)

\* SetMockTime(nMockTimeIn)
SetMockTime(t) ==
    /\ nMockTime' = t
    /\ UNCHANGED <<chainVars, dFreeCount, nLastTime, wallClock, lastRelay, admittedOffSpec>>

\* the operating system's clock moves, possibly backwards
ClockStep(d) ==
    /\ 0 < wallClock + d /\ wallClock + d <= MaxTime
    /\ wallClock' = wallClock + d
    /\ UNCHANGED <<chainVars, dFreeCount, nLastTime, nMockTime, lastRelay, admittedOffSpec>>

ClockNext == \/ \E t \in MockTimes : SetMockTime(t)
             \/ \E d \in ClockSteps : ClockStep(d)

-----------------------------------------------------------------------------

Init ==
    /\ \E tip \in StartTips : nHeight = tip.height /\ nMoneySupply = tip.supply
    /\ nMint = 0 /\ nConnected = 0 /\ issued = 0 /\ scheduled = 0 /\ unpaid = {}
    /\ dFreeCount = 0 /\ nLastTime = 0     \* zero-initialised statics
    /\ nMockTime = 0 /\ wallClock = 1
    /\ lastRelay = "none"
    /\ admittedOffSpec = FALSE

Next == ConnectNext \/ RelayNext \/ ClockNext

Spec == Init /\ [][Next]_vars

-----------------------------------------------------------------------------
(* Properties                                                              *)

\* Past the reward checkpoint, ConnectBlock lets the money supply grow by
\* no more than the subsidies of spec 4.9: the coinbase or coinstake may
\* take back the fees its block's transactions gave up, and nothing more,
\* whatever the heights, kinds and halving windows the blocks fall in.
SupplyWithinSpecSchedule == issued <= scheduled

\* From one block to the next past height 13 500 the proof-of-stake
\* subsidy never rises, across the boundaries of the halving windows
\* included (GetProofOfStakeReward's interpolation ends each window at
\* half its starting subsidy, where the next window starts).
StakeSubsidyNonIncreasing ==
    [][nHeight' = nHeight + 1 /\ nHeight >= 13500
         => GetProofOfStakeReward(0, 0, nHeight') <= GetProofOfStakeReward(0, 0, nHeight)]_vars

\* The free-relay limiter of AcceptableInputs never runs: a transaction
\* that passes the fee check pays at least GetMinFee(1000, GMF_RELAY,
\* nSize), which is never below MIN_RELAY_TX_FEE, so none pays less.  Its
\* count and time stamp keep their initial zero, whatever the clock does.
FreeRelayLimiterNeverRuns == dFreeCount = 0 /\ nLastTime = 0 /\ lastRelay # "rate limited"

\* AcceptableInputs accepts only transactions the spec's relay rules admit
\* (sections 3 and 4.6): CheckTransaction's output loop, with its running
\* total, IsStandard's zero-value and OP_RETURN tests and the fee checks
\* together refuse every transaction with an output or a total out of
\* [1, MAX_MONEY], a repeated or null prevout, a nonstandard script, or
\* more value out than in.
RelayAdmitsOnlySpecTxs == ~admittedOffSpec

\* Spec 4.10: once both payments are enforced, ConnectBlock accepts a
\* proof-of-stake block outside initial download, with the masternode list
\* synced, the block young, spork 2 on and the postponed blocks under
\* spork 12, only if its coinstake pays the masternode the payments manager
\* names (before or after its recomputation) its 66%, the developer script
\* its share, and leaves the staker no more than the rest of the reward.
PaymentsMadeWhenEnforced == unpaid = {}

=============================================================================
