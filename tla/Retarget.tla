------------------------------ MODULE Retarget ------------------------------
(***************************************************************************)
(* Difficulty retargeting of src/src/main.cpp: GetLastBlockIndex and      *)
(* GetNextTargetRequired, applied to a chain that grows one block at a     *)
(* time through AcceptBlock's header checks (the nBits test and the        *)
(* timestamp window).  Proof-of-work and proof-of-stake blocks retarget    *)
(* separately, each from the last two blocks of its own kind.              *)
(*                                                                         *)
(* A target is an integer and nBits its compact encoding (CBigNum's        *)
(* SetCompact / GetCompact, in bignum.h, which is not part of the source   *)
(* tree): three bytes of mantissa and a byte count, which rounds a target  *)
(* down to its three leading bytes.  Targets are kept below 2^29 so that   *)
(* TLC's integers hold them; the encoding behaves the same at that size as *)
(* at 256 bits (four-byte targets already lose their low byte).            *)
(***************************************************************************)
EXTENDS Integers, Sequences, SequencesExt

CONSTANTS
    PowLimit,        \* bnProofOfWorkLimit
    PosLimit,        \* GetPOSLimit(nHeight), taken as one value
    TargetSpacing,   \* nTargetSpacing (79 s)
    TargetTimespan,  \* nTargetTimespan (20 min)
    FutureDrift,     \* FutureDrift(t) - t
    Deltas,          \* the block-time steps a new block may take from its parent
    Kinds,           \* the kinds of block produced (fProofOfStake values)
    MaxBlocks        \* bound on the length of the chain

VARIABLE chain       \* the main chain: <<[pos, time, bits]>>, genesis first

-----------------------------------------------------------------------------
(* Compact encoding (spec: "returned as compact nBits")                   *)

\* number of bytes of n
RECURSIVE ByteSize(_)
ByteSize(n) == IF n = 0 THEN 0 ELSE 1 + ByteSize(n \div 256)

\* CBigNum::GetCompact: keep the three leading bytes; if the top bit of the
\* mantissa is set (it would read as a sign), shift one more byte out
GetCompact(n) ==
    LET size == ByteSize(n)
        m0   == IF size <= 3 THEN n * 256^(3 - size) ELSE n \div 256^(size - 3)
        big  == (m0 \div 2^23) % 2 = 1
        m    == IF big THEN m0 \div 256 ELSE m0
        sz   == IF big THEN size + 1 ELSE size
    IN sz * 2^24 + m

\* CBigNum::SetCompact (the sign bit is never set by GetCompact)
SetCompact(c) ==
    LET size == c \div 2^24
        word == c % 2^23
    IN IF size <= 3 THEN word \div 256^(3 - size) ELSE word * 256^(size - 3)

-----------------------------------------------------------------------------

Interval == TargetTimespan \div TargetSpacing      \* nInterval

\* bn * k / d without leaving TLC's integer range; a quotient beyond 2^30,
\* above every limit and so clamped to it by the caller, is taken as 2^30
MulDiv(bn, k, d) ==
    LET q == bn \div d
    IN IF q > 0 /\ k > 2^30 \div q THEN 2^30 ELSE q * k + ((bn % d) * k) \div d

\* mutant: the walk stops at once, whatever the kind
GetLastBlockIndexAnyKind(c, i, fProofOfStake) == i

\* GetLastBlockIndex: walk back from index i while the block has a parent
\* and is not of the requested kind
RECURSIVE GetLastBlockIndex(_, _, _)
GetLastBlockIndex(c, i, fProofOfStake) ==
    IF i > 1 /\ c[i].pos # fProofOfStake THEN GetLastBlockIndex(c, i - 1, fProofOfStake)
    ELSE i

\* nActualSpacing, a negative one clamped to nTargetSpacing
ActualSpacing(c, prev, prevPrev) ==
    LET s == c[prev].time - c[prevPrev].time IN IF s < 0 THEN TargetSpacing ELSE s

\* the retarget step from the previous target of the kind and the spacing
\* (mutant: the interval off by one in the divisor)
RetargetOffByOne(bn, spacing) ==
    MulDiv(bn, (Interval - 1) * TargetSpacing + spacing + spacing, Interval * TargetSpacing)

\* mutant: multiplier and divisor swapped
RetargetInverted(bn, spacing) ==
    MulDiv(bn, (Interval + 1) * TargetSpacing, (Interval - 1) * TargetSpacing + spacing + spacing)

Retarget(bn, spacing) ==
    MulDiv(bn, (Interval - 1) * TargetSpacing + spacing + spacing, (Interval + 1) * TargetSpacing)

\* mutant: the new target is not clamped to the limit
GetNextTargetRequiredNoClamp(c, fProofOfStake) ==
    LET limit    == IF fProofOfStake THEN PosLimit ELSE PowLimit
        prev     == GetLastBlockIndex(c, Len(c), fProofOfStake)
        prevPrev == GetLastBlockIndex(c, prev - 1, fProofOfStake)
    IN IF prev = 1 \/ prevPrev = 1 THEN GetCompact(limit)
       ELSE GetCompact(Retarget(SetCompact(c[prev].bits), ActualSpacing(c, prev, prevPrev)))

\* GetNextTargetRequired(pindexLast = c's last block, fProofOfStake)
GetNextTargetRequired(c, fProofOfStake) ==
    LET limit    == IF fProofOfStake THEN PosLimit ELSE PowLimit
        prev     == GetLastBlockIndex(c, Len(c), fProofOfStake)
        prevPrev == GetLastBlockIndex(c, prev - 1, fProofOfStake)
        bnNew    == Retarget(SetCompact(c[prev].bits), ActualSpacing(c, prev, prevPrev))
    IN CASE prev = 1     -> GetCompact(limit)       \* first block of the kind
         [] prevPrev = 1 -> GetCompact(limit)       \* second block of the kind
         [] OTHER        -> GetCompact(IF bnNew <= 0 \/ bnNew > limit THEN limit ELSE bnNew)

\* the loop of ComputeMaxBits: double the target once per day of nTime,
\* until it reaches the limit
RECURSIVE MaxBitsLoop(_, _, _)
MaxBitsLoop(bn, limit, nTime) ==
    IF nTime > 0 /\ bn < limit THEN MaxBitsLoop(bn * 2, limit, nTime - 24 * 60 * 60) ELSE bn

\* mutant: the loop without the leading doubling
ComputeMaxBitsNoLead(bnTargetLimit, nBase, nTime) ==
    LET bn == MaxBitsLoop(SetCompact(nBase), bnTargetLimit, nTime)
    IN GetCompact(IF bn > bnTargetLimit THEN bnTargetLimit ELSE bn)

\* ComputeMaxBits: the easiest nBits a kind could demand nTime seconds after
\* it demanded nBase ("Maximum 200% adjustment per day")
ComputeMaxBits(bnTargetLimit, nBase, nTime) ==
    LET bn == MaxBitsLoop(SetCompact(nBase) * 2, bnTargetLimit, nTime)
    IN GetCompact(IF bn > bnTargetLimit THEN bnTargetLimit ELSE bn)

\* ComputeMinStake / ComputeMinWork: ComputeMaxBits against the kind's limit
ComputeMinWork(fProofOfStake, nBase, nTime) ==
    ComputeMaxBits(IF fProofOfStake THEN PosLimit ELSE PowLimit, nBase, nTime)

\* ProcessNewBlock's guard against "spamming with bogus blocks", for a block
\* of kind fPoS at time t carrying bits whose chain holds the last sync
\* checkpoint at index cp: its target may not be easier than the minimum
\* work computed from the checkpoint's last block of that kind and the time
\* elapsed since the checkpoint
MinWorkOK(c, cp, fPoS, t, bits) ==
    SetCompact(bits)
        <= SetCompact(ComputeMinWork(fPoS, c[GetLastBlockIndex(c, cp, fPoS)].bits, t - c[cp].time))

\* GetPastTimeLimit: the median of the last (up to) eleven block times
PastTimeLimit(c) ==
    LET last == SubSeq(c, Max({1, Len(c) - 10}), Len(c))
        ts   == SortSeq([k \in DOMAIN last |-> last[k].time], <)
    IN ts[Len(ts) \div 2 + 1]

\* AcceptBlock's timestamp check: after the past time limit, and not more
\* than the future drift before the parent
TimeOK(c, t) == t > PastTimeLimit(c) /\ t + FutureDrift >= Last(c).time

\* AcceptBlock's header checks for a block of kind fPoS at time t on c
HeaderOK(c, fPoS, t, bits) ==
    /\ bits = GetNextTargetRequired(c, fPoS)
    /\ TimeOK(c, t)

-----------------------------------------------------------------------------

Init == chain = <<[pos |-> FALSE, time |-> 0, bits |-> GetCompact(PowLimit)]>>

\* ProcessNewBlock applies the guard only when there is a sync checkpoint,
\* the block does not extend the best chain and is not wanted by a pending
\* checkpoint; fChecked says whether it does, cp is the checkpoint
CheckpointGuard(c, fPoS, t, bits) ==
    \E fChecked \in BOOLEAN, cp \in DOMAIN c :
        ~fChecked \/ MinWorkOK(c, cp, fPoS, t, bits)

\* a block of kind fPoS, dt seconds after its parent, with the nBits that
\* GetNextTargetRequired demands, is accepted onto the chain
AcceptBlock(fPoS, dt) ==
    /\ Len(chain) < MaxBlocks
    /\ LET t == Last(chain).time + dt
           bits == GetNextTargetRequired(chain, fPoS)
       IN /\ CheckpointGuard(chain, fPoS, t, bits)
          /\ HeaderOK(chain, fPoS, t, bits)
          /\ chain' = Append(chain, [pos |-> fPoS, time |-> t, bits |-> bits])

Next == \E fPoS \in Kinds, dt \in Deltas : AcceptBlock(fPoS, dt)

Spec == Init /\ [][Next]_chain

-----------------------------------------------------------------------------
(* Properties                                                              *)

Target(c, fPoS) == SetCompact(GetNextTargetRequired(c, fPoS))

\* c extended by a block of kind fPoS dt seconds after its tip
Extend(c, fPoS, dt) ==
    Append(c, [pos |-> fPoS, time |-> Last(c).time + dt, bits |-> GetNextTargetRequired(c, fPoS)])

\* Every accepted block's target is positive and within its kind's limit:
\* the clamp of GetNextTargetRequired survives the compact re-encoding.
TargetWithinLimit ==
    \A i \in DOMAIN chain :
        SetCompact(chain[i].bits) \in 1..(IF chain[i].pos THEN PosLimit ELSE PowLimit)

\* The two kinds retarget independently: the next target of a kind is the
\* one computed on the chain with the other kind's blocks left out
\* (GetLastBlockIndex skips them, and genesis ends both walks).
KindsIndependent ==
    \A fPoS \in BOOLEAN :
        GetNextTargetRequired(chain, fPoS)
            = GetNextTargetRequired(<<chain[1]>> \o SelectSeq(Tail(chain), LAMBDA b : b.pos = fPoS), fPoS)

\* A kind whose last two blocks are exactly nTargetSpacing apart keeps its
\* target: the moving average is a fixed point at the target spacing.
StableAtTargetSpacing ==
    \A fPoS \in BOOLEAN :
        LET prev     == GetLastBlockIndex(chain, Len(chain), fPoS)
            prevPrev == GetLastBlockIndex(chain, prev - 1, fPoS)
        IN (prevPrev > 1 /\ chain[prev].time - chain[prevPrev].time = TargetSpacing)
              => Target(chain, fPoS) = SetCompact(chain[prev].bits)

\* Spec law (section 8): GetNextTargetRequired is monotone in the actual
\* spacing: of two valid times for the next block that do not precede the
\* last block of its kind, the later one never gives its kind a harder next
\* target than the earlier one.  (A negative spacing is clamped to
\* nTargetSpacing at line 1024, which breaks the law for back-dated blocks.)
RetargetMonotoneForward ==
    \A fPoS \in BOOLEAN, d1, d2 \in Deltas :
        LET prev == GetLastBlockIndex(chain, Len(chain), fPoS)
        IN (d1 <= d2 /\ TimeOK(chain, Last(chain).time + d1) /\ Last(chain).time + d1 >= chain[prev].time)
              => Target(Extend(chain, fPoS, d1), fPoS) <= Target(Extend(chain, fPoS, d2), fPoS)

\* ProcessNewBlock's checkpoint guard never refuses a block carrying the
\* target GetNextTargetRequired demands at a valid time: whatever the sync
\* checkpoint on the block's chain, ComputeMinWork / ComputeMinStake from
\* it is at least as easy as any target the kind can have retargeted to
\* since.  (A refused block also costs its sender 100 misbehaviour points.)
MinWorkAdmitsValidBlocks ==
    \A fPoS \in BOOLEAN, dt \in Deltas, cp \in DOMAIN chain :
        LET t    == Last(chain).time + dt
            bits == GetNextTargetRequired(chain, fPoS)
        IN HeaderOK(chain, fPoS, t, bits) => MinWorkOK(chain, cp, fPoS, t, bits)

=============================================================================
