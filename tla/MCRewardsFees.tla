---------------------------- MODULE MCRewardsFees ----------------------------
EXTENDS RewardsFees

\* tips two blocks before each boundary of the schedules: the genesis block
\* (money supply zero, proof-of-work subsidy zero below 120), the end of
\* the proof-of-stake table, the reward checkpoint, the first two halvings
\* and the 64th, past which the subsidy is zero, and the masternode and
\* developer enforcement heights
MCStartTips ==
    {[height |-> 0, supply |-> 0]} \cup
    {[height |-> h, supply |-> 1000] : h \in {13498, 17899, 999998, 1099998, 1199998, 1999998, 63999998}}

\* relayed transactions: well-formed standard ones of every size and fee
\* (one without and one with a dust output beside an OP_RETURN), and one of
\* each defect the opening checks look for, paying a generous fee
TxIn(p, ok) == [prevout |-> p, sigOK |-> ok]
TxOut(v, s) == [nValue |-> v, script |-> s]
MkTx(vin, vout, nSize, fee) ==
    [vin |-> vin, vout |-> vout, nSize |-> nSize, nValueIn |-> ValueOut(vout) + fee]

MCTxSizes == {300, 249000, 499000}
MCTxFees  == {0, 1, 5, 500}
GoodIn    == <<TxIn("o1", TRUE)>>
GoodOut   == <<TxOut(10, "std")>>

MCRelayTxs ==
    {MkTx(GoodIn, vo, sz, f) : vo \in {<<TxOut(10, "std")>>, <<TxOut(1, "std"), TxOut(10, "nulldata")>>},
                              sz \in MCTxSizes, f \in MCTxFees}
    \cup {MkTx(vi, GoodOut, 300, 500) :
            vi \in {<<>>, <<TxIn(NullOut, TRUE)>>, <<TxIn("o1", TRUE), TxIn("o1", TRUE)>>,
                    <<TxIn("o1", TRUE), TxIn(NullOut, TRUE)>>, <<TxIn("o1", FALSE)>>}}
    \cup {MkTx(GoodIn, vo, 300, 500) :
            vo \in {<<>>, <<TxOut(11, "std"), TxOut(-1, "std")>>, <<TxOut(MAX_MONEY, "std"), TxOut(1, "std")>>,
                    <<TxOut(MAX_MONEY + 1, "std")>>, <<TxOut(0, "empty"), TxOut(10, "std")>>,
                    <<TxOut(10, "std"), TxOut(0, "empty")>>, <<TxOut(0, "std")>>, <<TxOut(10, "nonstd")>>,
                    <<TxOut(10, "nulldata"), TxOut(10, "nulldata")>>}}
    \cup {MkTx(GoodIn, GoodOut, MAX_BLOCK_SIZE + 1, 500)}

\* the wall clock may be set back by a second
MCClockSteps == {1, -1}

=============================================================================
