------------------------------ MODULE OrphanTx ------------------------------
(***************************************************************************)
(* Loose transactions arriving in "tx" messages (ProcessMessage in        *)
(* src/src/main.cpp): AcceptToMemoryPool, the orphan-transaction pool      *)
(* (mapOrphanTransactions, mapOrphanTransactionsByPrev) with AddOrphanTx,  *)
(* EraseOrphanTx and LimitOrphanTxSize, and the work-queue drain that      *)
(* retries the orphans waiting on an accepted transaction.  Blocks keep    *)
(* arriving through ChainState's AcceptBlockStep and change the tx index   *)
(* and the mempool the handler checks against.                            *)
(*                                                                         *)
(* The two calls the handler makes for each accepted transaction are kept *)
(* as logs: walletSynced holds what SyncWithWallets(., NULL, true) was     *)
(* given and relayed what RelayTransaction was given.  A txid is a model   *)
(* value; map<uint256, .> and set<uint256> iterate in hash order, which    *)
(* TxHashOrder fixes.                                                      *)
(***************************************************************************)
EXTENDS ChainState

CONSTANTS
    MaxOrphans,     \* MAX_ORPHAN_TRANSACTIONS
    BigTx,          \* transactions whose serialized size exceeds 5000 bytes
    TxHashOrder     \* Tx as a sequence in increasing txid order

VARIABLES
    mapOrphanTransactions,        \* txids of stored orphans
    mapOrphanTransactionsByPrev,  \* prevout txid -> txids of orphans spending it
    walletSynced,                 \* txs the tx handler passed to SyncWithWallets
    relayed                       \* txs the tx handler passed to RelayTransaction

otxVars == <<mapOrphanTransactions, mapOrphanTransactionsByPrev, walletSynced, relayed>>
ovars == <<vars, otxVars>>

-----------------------------------------------------------------------------

\* txin.prevout.hash of each input, in vin order
PrevHashes(t) == [k \in DOMAIN TxIns[t] |-> TxIns[t][k][1]]

\* mapOrphanTransactionsByPrev[h] as an rvalue: absent keys read as empty
ByPrev(f, h) == IF h \in DOMAIN f THEN f[h] ELSE {}

\* mutant: AddOrphanTx without the 5000-byte size limit
AddOrphanTxNoSizeLimit(d, t) ==
    IF t \in d.orph THEN d
    ELSE [d EXCEPT !.orph   = @ \cup {t},
                   !.byPrev = FoldLeftOnce(LAMBDA f, h : (h :> (ByPrev(f, h) \cup {t})) @@ f,
                                           d.byPrev, PrevHashes(t))]

\* AddOrphanTx: refused when already stored or bigger than 5000 bytes, else
\* stored and listed under the txid of each of its inputs
AddOrphanTx(d, t) ==
    IF t \in d.orph \/ t \in BigTx THEN d
    ELSE [d EXCEPT !.orph   = @ \cup {t},
                   !.byPrev = FoldLeftOnce(LAMBDA f, h : (h :> (ByPrev(f, h) \cup {t})) @@ f,
                                           d.byPrev, PrevHashes(t))]

\* mutant: EraseOrphanTx forgets the mapOrphanTransactionsByPrev entries
EraseOrphanTxKeepsByPrev(d, h) ==
    IF h \notin d.orph THEN d ELSE [d EXCEPT !.orph = @ \ {h}]

\* EraseOrphanTx: unlist the orphan under each input's txid, dropping a key
\* whose set becomes empty, then erase it
EraseOrphanTx(d, h) ==
    IF h \notin d.orph THEN d
    ELSE [d EXCEPT !.orph   = @ \ {h},
                   !.byPrev = FoldLeftOnce(LAMBDA f, p :
                                             LET rest == ByPrev(f, p) \ {h} IN
                                             IF rest = {} THEN Restrict(f, DOMAIN f \ {p})
                                             ELSE (p :> rest) @@ f,
                                           d.byPrev, PrevHashes(h))]

\* the eviction sets LimitOrphanTxSize(nMax) can pick: random orphans are
\* erased until at most nMax remain (any orphan can be the lower_bound of a
\* random hash)
Evictions(orph, nMax) ==
    {V \in SUBSET orph :
        Cardinality(orph \ V) = IF Cardinality(orph) > nMax THEN nMax ELSE Cardinality(orph)}

\* one pass of the inner loop for hashPrev: mapOrphanTransactionsByPrev is
\* indexed with operator[], which inserts an empty set for an absent key;
\* each orphan listed is retried against the pool as it stands, an accepted
\* one is synced, relayed and queued, and one rejected for another reason
\* than missing inputs is queued for erasure.  SyncWithWallets is passed
\* the handler's tx, not the orphan (main.cpp line 3968).
VisitPrev(d, tx, hashPrev) ==
    FoldLeftOnce(
      LAMBDA e, o :
        IF AcceptableInputs(e.pool, txindex, pindexBest, o)
        THEN [e EXCEPT !.pool    = @ \cup {o},
                       !.wallet  = @ \cup {tx},
                       !.relayed = @ \cup {o},
                       !.queue   = Append(@, o),
                       !.erase   = Append(@, o)]
        ELSE IF ~MissingInputs(e.pool, txindex, o)
        THEN [e EXCEPT !.erase = Append(@, o)]
        ELSE e,
      [d EXCEPT !.byPrev = (hashPrev :> ByPrev(@, hashPrev)) @@ @],
      SelectSeq(TxHashOrder, LAMBDA o : o \in ByPrev(d.byPrev, hashPrev)))

\* the vWorkQueue loop from position i
RECURSIVE DrainOrphanTxs(_, _, _)
DrainOrphanTxs(d, tx, i) ==
    IF i > Len(d.queue) THEN d
    ELSE Let(VisitPrev(d, tx, d.queue[i]), LAMBDA x : DrainOrphanTxs(x, tx, i + 1))

OrphanState == [orph |-> mapOrphanTransactions, byPrev |-> mapOrphanTransactionsByPrev]

\* the "tx" handler when AcceptToMemoryPool succeeds: sync, relay, drain
\* the orphans that depended on it, then erase everything in vEraseQueue
AcceptTx(t) ==
    /\ AcceptableInputs(mempool, txindex, pindexBest, t)
    /\ \E d \in {DrainOrphanTxs([orph    |-> mapOrphanTransactions,
                                  byPrev  |-> mapOrphanTransactionsByPrev,
                                  pool    |-> mempool \cup {t},
                                  wallet  |-> walletSynced \cup {t},
                                  relayed |-> relayed \cup {t},
                                  queue   |-> <<t>>,
                                  erase   |-> <<t>>], t, 1)} :
         \E e \in {FoldLeftOnce(EraseOrphanTx, d, d.erase)} :
            /\ mempool' = e.pool
            /\ mapOrphanTransactions' = e.orph
            /\ mapOrphanTransactionsByPrev' = e.byPrev
            /\ walletSynced' = e.wallet
            /\ relayed' = e.relayed
    /\ UNCHANGED <<mapBlockIndex, pnext, pindexBest, hashBestChain, setStakeSeen, diskVars>>

\* the "tx" handler when AcceptToMemoryPool reports missing inputs:
\* AddOrphanTx, then LimitOrphanTxSize(MAX_ORPHAN_TRANSACTIONS)
StoreOrphanTx(t) ==
    /\ MissingInputs(mempool, txindex, t)
    /\ \E a \in {AddOrphanTx(OrphanState, t)} :
         \E V \in Evictions(a.orph, MaxOrphans) :
           \E e \in {FoldLeftOnce(EraseOrphanTx, a, SetToSeq(V))} :
              /\ mapOrphanTransactions' = e.orph
              /\ mapOrphanTransactionsByPrev' = e.byPrev
    /\ UNCHANGED <<vars, walletSynced, relayed>>

\* ProcessMessage, strCommand == "tx"; any other rejection changes nothing
ReceiveTx(t) == AcceptTx(t) \/ StoreOrphanTx(t)

OInit ==
    /\ Init
    /\ mapOrphanTransactions = {}
    /\ mapOrphanTransactionsByPrev = <<>>
    /\ walletSynced = {}
    /\ relayed = {}

ONext ==
    \/ \E t \in Tx : ReceiveTx(t)
    \/ \E b \in NonGenesis : AcceptBlockStep(b) /\ UNCHANGED otxVars

OSpec == OInit /\ [][ONext]_ovars

-----------------------------------------------------------------------------
(* Properties                                                              *)

OTypeOK ==
    /\ TypeOK
    /\ mapOrphanTransactions \subseteq Tx \ BigTx
    /\ DOMAIN mapOrphanTransactionsByPrev \subseteq Tx
    /\ \A h \in DOMAIN mapOrphanTransactionsByPrev : mapOrphanTransactionsByPrev[h] \subseteq Tx
    /\ walletSynced \subseteq Tx /\ relayed \subseteq Tx

\* mapOrphanTransactionsByPrev lists each stored orphan under the txid of
\* every one of its inputs and lists nothing else: AddOrphanTx, the erasure
\* of drained orphans and random eviction all keep the two maps in step, so
\* the drain finds every orphan that spends an accepted transaction.
OrphanIndexExact ==
    /\ \A o \in mapOrphanTransactions : \A k \in DOMAIN PrevHashes(o) :
          o \in ByPrev(mapOrphanTransactionsByPrev, PrevHashes(o)[k])
    /\ \A h \in DOMAIN mapOrphanTransactionsByPrev : \A o \in mapOrphanTransactionsByPrev[h] :
          o \in mapOrphanTransactions /\ h \in Range(PrevHashes(o))

\* No two mempool transactions spend the same outpoint, however loose
\* transactions, drained orphans, connected blocks and resurrected
\* transactions interleave.
MempoolConflictFree ==
    \A p, q \in mempool : p # q => Spends(p) \cap Spends(q) = {}

\* Every transaction the handler accepts and relays is also handed to the
\* wallet (SyncWithWallets), orphans accepted by the drain included.
WalletSeesRelayedTxs == relayed \subseteq walletSynced

=============================================================================
