----------------------------- MODULE BlockSync -----------------------------
(***************************************************************************)
(* Block download between two peers: the getblocks / inv / getdata /      *)
(* block exchange of ProcessMessage, ProcessGetData and SendMessages      *)
(* (main.cpp).  Each node has one incoming FIFO channel (the TCP stream   *)
(* of its only peer) and handles the message at its head; SendMessages    *)
(* flushes the queued inventory and the getdata requests.                 *)
(*                                                                         *)
(* Blocks are the heights 0..Top of one chain that both peers agree on    *)
(* (forks, validation and stake checks are the subject of Ingress and     *)
(* ChainState); a block is identified by its height, and a node's index  *)
(* is a prefix 0..k of that chain.  ProcessNewBlock is abstracted to its *)
(* effect on mapBlockIndex and mapOrphanBlocks and the requests it sends. *)
(***************************************************************************)
EXTENDS Integers, Sequences, SequencesExt, FiniteSets

CONSTANTS
    Nodes,          \* the two peers
    Top,            \* height of the chain tip held by the best node
    LastPoW,        \* LAST_POW_BLOCK: blocks above it are proof-of-stake
    NLimit,         \* getblocks batch size (nLimit = 500)
    InvKnownMax,    \* capacity of the setInventoryKnown mruset
    ResetInterval,  \* PUSHGETBLOCKS_RESET_INTERVAL
    CatchUpWindow,  \* the 144-block window of the version handler
    StartBest,      \* StartBest[n]: height of n's tip when the peers connect
    IBD,            \* IBD[n]: IsInitialBlockDownload() at n
    Source          \* the node that receives new blocks from other peers

ASSUME /\ Cardinality(Nodes) = 2
       /\ NLimit >= 1 /\ InvKnownMax >= 1 /\ ResetInterval >= 1
       /\ Source \in Nodes /\ \A n \in Nodes : StartBest[n] <= StartBest[Source]

Blocks == 0..Top
NoHash == -1                      \* uint256(0)

Peer(n) == CHOOSE p \in Nodes : p # n

VARIABLES
    chan,          \* chan[n]: messages sent to n and not yet processed
    have,          \* have[n]: the blocks in n's mapBlockIndex
    orphans,       \* orphans[n]: the blocks in n's mapOrphanBlocks
    askFor,        \* askFor[n]: n's mapAskFor, in order
    alreadyAsked,  \* mapAlreadyAskedFor of n
    hashContinue,  \* hashContinue n keeps for its peer
    invToSend,     \* vInventoryToSend of n's peer connection
    invKnown,      \* setInventoryKnown of n's peer connection, oldest first
    counter        \* n's static message counter, modulo ResetInterval

vars == <<chan, have, orphans, askFor, alreadyAsked, hashContinue,
          invToSend, invKnown, counter>>

Msg(cmd, invs, begin, stop) == [cmd |-> cmd, invs |-> invs, begin |-> begin, stop |-> stop]
MsgGetBlocks(begin, stop) == Msg("getblocks", <<>>, begin, stop)
MsgInv(invs) == Msg("inv", invs, NoHash, NoHash)
MsgGetData(invs) == Msg("getdata", invs, NoHash, NoHash)
MsgBlock(b) == Msg("block", <<b>>, NoHash, NoHash)

Best(n) == Max(have[n])                          \* pindexBest->nHeight

\* AlreadyHave for MSG_BLOCK
AlreadyHave(n, b) == b \in have[n] \cup orphans[n]

\* PushGetBlocks: a getblocks with the locator of pindexBegin
PushGetBlocks(begin, stop) == <<MsgGetBlocks(begin, stop)>>

\* CBlockLocator::GetBlockIndex: the locator of a chain of at most ten
\* blocks lists every height down from begin, so the first one n has is
\* the lower of begin and n's tip
LocatorFork(n, begin) == Min({begin, Best(n)})

\* GetLastBlockIndex(pindexBest, false): the last proof-of-work block
LastPoWBlock(n) == Min({LastPoW, Best(n)})

\* GetOrphanRoot / WantedByOrphan: follow hashPrevBlock through the orphan
\* pool from b down to the first orphan whose parent is not an orphan
RECURSIVE OrphanRoot(_, _)
OrphanRoot(n, b) == IF b - 1 \in orphans[n] THEN OrphanRoot(n, b - 1) ELSE b
WantedByOrphan(n, b) == OrphanRoot(n, b) - 1

\* mruset::insert: a new entry is appended and the oldest one dropped
\* once the set exceeds its capacity
KnownInsert(s, b) ==
    IF b \in ToSet(s) THEN s
    ELSE LET t == Append(s, b) IN IF Len(t) > InvKnownMax THEN Tail(t) ELSE t

\* The blocks ProcessNewBlock links once b is in the index: b and the
\* orphans that chain from it (the mapOrphanBlocksByPrev work queue)
Connected(n, b) == {c \in b..Top : \A d \in (b + 1)..c : d \in orphans[n]}

\* The message at the head of n's channel is handled by the command
\* branch cmd: the "counter++ % PUSHGETBLOCKS_RESET_INTERVAL" branch
\* before it did not take the message
Swallows(n) == counter[n] = 0 /\ ~IBD[n]
Handles(n, cmd) ==
    /\ chan[n] # <<>>
    /\ Head(chan[n]).cmd = cmd
    /\ ~Swallows(n)
    /\ counter' = [counter EXCEPT ![n] = (@ + 1) % ResetInterval]

\* n consumes the head of its channel and sends out to its peer
Reply(n, out) == chan' = [chan EXCEPT ![n] = Tail(@), ![Peer(n)] = @ \o out]

\* The reset branch: outside initial download every ResetInterval-th
\* message is taken by ResetPushGetBlocks / PushGetBlocks(pindexBest, 0)
\* and never reaches its own handler
SwallowMessage(n) ==
    /\ chan[n] # <<>>
    /\ Swallows(n)
    /\ counter' = [counter EXCEPT ![n] = (@ + 1) % ResetInterval]
    /\ Reply(n, PushGetBlocks(Best(n), NoHash))
    /\ UNCHANGED <<have, orphans, askFor, alreadyAsked, hashContinue, invToSend, invKnown>>

\* "getblocks": queue invs of the successors of the locator's fork point,
\* up to hashStop and at most NLimit of them; at the limit remember the
\* last one as hashContinue
ProcessGetBlocks(n) ==
    LET m == Head(chan[n])
        fork == LocatorFork(n, m.begin)
        stopAt == IF m.stop > fork THEN {m.stop - 1} ELSE {}
        last == Min({Best(n), fork + NLimit} \cup stopAt)
        batch == [i \in 1..(last - fork) |-> fork + i]
    IN /\ Handles(n, "getblocks")
       /\ invToSend' = [invToSend EXCEPT ![n] = @ \o batch]
       /\ hashContinue' = IF Len(batch) = NLimit
                          THEN [hashContinue EXCEPT ![n] = batch[NLimit]]
                          ELSE hashContinue
       /\ Reply(n, <<>>)
       /\ UNCHANGED <<have, orphans, askFor, alreadyAsked, invKnown>>

\* A getdata loop that stops after answering the hashContinue block
RECURSIVE ServeDataStopAtContinue(_, _, _)
ServeDataStopAtContinue(n, invs, hc) ==
    IF invs = <<>> THEN <<<<>>, hc>>
    ELSE LET b == Head(invs)
         IN IF b \in have[n] /\ b = hc
            THEN <<<<MsgBlock(b), MsgInv(<<LastPoWBlock(n)>>)>>, NoHash>>
            ELSE LET rest == ServeDataStopAtContinue(n, Tail(invs), hc)
                 IN <<(IF b \in have[n] THEN <<MsgBlock(b)>> ELSE <<>>) \o rest[1], rest[2]>>

\* ProcessGetData: send each requested block n has; when it is the
\* hashContinue block, follow it with an inv of the last proof-of-work
\* block and clear hashContinue.  Yields <<messages, hashContinue>>.
RECURSIVE ServeData(_, _, _)
ServeData(n, invs, hc) ==
    IF invs = <<>> THEN <<<<>>, hc>>
    ELSE LET b == Head(invs)
             sent == b \in have[n]
             cont == sent /\ b = hc
             here == IF ~sent THEN <<>>
                     ELSE IF cont THEN <<MsgBlock(b), MsgInv(<<LastPoWBlock(n)>>)>>
                     ELSE <<MsgBlock(b)>>
             rest == ServeData(n, Tail(invs), IF cont THEN NoHash ELSE hc)
         IN <<here \o rest[1], rest[2]>>

\* "getdata"
ProcessGetDataMsg(n) ==
    LET served == ServeData(n, Head(chan[n]).invs, hashContinue[n])
    IN /\ Handles(n, "getdata")
       /\ hashContinue' = [hashContinue EXCEPT ![n] = served[2]]
       /\ Reply(n, served[1])
       /\ UNCHANGED <<have, orphans, askFor, alreadyAsked, invToSend, invKnown>>

\* The request the "inv" handler sends for the i-th entry of v
InvReply(n, v, i) ==
    CASE ~AlreadyHave(n, v[i])  -> <<>>
      [] v[i] \in orphans[n]    -> PushGetBlocks(Best(n), OrphanRoot(n, v[i]))
      [] i = Len(v)             -> PushGetBlocks(v[i], NoHash)
      [] OTHER                  -> <<>>

\* "inv": AskFor what n lacks; for a known orphan ask for the blocks up
\* to its root; for a known last block ask for what follows it
ProcessInv(n) ==
    LET v == Head(chan[n]).invs
    IN /\ Handles(n, "inv")
       /\ invKnown' = [invKnown EXCEPT ![n] = FoldLeft(KnownInsert, @, v)]
       /\ askFor' = [askFor EXCEPT ![n] = @ \o SelectSeq(v, LAMBDA b : ~AlreadyHave(n, b))]
       /\ Reply(n, FlattenSeq([i \in 1..Len(v) |-> InvReply(n, v, i)]))
       /\ UNCHANGED <<have, orphans, alreadyAsked, hashContinue, invToSend>>

\* "block" with a block n already has: ProcessNewBlock fails, and when
\* the best block is older than MAX_TIME_SINCE_BEST_BLOCK (timedOut) n
\* asks for everything after its tip
ProcessDuplicateBlock(n) ==
    LET b == Head(chan[n]).invs[1]
    IN /\ Handles(n, "block")
       /\ AlreadyHave(n, b)
       /\ invKnown' = [invKnown EXCEPT ![n] = KnownInsert(@, b)]
       /\ \E timedOut \in BOOLEAN :
             Reply(n, IF timedOut THEN PushGetBlocks(Best(n), NoHash) ELSE <<>>)
       /\ UNCHANGED <<have, orphans, askFor, alreadyAsked, hashContinue, invToSend>>

\* "block" whose parent is not in the index: ProcessNewBlock keeps it as
\* an orphan, asks the sender for the blocks up to the orphan root and,
\* outside initial download, asks for the root's parent directly
ProcessOrphanBlock(n) ==
    LET b == Head(chan[n]).invs[1]
    IN /\ Handles(n, "block")
       /\ ~AlreadyHave(n, b)
       /\ b - 1 \notin have[n]
       /\ orphans' = [orphans EXCEPT ![n] = @ \cup {b}]
       /\ askFor' = IF IBD[n] THEN askFor
                    ELSE [askFor EXCEPT ![n] = Append(@, WantedByOrphan(n, b))]
       /\ alreadyAsked' = [alreadyAsked EXCEPT ![n] = @ \ {b}]
       /\ invKnown' = [invKnown EXCEPT ![n] = KnownInsert(@, b)]
       /\ Reply(n, PushGetBlocks(Best(n), OrphanRoot(n, b)))
       /\ UNCHANGED <<have, hashContinue, invToSend>>

\* "block" whose parent is in the index: ProcessNewBlock links it and
\* every orphan that now connects; each AcceptBlock of the drain makes
\* its block the best one and relays it to the peer, lowest first
ProcessConnectBlock(n) ==
    LET b == Head(chan[n]).invs[1]
        linked == Connected(n, b)
    IN /\ Handles(n, "block")
       /\ ~AlreadyHave(n, b)
       /\ b - 1 \in have[n]
       /\ have' = [have EXCEPT ![n] = @ \cup linked]
       /\ orphans' = [orphans EXCEPT ![n] = @ \ linked]
       /\ alreadyAsked' = [alreadyAsked EXCEPT ![n] = @ \ {b}]
       /\ invKnown' = [invKnown EXCEPT ![n] = KnownInsert(@, b)]
       /\ invToSend' = [invToSend EXCEPT ![n] = @ \o SetToSortSeq(linked, LAMBDA x, y : x < y)]
       /\ Reply(n, <<>>)
       /\ UNCHANGED <<askFor, hashContinue>>

\* The block after Source's tip arrives from another peer and becomes its
\* best block; AcceptBlock relays it to the peer (the peer's starting
\* height is well within 2000 blocks of the tip).  Blocks up to Top.
AcceptNewTip ==
    /\ Best(Source) < Top
    /\ have' = [have EXCEPT ![Source] = @ \cup Connected(Source, Best(Source) + 1)]
    /\ orphans' = [orphans EXCEPT ![Source] = @ \ Connected(Source, Best(Source) + 1)]
    /\ invToSend' = [invToSend EXCEPT ![Source] = Append(@, Best(Source) + 1)]
    /\ UNCHANGED <<chan, askFor, alreadyAsked, hashContinue, invKnown, counter>>

\* The inventory SendMessages announces: the queued blocks the peer is
\* not known to have, each recorded in setInventoryKnown as it is sent.
\* Yields [known |-> the new setInventoryKnown, inv |-> the inv vector].
FlushInventory(known, queue) ==
    FoldLeft(LAMBDA acc, b :
                IF b \in ToSet(acc.known) THEN acc
                ELSE [known |-> KnownInsert(acc.known, b), inv |-> Append(acc.inv, b)],
             [known |-> known, inv |-> <<>>], queue)

\* SendMessages: an inv of the queued inventory, then a getdata of the
\* mapAskFor entries n still does not have, which move to
\* mapAlreadyAskedFor
SendMessages(n) ==
    LET flush == FlushInventory(invKnown[n], invToSend[n])
        want == SelectSeq(askFor[n], LAMBDA b : ~AlreadyHave(n, b))
        out == (IF flush.inv = <<>> THEN <<>> ELSE <<MsgInv(flush.inv)>>)
               \o (IF want = <<>> THEN <<>> ELSE <<MsgGetData(want)>>)
    IN /\ invToSend[n] # <<>> \/ askFor[n] # <<>>
       /\ invKnown' = [invKnown EXCEPT ![n] = flush.known]
       /\ invToSend' = [invToSend EXCEPT ![n] = <<>>]
       /\ askFor' = [askFor EXCEPT ![n] = <<>>]
       /\ alreadyAsked' = [alreadyAsked EXCEPT ![n] = @ \cup ToSet(want)]
       /\ chan' = [chan EXCEPT ![Peer(n)] = @ \o out]
       /\ UNCHANGED <<have, orphans, hashContinue, counter>>

\* The requests a node p sends n while handling n's version message: the
\* first-peer PushGetBlocks(pindexBest, 0) when n's starting height is
\* within CatchUpWindow blocks of p's tip, and the same request again when
\* p's best block is older than MAX_TIME_SINCE_BEST_BLOCK (timedOut)
VersionRequests(n, timedOut) ==
    LET p == Peer(n)
    IN (IF StartBest[n] > StartBest[p] - CatchUpWindow
        THEN PushGetBlocks(StartBest[p], NoHash) ELSE <<>>)
       \o (IF timedOut THEN PushGetBlocks(StartBest[p], NoHash) ELSE <<>>)

\* After the version handshake: the peers hold their starting chains and
\* the version requests are in flight; the message counter, shared with
\* the node's other peers, may be at any phase
Init ==
    /\ have = [n \in Nodes |-> 0..StartBest[n]]
    /\ orphans = [n \in Nodes |-> {}]
    /\ askFor = [n \in Nodes |-> <<>>]
    /\ alreadyAsked = [n \in Nodes |-> {}]
    /\ hashContinue = [n \in Nodes |-> NoHash]
    /\ invToSend = [n \in Nodes |-> <<>>]
    /\ invKnown = [n \in Nodes |-> <<>>]
    /\ counter \in [Nodes -> 0..(ResetInterval - 1)]
    /\ \E timedOut \in [Nodes -> BOOLEAN] :
          chan = [n \in Nodes |-> VersionRequests(n, timedOut[Peer(n)])]

\* ProcessMessages: one message taken by the command branch it names
Download(n) ==
    \/ ProcessGetBlocks(n)
    \/ ProcessGetDataMsg(n)
    \/ ProcessInv(n)
    \/ ProcessDuplicateBlock(n)
    \/ ProcessOrphanBlock(n)
    \/ ProcessConnectBlock(n)

\* ProcessMessages: one message handled by n, by its own branch or by the
\* reset branch
Receive(n) == SwallowMessage(n) \/ Download(n)

\* The message handler thread drains every node's receive queue and the
\* send loop runs SendMessages for every peer, over and over
Next == AcceptNewTip \/ \E n \in Nodes : Receive(n) \/ SendMessages(n)
Spec == Init /\ [][Next]_vars
        /\ \A n \in Nodes : WF_vars(Receive(n)) /\ WF_vars(SendMessages(n))

\* While both peers are in initial block download the reset branch is
\* off (Swallows is FALSE) and every message reaches its own handler
DownloadNext == AcceptNewTip \/ \E n \in Nodes : Download(n) \/ SendMessages(n)
DownloadSpec == Init /\ [][DownloadNext]_vars
                /\ \A n \in Nodes : WF_vars(Download(n)) /\ WF_vars(SendMessages(n))

-----------------------------------------------------------------------------

\* Every block SendMessages requests with getdata (and so records in
\* mapAlreadyAskedFor) eventually arrives: ProcessGetData serves every
\* requested block the peer has, and nothing else will ask for it again,
\* since the peer's setInventoryKnown keeps it from announcing the block
\* a second time
AskedBlocksDelivered ==
    \A n \in Nodes, b \in Blocks :
        b \in alreadyAsked[n] ~> AlreadyHave(n, b)

\* Every orphan block is eventually linked into the index: the getblocks
\* up to the orphan root, the hashContinue batches and the inv of the
\* last proof-of-work block that ProcessGetData sends after each batch
\* fill the gap below it
OrphansEventuallyConnected ==
    \A n \in Nodes, b \in Blocks :
        b \in orphans[n] ~> b \in have[n]

=============================================================================
