---------------------------- MODULE MCBlockSync ----------------------------
(* Two peers, srv holding the whole chain and cli starting from genesis. *)
EXTENDS BlockSync

CONSTANTS srv, cli

MCStartBest == [n \in {srv, cli} |-> IF n = srv THEN Top - 1 ELSE 0]

\* both peers in initial block download
MCIBDBoth == [n \in {srv, cli} |-> TRUE]

\* srv has finished initial download, cli has not
MCIBDClient == [n \in {srv, cli} |-> n = cli]
=============================================================================
