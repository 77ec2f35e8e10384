------------------------------ MODULE MCIsMine ------------------------------
(***************************************************************************)
(* Three keys and nine scripts: a pay-to-pubkey, two pay-to-pubkey-hash,   *)
(* a 1-of-2 multisig, a 2-of-2 multisig listing one key twice, a script    *)
(* hash over the multisig, one over a pubkey-hash script, one over that    *)
(* script hash (nested), and a null-data output.  The wallet adds keys and *)
(* redeem scripts in every order.                                          *)
(***************************************************************************)
EXTENDS IsMine

MCKey == {"k1", "k2", "k3"}

MCScript == {"pk1", "pkh2", "pkh3", "ms", "msdup", "shms", "shpkh3", "shsh", "nd"}

MCKind ==
    "pk1" :> "pubkey" @@ "pkh2" :> "pubkeyhash" @@ "pkh3" :> "pubkeyhash"
    @@ "ms" :> "multisig" @@ "msdup" :> "multisig"
    @@ "shms" :> "scripthash" @@ "shpkh3" :> "scripthash" @@ "shsh" :> "scripthash"
    @@ "nd" :> "nulldata"

MCSol ==
    "pk1" :> <<"k1">> @@ "pkh2" :> <<"k2">> @@ "pkh3" :> <<"k3">>
    @@ "ms" :> <<1, "k1", "k2", 2>> @@ "msdup" :> <<2, "k3", "k3", 2>>
    @@ "shms" :> <<"ms">> @@ "shpkh3" :> <<"pkh3">> @@ "shsh" :> <<"shpkh3">>
    @@ "nd" :> << >>

=============================================================================
