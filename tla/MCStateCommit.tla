---------------------------- MODULE MCStateCommit ----------------------------
(* An account, an organization with certificates, two nodes and an             *)
(* application over seven blocks: a validator leaves the set, a node changes   *)
(* its key, two nodes declare the same key.  Block 8 cannot be stored: it      *)
(* creates an organization without a description.                              *)
EXTENDS StateCommit

Key(a)        == [kind |-> "VN_COMETBFT_PUBLIC_KEY_DECLARATION", value |-> a, tag |-> Null]
Section(k)    == [kind |-> k, value |-> "text", tag |-> Null]
Owner(k, id)  == [kind |-> k, value |-> id, tag |-> Null]
Custom_(t, v) == [kind |-> "CUSTOM", value |-> v, tag |-> t]

MB(prev, type, height, hour, gas, sections) ==
    [prev |-> prev, type |-> type, height |-> height, hour |-> hour, gas |-> gas, price |-> 4 - gas,
     sections |-> sections]

MCHashes == {"a", "o", "o2", "n", "n2", "n3", "m", "m2", "p", "x"}
MCMicro ==
    [m \in MCHashes |->
        CASE m = "a"  -> MB(Null, "account", 1, 0, 1, <<Section("ACCOUNT_PUBLIC_KEY")>>)
          [] m = "o"  -> MB(Null, "organization", 1, 0, 2,
                            <<Owner("ORG_CREATION", "a"), Section("ORG_DESCRIPTION")>>)
          [] m = "n"  -> MB(Null, "node", 1, 0, 3,
                            <<Owner("VN_CREATION", "o"), Key("k1"), Section("VN_RPC_ENDPOINT")>>)
          [] m = "m"  -> MB(Null, "node", 1, 1, 1,
                            <<Owner("VN_CREATION", "o"), Key("k2"), Section("VN_RPC_ENDPOINT")>>)
          [] m = "o2" -> MB("o", "organization", 2, 1, 1,
                            <<Section("ORG_DESCRIPTION"), Custom_(Null, "text"),
                              Custom_("__cert__", "__jwt__"), Custom_("__cert__", "text")>>)
          [] m = "n2" -> MB("n", "node", 2, 1, 2, <<Key("k3")>>)
          [] m = "p"  -> MB(Null, "application", 1, 1, 1,
                            <<Owner("APP_CREATION", "o"), Section("APP_DESCRIPTION")>>)
          [] m = "n3" -> MB("n2", "node", 3, 1, 1, <<Custom_("__log__", "text")>>)
          [] m = "m2" -> MB("m", "node", 2, 2, 1, <<Key("k3")>>)
          [] m = "x"  -> MB(Null, "organization", 1, 2, 1, <<Owner("ORG_CREATION", "a")>>)]

V(a, p)    == [address |-> a, power |-> p]
Sig(a, f)  == [address |-> a, flag |-> f]
BL(commit, proposer, signers, validators, hour, modified, micros) ==
    [commit |-> commit, proposer |-> proposer, signers |-> signers, validators |-> validators,
     hour |-> hour, modified |-> modified, micros |-> micros]

MCBlock ==
    << BL(FALSE, Null, <<>>, {V("k1", 10)}, 0, {"a"}, <<"a", "o", "n">>),
       BL(TRUE, "k1", <<Sig("k1", 2), Sig("k2", 2)>>, {V("k1", 10), V("k2", 5)}, 0, {}, <<"m", "o2">>),
       BL(TRUE, "k2", <<Sig("k1", 2), Sig("k2", 1)>>, {V("k1", 10), V("k2", 5)}, 1, {"a"}, <<"n2">>),
       BL(TRUE, "k3", <<Sig("k3", 2), Sig("k2", 2)>>, {V("k3", 10)}, 1, {}, <<"p", "n3">>),
       BL(TRUE, "k3", <<Sig("k3", 2)>>, {V("k3", 10), V("k2", 7)}, 2, {}, <<>>),
       BL(TRUE, "k2", <<Sig("k2", 2)>>, {V("k3", 10)}, 2, {}, <<"m2">>),
       BL(TRUE, "k3", <<Sig("k3", 2)>>, {V("k3", 10)}, 2, {}, <<>>),
       BL(TRUE, "k3", <<Sig("k3", 2)>>, {V("k3", 10)}, 2, {}, <<"x">>) >>
=============================================================================
