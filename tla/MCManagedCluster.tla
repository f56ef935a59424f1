--------------------------- MODULE MCManagedCluster ---------------------------
(* Specs for TLC: a standalone server, clusters of two and of three, one    *)
(* without group and with foreign certificates, and external servers.       *)
EXTENDS ManagedCluster

Pair == [mode |-> "managed", replicas |-> 2, config |-> 1, certificates |-> "SelfSigned",
         group |-> TRUE, credentials |-> "sa"]

MCSpecs == {Pair, [Pair EXCEPT !.replicas = 3, !.credentials = "credentials"],
            [Pair EXCEPT !.replicas = 1, !.config = 2],
            [Pair EXCEPT !.certificates = "CertManager", !.group = FALSE],
            [Pair EXCEPT !.mode = "external", !.credentials = "credentials"],
            [Pair EXCEPT !.mode = "unsupported"]}

MCPairOnly == {Pair}

==============================================================================
