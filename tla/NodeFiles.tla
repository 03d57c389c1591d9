----------------------------- MODULE NodeFiles -----------------------------
(***************************************************************************)
(* The configuration files of a node (src/chain/config_node.go,            *)
(* config_app.go, docker.go): what of a configuration reaches the disk.    *)
(* A node's directory is a record of its files, Missing when not written.  *)
(***************************************************************************)
EXTENDS Integers, Sequences

Missing == [written |-> FALSE]
NoKey   == 0

DefaultPorts == [RPC |-> 26657, P2P |-> 26656, API |-> 10337, GRPC |-> 9900,
                 GRPCWeb |-> 9091, PProf |-> 6060, Prometheus |-> 26660, EVMRPC |-> 8545,
                 EVMWSPort |-> 8546, ProxyApp |-> 26658]

EmptyDir == [node_key |-> NoKey, priv_validator_key |-> NoKey, config |-> Missing,
             app |-> Missing, genesis |-> Missing]

\* A node's id is the hash of its key.
NodeID(nodeKey) == <<"id", nodeKey>>

\* The production template takes the indexer and the profiler's port from the
\* configuration; otherwise they are fixed, and the metrics are optional.
SaveNodeConfig(dir, cfg) ==
    LET Listens == IF cfg.prodLike THEN {"P2P", "RPC", "PProf", "Prometheus"}
                   ELSE {"P2P", "RPC"} \union (IF cfg.portsExposed THEN {"Prometheus"} ELSE {})
    IN  [dir EXCEPT
            !.node_key = cfg.nodeKey,
            !.priv_validator_key = IF cfg.validatorKey = NoKey THEN @ ELSE cfg.validatorKey,
            !.config = [written |-> TRUE, persistentPeers |-> cfg.persistentPeers,
                        privatePeerIds |-> cfg.privatePeerIds, p2p |-> cfg.ports["P2P"],
                        listens |-> {cfg.ports[p] : p \in Listens},
                        indexer |-> IF cfg.prodLike THEN cfg.txIndexer ELSE "kv",
                        discards |-> cfg.prodLike /\ cfg.discardABCIResponses]]

SaveAppConfig(dir, app) ==
    LET Listens == IF app.evmEnabled THEN {"API", "GRPC", "EVMRPC", "EVMWSPort"}
                   ELSE {"API", "GRPC", "GRPCWeb"}
    IN  [dir EXCEPT !.app =
            [written |-> TRUE, minimumGasPrices |-> app.minimumGasPrices,
             template |-> IF app.evmEnabled THEN "evm"
                          ELSE IF app.prodLike THEN "prod" ELSE "plain",
             listens |-> {app.ports[p] : p \in Listens}]]

\* A service for every node, with its address and, when exposed, its ports.
GenerateDockerCompose(chainID, subnet, nodes) ==
    [written |-> TRUE, chainID |-> chainID, subnet |-> subnet,
     services |-> [k \in DOMAIN nodes |->
        [home |-> nodes[k].home, ip |-> nodes[k].ip,
         ports |-> IF nodes[k].portsExposed THEN nodes[k].ports ELSE << >>,
         dependsOn |-> nodes[k].dependsOn]]]
=============================================================================
