----------------------------- MODULE Generator -----------------------------
(***************************************************************************)
(* The generate command (src/generator.go): the configuration, the genesis *)
(* and the accounts of a cluster, written node by node. A step is one      *)
(* iteration of one of its loops; a write may fail at each of them, which  *)
(* panics and leaves on disk what was written so far. The command may then *)
(* be run again.                                                           *)
(***************************************************************************)
EXTENDS Genesis, NodeFiles, Functions

CONSTANTS
    Environments,    \* the flags generate is run with
    Octet,           \* 256 in the code: the values of an address's last octet
    MaxGenerations   \* how often generate is run

BadSubnet == -1

\* Numbers are integers by their flags' types.
ASSUME GeneratorAssumption ==
    /\ Octet \in Nat \ {0} /\ MaxGenerations \in Nat
    /\ \A e \in Environments :
          /\ {e.validators, e.sentries, e.instances, e.accountsPerInstance} \subseteq Int
          /\ e.subnet \in 0..(Octet - 1) \union {BadSubnet}

VARIABLES
    env,          \* GeneratorEnvironment
    pc,           \* the loop GenerateConfigs is in
    i,            \* its index
    gen,          \* genesis, persistentValidatorPeers, allNodeConfigs, ids
    disk,         \* chain-stresser-deploy/
    nextKey,      \* keys below it have been drawn
    generations

genVars == <<env, pc, i, gen, disk, nextKey, generations>>

initialBalanceStaker  == 100000
initialBalanceBonded  == 10000
initialBalanceAccount == 1000000
minimumGasPrices      == 1

NoFiles == [nodes |-> << >>, accounts |-> << >>, validatorIDs |-> << >>,
            sentryIDs |-> << >>, compose |-> Missing]

\* Keys are drawn at random, so that each is a new one.
GenerateSecp256k1Key(drawn) == nextKey + drawn

Localhost == [net |-> "host", octet |-> 1]

\* The subnet is its address's last octet.
ipInSubnet(subnet, offset) == [net |-> "docker", octet |-> (subnet + offset + 1) % Octet]

shiftPorts(ports, offset) == [p \in DOMAIN ports |-> ports[p] + 100 * offset]

\* Faulty: entries are told apart by their addresses alone.
SameAddress(list, filter) == SelectSeq(list, LAMBDA v : v.ip # filter.ip)

filterStringValue(list, filter) ==
    LET newList[k \in 0..Len(list)] ==
            IF k = 0 THEN << >>
            ELSE IF list[k] # filter THEN Append(newList[k - 1], list[k]) ELSE newList[k - 1]
    IN  newList[Len(list)]

makeIntRange(start, end) == [k \in 1..(end - start) |-> start + k - 1]

\* A file or a directory of that name is there from now on.
Put(files, name, content) ==
    [f \in DOMAIN files \union {name} |-> IF f = name THEN content ELSE files[f]]

Dir(home) == IF home \in DOMAIN disk.nodes THEN disk.nodes[home] ELSE EmptyDir

PeerAddress(cfg) == [id |-> cfg.peerID, ip |-> cfg.ip, port |-> cfg.ports["P2P"]]

ValidatorConfig(e, k, nodeKey, validatorKey) ==
    [home |-> <<"validators", k>>, peerID |-> NodeID(nodeKey),
     ip |-> IF e.localNative THEN Localhost ELSE ipInSubnet(e.subnet, k + 1),
     ports |-> IF e.localNative THEN shiftPorts(DefaultPorts, k) ELSE DefaultPorts,
     persistentPeers |-> << >>, privatePeerIds |-> << >>,
     nodeKey |-> nodeKey, validatorKey |-> validatorKey, prodLike |-> e.prodLike,
     txIndexer |-> IF e.prodLike THEN "null" ELSE "kv",
     discardABCIResponses |-> e.prodLike,
     portsExposed |-> e.sentries = 0 /\ k = 0, dependsOn |-> << >>]

SentryConfig(e, k, nodeKey, peers, ids) ==
    [home |-> <<"sentry-nodes", k>>, peerID |-> NodeID(nodeKey),
     ip |-> ipInSubnet(e.subnet, e.validators + k + 1), ports |-> DefaultPorts,
     persistentPeers |-> peers, privatePeerIds |-> ids,
     nodeKey |-> nodeKey, validatorKey |-> NoKey, prodLike |-> e.prodLike,
     txIndexer |-> "kv", discardABCIResponses |-> FALSE,
     portsExposed |-> k = 0, dependsOn |-> makeIntRange(0, e.validators)]

AppConfig(e, cfg) ==
    [minimumGasPrices |-> minimumGasPrices, evmEnabled |-> e.evmEnabled,
     prodLike |-> e.prodLike, ports |-> cfg.ports]
-----------------------------------------------------------------------------
Fresh(e) == [genesis |-> NewGenesis(e), peers |-> << >>, configs |-> << >>,
             validatorIDs |-> << >>, sentryIDs |-> << >>]

Running == {"validators", "instances", "genesis", "sentries", "peers", "compose"}

GenInit ==
    /\ env = CHOOSE e \in Environments : TRUE    \* of no consequence before generate
    /\ pc = "idle"
    /\ i = 0
    /\ gen = Fresh(env)
    /\ disk = NoFiles
    /\ nextKey = 1
    /\ generations = 0

\* The next iteration, or the loop that follows.
Iterate(n, following) ==
    IF i + 1 < n THEN pc' = pc /\ i' = i + 1 ELSE pc' = following /\ i' = 0

\* generateCmd refuses what the host has no ports for.
Accepted(e) == e.localNative => e.validators <= 4 /\ e.sentries <= 0

Refused(e) == ~Accepted(e) \/ e.instances <= 0 \/ e.validators <= 0

\* Faulty: a deployment that is there already stays.
DeployKept(e) ==
    /\ pc \notin Running /\ generations < MaxGenerations
    /\ generations' = generations + 1
    /\ env' = e /\ i' = 0
    /\ IF Refused(e) THEN pc' = "panicked" ELSE pc' = "validators"
    /\ gen' = Fresh(e)
    /\ UNCHANGED <<disk, nextKey>>

\* The deployment of an earlier run is removed.
GenerateConfigs(e) ==
    /\ pc \notin Running /\ generations < MaxGenerations
    /\ generations' = generations + 1
    /\ env' = e /\ i' = 0
    /\ IF Refused(e) THEN pc' = "panicked" /\ UNCHANGED disk
       ELSE pc' = "validators" /\ disk' = NoFiles
    /\ gen' = Fresh(e)
    /\ UNCHANGED nextKey

\* Removing it fails part of the way.
RemoveAllFails(e) ==
    /\ pc \notin Running /\ generations < MaxGenerations
    /\ ~Refused(e)
    /\ \E homes \in SUBSET DOMAIN disk.nodes, instances \in SUBSET DOMAIN disk.accounts :
          disk' = [disk EXCEPT !.nodes = [h \in homes |-> disk.nodes[h]],
                               !.accounts = [k \in instances |-> disk.accounts[k]],
                               !.compose = Missing]
    /\ generations' = generations + 1
    /\ env' = e /\ pc' = "panicked"
    /\ UNCHANGED <<i, gen, nextKey>>

\* The list of all nodes is allocated beforehand, for that many.
GenerateValidator ==
    /\ pc = "validators"
    /\ env.validators + env.sentries >= 0
    /\ env.localNative \/ env.subnet # BadSubnet
    /\ LET staker  == GenerateSecp256k1Key(2)
           cfg     == ValidatorConfig(env, i, nextKey, nextKey + 1)
           ids     == Append(gen.validatorIDs, cfg.peerID)
           funded  == AddAccount(gen.genesis, staker, initialBalanceStaker)
       IN  /\ disk' = [disk EXCEPT
                 !.nodes = Put(@, cfg.home, SaveAppConfig(SaveNodeConfig(Dir(cfg.home), cfg),
                                                          AppConfig(env, cfg))),
                 !.validatorIDs = IF i + 1 = env.validators THEN ids ELSE @]
           /\ gen' = [gen EXCEPT
                 !.genesis = AddValidator(funded, nextKey + 1, staker, initialBalanceBonded),
                 !.peers = Append(@, PeerAddress(cfg)),
                 !.configs = Append(@, cfg),
                 !.validatorIDs = ids]
    /\ nextKey' = nextKey + 3
    /\ Iterate(env.validators, "instances")
    /\ UNCHANGED <<env, generations>>

\* The keys of one instance, each with a balance in the genesis. The list of
\* them is allocated beforehand, which panics for a negative number.
GenerateInstance ==
    /\ pc = "instances"
    /\ env.accountsPerInstance >= 0
    /\ LET accounts == [k \in 1..env.accountsPerInstance |-> GenerateSecp256k1Key(k - 1)]
       IN  /\ gen' = [gen EXCEPT !.genesis =
                 AddAccounts(@, accounts, initialBalanceAccount)]
           /\ disk' = [disk EXCEPT !.accounts = Put(@, i, accounts)]
    /\ nextKey' = nextKey + env.accountsPerInstance
    /\ Iterate(env.instances, "genesis")
    /\ UNCHANGED <<env, generations>>

SaveValidatorGenesis ==
    /\ pc = "genesis"
    /\ LET home == <<"validators", i>>
           g    == SaveGenesis(gen.genesis)
       IN  /\ gen' = [gen EXCEPT !.genesis = g]
           /\ disk' = [disk EXCEPT !.nodes[home].genesis = [written |-> TRUE, doc |-> g]]
    /\ Iterate(env.validators, IF env.sentries > 0 THEN "sentries" ELSE "peers")
    /\ UNCHANGED <<env, nextKey, generations>>

GenerateSentry ==
    /\ pc = "sentries"
    /\ LET cfg == SentryConfig(env, i, nextKey, gen.peers, gen.validatorIDs)
           g   == SaveGenesis(gen.genesis)
           ids == Append(gen.sentryIDs, cfg.peerID)
           dir == SaveAppConfig(SaveNodeConfig(Dir(cfg.home), cfg), AppConfig(env, cfg))
       IN  /\ gen' = [gen EXCEPT !.genesis = g, !.configs = Append(@, cfg), !.sentryIDs = ids]
           /\ disk' = [disk EXCEPT
                 !.nodes = Put(@, cfg.home,
                               [dir EXCEPT !.genesis = [written |-> TRUE, doc |-> g]]),
                 !.sentryIDs = IF i + 1 = env.sentries THEN ids ELSE @]
    /\ nextKey' = nextKey + 1
    /\ Iterate(env.sentries, "peers")
    /\ UNCHANGED <<env, generations>>

\* The second pass over the validators, whose peers are known by now.
SaveValidatorPeers ==
    /\ pc = "peers"
    /\ LET old == gen.configs[i + 1]
           cfg == [old EXCEPT
                      !.persistentPeers = filterStringValue(gen.peers, PeerAddress(old)),
                      !.privatePeerIds = gen.validatorIDs]
       IN  /\ gen' = [gen EXCEPT !.configs[i + 1] = cfg]
           /\ disk' = [disk EXCEPT !.nodes[cfg.home] = SaveNodeConfig(@, cfg)]
    /\ Iterate(env.validators, IF env.localNative THEN "done" ELSE "compose")
    /\ UNCHANGED <<env, nextKey, generations>>

WriteDockerCompose ==
    /\ pc = "compose"
    /\ disk' = [disk EXCEPT !.compose =
                   GenerateDockerCompose(env.chainID, env.subnet, gen.configs)]
    /\ pc' = "done"
    /\ UNCHANGED <<env, i, gen, nextKey, generations>>

\* A write that fails, a subnet that does not parse, a negative number.
GeneratorPanics ==
    /\ pc \in Running
    /\ pc' = "panicked"
    /\ UNCHANGED <<env, i, gen, disk, nextKey, generations>>

GenNext ==
    \/ \E e \in Environments : GenerateConfigs(e) \/ RemoveAllFails(e)
    \/ GenerateValidator
    \/ GenerateInstance
    \/ SaveValidatorGenesis
    \/ GenerateSentry
    \/ SaveValidatorPeers
    \/ WriteDockerCompose
    \/ GeneratorPanics

GenSpec == GenInit /\ [][GenNext]_genVars
-----------------------------------------------------------------------------
(* Properties                                                              *)

Written == {h \in DOMAIN disk.nodes : disk.nodes[h].genesis.written}
Docs    == {disk.nodes[h].genesis.doc : h \in Written}

Funded(g) == {g.balances[k].address : k \in DOMAIN g.balances}

\* The genesis files on disk agree, at every moment and wherever generate was
\* stopped: they are the same document; every key of every accounts.json, and every
\* validator's key next to them, counts in it, once; no two accounts have a number;
\* the supply is the sum of the balances; and every validator's stake is covered
\* (GenerateConfigs, generator.go:131-154 and 192; Genesis.Save).
GenesisConsistent ==
    \A g \in Docs :
        /\ Docs = {g}
        /\ \A k \in DOMAIN disk.accounts : Range(disk.accounts[k]) \subseteq Funded(g)
        /\ Cardinality(Funded(g)) = Len(g.balances)
        /\ Funded(g) = {g.accounts[k].address : k \in DOMAIN g.accounts}
        /\ \A j, k \in DOMAIN g.accounts : g.accounts[j].number = g.accounts[k].number => j = k
        /\ g.supply = SumFunction([k \in DOMAIN g.balances |-> g.balances[k].coins])
        /\ \A h \in DOMAIN disk.nodes :
              disk.nodes[h].priv_validator_key # NoKey =>
                 \E t \in Range(g.genTxs) :
                    /\ t.pubKey = disk.nodes[h].priv_validator_key
                    /\ \E b \in Range(g.balances) :
                          b.address = t.staker /\ b.coins >= t.amount

Fits == env.localNative \/ env.subnet + Len(gen.configs) + 1 < Octet

IPOf(home) ==
    IF ~disk.compose.written THEN Localhost
    ELSE (CHOOSE s \in Range(disk.compose.services) : s.home = home).ip

Endpoints(home) ==
    {IPOf(home)} \X (disk.nodes[home].config.listens \union disk.nodes[home].app.listens)

\* Once generate is done the addresses and the peer lists agree: no two nodes
\* listen at the same address and port, and the peers in a node's config.toml
\* are the validators other than itself, each with the address, the port and the
\* id it is started with, as long as the subnet's last octet has room for all of
\* them (ipInSubnet, shiftPorts and the second pass, generator.go:201-212). What
\* else the templates tell a node about accepting peers is not looked at.
Connected ==
    pc = "done" /\ Fits =>
        \A h \in DOMAIN disk.nodes :
            LET dir    == disk.nodes[h]
                Others == {v \in DOMAIN disk.nodes : v # h /\ v[1] = "validators"}
            IN  /\ \A k \in DOMAIN disk.nodes \ {h} : Endpoints(h) \intersect Endpoints(k) = {}
                /\ dir.config.p2p \in dir.config.listens
                /\ Range(dir.config.persistentPeers) =
                      {[id |-> NodeID(disk.nodes[v].node_key), ip |-> IPOf(v),
                        port |-> disk.nodes[v].config.p2p] : v \in Others}
                /\ Len(dir.config.persistentPeers) = Cardinality(Others)
=============================================================================
