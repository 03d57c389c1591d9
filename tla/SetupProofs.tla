---------------------------- MODULE SetupProofs ----------------------------
(***************************************************************************)
(* That the stress runs of one command line after another, beside a        *)
(* generate that may stop anywhere and be run again, have the settings the *)
(* documentation promises and share no account between instances, and that *)
(* they leave the cluster as generate laid it out.                         *)
(***************************************************************************)
EXTENDS CommandLine, GenesisProofs, SequenceTheorems

\* The commands read the files of generate and never write them: whatever they do, the
\* deployment goes through the steps of a generate alone (main.go, whose readAccounts
\* only reads).
THEOREM RefinesGenerator == Spec => GenSpec
<1>1. Init => GenInit
    BY Zenon DEF Init
<1>2. [Next]_vars => [GenNext]_genVars
    <2>1. CASE Generate
        BY <2>1, Zenon DEF Generate
    <2>2. CASE Exit
        BY <2>2, Zenon DEF Exit
    <2>3. CASE \E inv \in Invocations : Execute(inv)
        BY <2>3, Zenon DEF Execute
    <2>4. CASE UNCHANGED vars
        BY <2>4, Zenon DEF vars
    <2> QED  BY <2>1, <2>2, <2>3, <2>4, Zenon DEF Next
<1> QED  BY <1>1, <1>2, PTL DEF Spec, GenSpec

\* Connected for any clusters and command lines: once generate is done its nodes find each
\* other, whatever was generated before it and whichever commands ran beside it
\* (ipInSubnet, shiftPorts and the second pass, generator.go:201-212).
THEOREM ConnectedCorrect == Spec => []Connected
BY RefinesGenerator, NodesConnected, PTL

\* GenesisConsistent for any clusters and command lines: the nodes' genesis files are one
\* document that funds every key of every accounts.json, at every moment a command may read
\* them (generator.go:131-154, 192; genesis.go:141-250).
THEOREM GenesisConsistentCorrect == Spec => []GenesisConsistent
BY RefinesGenerator, GenesisFilesConsistent, PTL
-----------------------------------------------------------------------------
(* The files                                                               *)

\* The key files of the deployment: each key is in one place of one file, and is
\* one that was drawn.
FilesInv ==
    \A k \in DOMAIN disk.accounts :
        /\ disk.accounts[k] \in Seq(1..(nextKey - 1))
        /\ IsInjective(disk.accounts[k])
        /\ \A j \in DOMAIN disk.accounts :
              j # k => Range(disk.accounts[j]) \intersect Range(disk.accounts[k]) = {}

\* A stress run has keys that were drawn, and shares none with the key file of
\* another instance, the ones of a later generate included.
RunsInv ==
    \A r \in started :
        /\ Range(r.accounts) \subseteq 1..(nextKey - 1)
        /\ r.generation \in Nat /\ r.generation <= generations
        /\ \A k \in DOMAIN disk.accounts :
              k # r.instance => Range(r.accounts) \intersect Range(disk.accounts[k]) = {}

\* The key file that is written next is not there yet: generate starts without any
\* and goes through the instances in their order.
NextFile ==
    /\ i \in Nat
    /\ pc = "validators" => DOMAIN disk.accounts = {}
    /\ pc = "instances" => DOMAIN disk.accounts \subseteq 0..(i - 1)

SetupInv ==
    /\ generations \in Nat
    /\ FilesInv
    /\ RunsInv
    /\ NextFile
    /\ InstancesIndependent

\* Every step of generate has a new file to write next.
LEMMA NextFileStep ==
    ASSUME GenTypeOK, SetupInv, GenNext
    PROVE  NextFile'
<1>0. i \in Nat /\ DOMAIN disk = DOMAIN NoFiles
    BY Zenon DEF GenTypeOK, SetupInv, NextFile
<1>1. ASSUME NEW e \in Environments, GenerateConfigs(e) PROVE NextFile'
    <2>1. i' = 0 /\ (pc' = "panicked" \/ (pc' = "validators" /\ disk' = NoFiles))
        BY <1>1, Zenon DEF GenerateConfigs
    <2>2. DOMAIN NoFiles.accounts = {}
        BY DEF NoFiles
    <2> QED  BY <2>1, <2>2 DEF NextFile
<1>2. ASSUME NEW e \in Environments, RemoveAllFails(e) PROVE NextFile'
    BY <1>0, <1>2 DEF RemoveAllFails, NextFile
<1>3. CASE GenerateValidator
    <2>1. pc = "validators" /\ disk'.accounts = disk.accounts
        BY <1>0, <1>3 DEF GenerateValidator, NoFiles
    <2>2. (pc' = pc /\ i' = i + 1) \/ (pc' = "instances" /\ i' = 0)
        BY <1>3, Zenon DEF GenerateValidator, Iterate
    <2>3. DOMAIN disk'.accounts = {}
        BY <2>1, Zenon DEF SetupInv, NextFile
    <2> QED  BY <1>0, <2>1, <2>2, <2>3 DEF NextFile
<1>4. CASE GenerateInstance
    <2>1. pc = "instances" /\ DOMAIN disk'.accounts = DOMAIN disk.accounts \union {i}
        BY <1>0, <1>4 DEF GenerateInstance, NoFiles, Put
    <2>2. (pc' = pc /\ i' = i + 1) \/ (pc' = "genesis" /\ i' = 0)
        BY <1>4, Zenon DEF GenerateInstance, Iterate
    <2>3. DOMAIN disk.accounts \subseteq 0..(i - 1)
        BY <2>1, Zenon DEF SetupInv, NextFile
    <2>4. DOMAIN disk'.accounts \subseteq 0..((i + 1) - 1)
        BY <1>0, <2>1, <2>3
    <2> QED  BY <1>0, <2>1, <2>2, <2>4 DEF NextFile
<1>5. CASE \/ SaveValidatorGenesis \/ GenerateSentry \/ SaveValidatorPeers
           \/ WriteDockerCompose \/ GeneratorPanics
    <2>1. i' = i \/ i' = i + 1 \/ i' = 0
        BY <1>5, Zenon DEF SaveValidatorGenesis, GenerateSentry, SaveValidatorPeers,
            WriteDockerCompose, GeneratorPanics, Iterate
    <2>2. pc' \notin {"validators", "instances"}
        BY <1>5 DEF SaveValidatorGenesis, GenerateSentry, SaveValidatorPeers,
            WriteDockerCompose, GeneratorPanics, Iterate
    <2> QED  BY <1>0, <2>1, <2>2 DEF NextFile
<1> QED  BY <1>1, <1>2, <1>3, <1>4, <1>5, Zenon DEF GenNext

\* Keys stay drawn.
LEMMA MoreDrawn ==
    ASSUME NEW m \in Nat, NEW n \in Nat, m <= n
    PROVE  1..(m - 1) \subseteq 1..(n - 1)
OBVIOUS

\* A sequence of keys is one of the keys drawn later, too.
LEMMA StillDrawn ==
    ASSUME NEW m \in Nat, NEW n \in Nat, m <= n, NEW s \in Seq(1..(m - 1))
    PROVE  /\ 1..(m - 1) \subseteq 1..(n - 1)
           /\ s \in Seq(1..(n - 1))
           /\ Range(s) \subseteq 1..(m - 1)
<1>1. 1..(m - 1) \subseteq 1..(n - 1)
    OBVIOUS
<1>2. s \in Seq(1..(n - 1))
    BY <1>1
<1>3. Range(s) \subseteq 1..(m - 1)
    BY DEF Range
<1> QED  BY <1>1, <1>2, <1>3

\* What keeps the files, or some of them, and draws keys or none, keeps what is
\* known of the files and of the runs that were started.
LEMMA FewerFiles ==
    ASSUME GenTypeOK, SetupInv, NextFile', UNCHANGED started,
           nextKey' \in Nat, nextKey <= nextKey',
           DOMAIN disk'.accounts \subseteq DOMAIN disk.accounts,
           \A k \in DOMAIN disk'.accounts : disk'.accounts[k] = disk.accounts[k],
           \/ generations' = generations + 1
           \/ generations' = generations /\ DOMAIN disk'.accounts = DOMAIN disk.accounts
    PROVE  SetupInv'
<1>0. /\ nextKey \in Nat
      /\ 1..(nextKey - 1) \subseteq 1..(nextKey' - 1)
    <2>1. nextKey \in Nat
        BY DEF GenTypeOK
    <2> QED  BY <2>1, MoreDrawn, Zenon
<1>1. FilesInv'
    <2>1. ASSUME NEW k \in DOMAIN disk'.accounts
          PROVE  disk'.accounts[k] \in Seq(1..(nextKey' - 1))
        <3>1. disk'.accounts[k] \in Seq(1..(nextKey - 1))
            BY Zenon DEF SetupInv, FilesInv
        <3> QED  BY <1>0, <3>1, StillDrawn
    <2>2. ASSUME NEW k \in DOMAIN disk'.accounts
          PROVE  /\ IsInjective(disk'.accounts[k])
                 /\ \A j \in DOMAIN disk'.accounts : j # k =>
                       Range(disk'.accounts[j]) \intersect Range(disk'.accounts[k]) = {}
        BY Zenon DEF SetupInv, FilesInv
    <2> QED  BY <2>1, <2>2, Zenon DEF FilesInv
<1>2. generations \in Nat /\ generations' \in Nat
    BY DEF SetupInv
<1>3. \A r \in started :
          /\ r.generation \in Nat /\ r.generation <= generations'
          /\ r.generation = generations' =>
                generations' = generations /\ DOMAIN disk'.accounts = DOMAIN disk.accounts
    <2> TAKE r \in started
    <2>1. r.generation \in Nat /\ r.generation <= generations
        BY Zenon DEF SetupInv, RunsInv
    <2> QED  BY <1>2, <2>1
<1>4. RunsInv'
    BY <1>0, <1>3, Zenon DEF SetupInv, RunsInv
<1>5. \A r \in started : r.generation = generations' =>
          /\ r.instance \in DOMAIN disk'.accounts
          /\ Range(r.accounts) \subseteq Range(disk'.accounts[r.instance])
    BY <1>3, Zenon DEF SetupInv, InstancesIndependent
<1>6. InstancesIndependent'
    BY <1>5, Zenon DEF SetupInv, InstancesIndependent
<1> QED  BY <1>1, <1>2, <1>4, <1>6, Zenon DEF SetupInv

\* The keys GenerateInstance draws are all different, and none was drawn before.
LEMMA NewKeys ==
    ASSUME NEW n \in Nat, NEW k \in Nat \ {0}, NEW keys,
           keys = [j \in 1..n |-> k + (j - 1)]
    PROVE  /\ keys \in Seq(1..(k + n - 1))
           /\ IsInjective(keys)
           /\ \A x \in 1..(k - 1) : x \notin Range(keys)
<1>1. \A j \in 1..n : keys[j] \in 1..(k + n - 1) /\ keys[j] >= k
    OBVIOUS
<1>2. keys \in Seq(1..(k + n - 1))
    BY <1>1
<1>3. IsInjective(keys)
    BY DEF IsInjective
<1>4. \A x \in 1..(k - 1) : x \notin Range(keys)
    BY <1>1 DEF Range
<1> QED  BY <1>2, <1>3, <1>4

\* A key file of keys that are all new keeps the files apart, and apart from the
\* runs.
LEMMA NewFile ==
    ASSUME GenTypeOK, SetupInv, NextFile', NEW keys, NEW n \in Nat,
           nextKey' = nextKey + n, UNCHANGED <<started, generations>>,
           pc = "instances",
           disk' = [disk EXCEPT !.accounts = Put(@, i, keys)],
           keys \in Seq(1..(nextKey + n - 1)), IsInjective(keys),
           \A x \in 1..(nextKey - 1) : x \notin Range(keys)
    PROVE  SetupInv'
<1>1. /\ DOMAIN disk'.accounts = DOMAIN disk.accounts \union {i}
      /\ \A k \in DOMAIN disk'.accounts :
            disk'.accounts[k] = IF k = i THEN keys ELSE disk.accounts[k]
    BY DEF GenTypeOK, NoFiles, Put
<1>2. /\ nextKey \in Nat /\ nextKey <= nextKey' /\ nextKey' \in Nat
      /\ 1..(nextKey - 1) \subseteq 1..(nextKey' - 1)
      /\ keys \in Seq(1..(nextKey' - 1))
    BY DEF GenTypeOK
<1>3. \A k \in DOMAIN disk.accounts :
          /\ disk.accounts[k] \in Seq(1..(nextKey' - 1))
          /\ Range(disk.accounts[k]) \subseteq 1..(nextKey - 1)
    <2>1. TAKE k \in DOMAIN disk.accounts
    <2>2. disk.accounts[k] \in Seq(1..(nextKey - 1))
        BY <2>1, Zenon DEF SetupInv, FilesInv
    <2> QED  BY <1>2, <2>2, StillDrawn
<1>4. FilesInv'
    <2>1. SUFFICES ASSUME NEW k \in DOMAIN disk'.accounts
                   PROVE  /\ disk'.accounts[k] \in Seq(1..(nextKey' - 1))
                          /\ IsInjective(disk'.accounts[k])
                          /\ \A j \in DOMAIN disk'.accounts : j # k =>
                                Range(disk'.accounts[j]) \intersect Range(disk'.accounts[k]) = {}
        BY <2>1, Zenon DEF FilesInv
    <2>2. CASE k = i
        <3>1. disk'.accounts[k] = keys
            BY <1>1, <2>2, Zenon
        <3>2. ASSUME NEW j \in DOMAIN disk'.accounts, j # k
              PROVE  Range(disk'.accounts[j]) \intersect Range(keys) = {}
            <4>1. disk'.accounts[j] = disk.accounts[j] /\ j \in DOMAIN disk.accounts
                BY <1>1, <2>2, <3>2, Zenon
            <4> QED  BY <1>3, <4>1, Zenon
        <3> QED  BY <1>2, <3>1, <3>2, Zenon
    <2>3. CASE k # i
        <3>1. k \in DOMAIN disk.accounts /\ disk'.accounts[k] = disk.accounts[k]
            BY <1>1, <2>3, Zenon
        <3>2. ASSUME NEW j \in DOMAIN disk'.accounts, j # k
              PROVE  Range(disk'.accounts[j]) \intersect Range(disk.accounts[k]) = {}
            <4>1. CASE j = i
                <5>1. disk'.accounts[j] = keys
                    BY <1>1, <4>1, Zenon
                <5> QED  BY <1>3, <3>1, <5>1, Zenon
            <4>2. CASE j # i
                <5>1. j \in DOMAIN disk.accounts /\ disk'.accounts[j] = disk.accounts[j]
                    BY <1>1, <4>2, Zenon
                <5> QED  BY <3>1, <3>2, <5>1, Zenon DEF SetupInv, FilesInv
            <4> QED  BY <4>1, <4>2, Zenon
        <3>3. IsInjective(disk.accounts[k])
            BY <3>1, Zenon DEF SetupInv, FilesInv
        <3> QED  BY <1>3, <3>1, <3>2, <3>3, Zenon
    <2> QED  BY <2>2, <2>3, Zenon
<1>5. RunsInv'
    <2>1. SUFFICES ASSUME NEW r \in started
                   PROVE  /\ Range(r.accounts) \subseteq 1..(nextKey' - 1)
                          /\ r.generation \in Nat /\ r.generation <= generations
                          /\ \A k \in DOMAIN disk'.accounts : k # r.instance =>
                                Range(r.accounts) \intersect Range(disk'.accounts[k]) = {}
        BY <2>1, Zenon DEF RunsInv
    <2>2. /\ Range(r.accounts) \subseteq 1..(nextKey - 1)
          /\ r.generation \in Nat /\ r.generation <= generations
        BY Zenon DEF SetupInv, RunsInv
    <2>3. ASSUME NEW k \in DOMAIN disk'.accounts, k # r.instance
          PROVE  Range(r.accounts) \intersect Range(disk'.accounts[k]) = {}
        <3>1. CASE k = i
            <4>1. disk'.accounts[k] = keys
                BY <1>1, <3>1, Zenon
            <4> QED  BY <2>2, <4>1, Zenon
        <3>2. CASE k # i
            <4>1. k \in DOMAIN disk.accounts /\ disk'.accounts[k] = disk.accounts[k]
                BY <1>1, <3>2, Zenon
            <4> QED  BY <2>3, <4>1, Zenon DEF SetupInv, RunsInv
        <3> QED  BY <3>1, <3>2, Zenon
    <2> QED  BY <1>2, <2>2, <2>3, Zenon
<1>6. i \notin DOMAIN disk.accounts
    <2>1. i \in Nat /\ DOMAIN disk.accounts \subseteq 0..(i - 1)
        BY Zenon DEF SetupInv, NextFile
    <2> QED  BY <2>1
<1>7. \A r \in started : r.generation = generations =>
          /\ r.instance \in DOMAIN disk'.accounts
          /\ Range(r.accounts) \subseteq Range(disk'.accounts[r.instance])
    <2>1. \A r \in started : r.generation = generations =>
              /\ r.instance \in DOMAIN disk.accounts
              /\ Range(r.accounts) \subseteq Range(disk.accounts[r.instance])
        BY Zenon DEF SetupInv, InstancesIndependent
    <2> QED  BY <1>1, <1>6, <2>1, Zenon
<1>8. InstancesIndependent'
    BY <1>7, Zenon DEF SetupInv, InstancesIndependent
<1> QED  BY <1>4, <1>5, <1>8, Zenon DEF SetupInv

\* generate, wherever it is and wherever it stops.
LEMMA GenerateStep ==
    ASSUME GenTypeOK, SetupInv, Generate
    PROVE  SetupInv'
<1>0. /\ UNCHANGED started
      /\ nextKey \in Nat \ {0}
      /\ DOMAIN disk = DOMAIN NoFiles
      /\ NextFile'
    BY NextFileStep, Zenon DEF Generate, GenTypeOK
<1>1. ASSUME NEW e \in Environments, GenerateConfigs(e)
      PROVE  SetupInv'
    <2>1. /\ nextKey' \in Nat
          /\ nextKey <= nextKey'
        BY <1>0, <1>1 DEF GenerateConfigs
    <2>3. (disk' = disk \/ disk' = NoFiles) /\ generations' = generations + 1
        BY <1>1, Zenon DEF GenerateConfigs
    <2>4. /\ DOMAIN disk'.accounts \subseteq DOMAIN disk.accounts
          /\ \A k \in DOMAIN disk'.accounts : disk'.accounts[k] = disk.accounts[k]
        <3>1. CASE disk' = disk
            BY <3>1, Zenon
        <3>2. CASE disk' = NoFiles
            <4>1. DOMAIN disk'.accounts = {}
                BY <3>2 DEF NoFiles
            <4> QED  BY <3>2, <4>1, Zenon
        <3> QED  BY <2>3, <3>1, <3>2, Zenon
    <2> QED  BY <1>0, <2>1, <2>3, <2>4, FewerFiles, Zenon
<1>2. ASSUME NEW e \in Environments, RemoveAllFails(e)
      PROVE  SetupInv'
    <2>1. /\ nextKey' \in Nat
          /\ nextKey <= nextKey'
          /\ generations' = generations + 1
        BY <1>0, <1>2 DEF RemoveAllFails
    <2>3. PICK homes \in SUBSET DOMAIN disk.nodes, instances \in SUBSET DOMAIN disk.accounts :
              disk' = [disk EXCEPT !.nodes = [h \in homes |-> disk.nodes[h]],
                                   !.accounts = [k \in instances |-> disk.accounts[k]],
                                   !.compose = Missing]
        BY <1>2, Zenon DEF RemoveAllFails
    <2>4. disk'.accounts = [k \in instances |-> disk.accounts[k]]
        BY <1>0, <2>3 DEF NoFiles
    <2>5. /\ DOMAIN disk'.accounts \subseteq DOMAIN disk.accounts
          /\ \A k \in DOMAIN disk'.accounts : disk'.accounts[k] = disk.accounts[k]
        BY <2>4, Zenon
    <2> QED  BY <1>0, <2>1, <2>5, FewerFiles, Zenon
<1>3. ASSUME GenerateInstance
      PROVE  SetupInv'
    <2>1. /\ pc = "instances" /\ pc # "idle"
          /\ UNCHANGED generations
          /\ env.accountsPerInstance >= 0
          /\ nextKey' = nextKey + env.accountsPerInstance
        BY <1>3 DEF GenerateInstance
    <2>2. env.accountsPerInstance \in Int
        BY <2>1, EnvTypes, Zenon DEF GenTypeOK
    <2>3. env.accountsPerInstance \in Nat
        BY <2>1, <2>2
    <2>4. disk' = [disk EXCEPT !.accounts =
                     Put(@, i, [k \in 1..env.accountsPerInstance |-> nextKey + (k - 1)])]
        BY <1>3 DEF GenerateInstance, GenerateSecp256k1Key
    <2>5. PICK keys : keys = [k \in 1..env.accountsPerInstance |-> nextKey + (k - 1)]
        BY Zenon
    <2>6. disk' = [disk EXCEPT !.accounts = Put(@, i, keys)]
        BY <2>4, <2>5, Zenon
    <2>7. /\ keys \in Seq(1..(nextKey + env.accountsPerInstance - 1))
          /\ IsInjective(keys)
          /\ \A x \in 1..(nextKey - 1) : x \notin Range(keys)
        BY <1>0, <2>3, <2>5, NewKeys, Zenon
    <2> QED  BY <1>0, <2>1, <2>3, <2>6, <2>7, NewFile, Zenon
<1>4. ASSUME \/ GenerateValidator
             \/ SaveValidatorGenesis
             \/ GenerateSentry
             \/ SaveValidatorPeers
             \/ WriteDockerCompose
             \/ GeneratorPanics
      PROVE  SetupInv'
    <2>1. nextKey' = nextKey \/ nextKey' = nextKey + 1 \/ nextKey' = nextKey + 3
        BY <1>4, Zenon DEF GenerateValidator, SaveValidatorGenesis, GenerateSentry,
            SaveValidatorPeers, WriteDockerCompose, GeneratorPanics
    <2>2. /\ nextKey' \in Nat
          /\ nextKey <= nextKey'
        BY <1>0, <2>1
    <2>3. generations' = generations
        BY <1>4, Zenon DEF GenerateValidator, SaveValidatorGenesis, GenerateSentry,
            SaveValidatorPeers, WriteDockerCompose, GeneratorPanics
    <2>5. disk'.accounts = disk.accounts
        <3>1. CASE GenerateValidator
            BY <1>0, <3>1 DEF GenerateValidator, NoFiles
        <3>2. CASE SaveValidatorGenesis
            BY <1>0, <3>2 DEF SaveValidatorGenesis, NoFiles
        <3>3. CASE GenerateSentry
            BY <1>0, <3>3 DEF GenerateSentry, NoFiles
        <3>4. CASE SaveValidatorPeers
            BY <1>0, <3>4 DEF SaveValidatorPeers, NoFiles
        <3>5. CASE WriteDockerCompose
            BY <1>0, <3>5 DEF WriteDockerCompose, NoFiles
        <3>6. CASE GeneratorPanics
            BY <1>0, <3>6, Zenon DEF GeneratorPanics
        <3> QED  BY <1>4, <3>1, <3>2, <3>3, <3>4, <3>5, <3>6, Zenon
    <2>6. /\ DOMAIN disk'.accounts \subseteq DOMAIN disk.accounts
          /\ \A k \in DOMAIN disk'.accounts : disk'.accounts[k] = disk.accounts[k]
        BY <2>5, Zenon
    <2> QED  BY <1>0, <2>2, <2>3, <2>5, <2>6, FewerFiles, Zenon
<1> QED  BY <1>1, <1>2, <1>3, <1>4, Zenon DEF Generate, GenNext
-----------------------------------------------------------------------------
(* The commands                                                            *)

\* A stress run that starts has the first keys of its instance's file.
LEMMA StressStarts ==
    ASSUME NEW inv, NEW cfg, NEW provider, inv.num \in Int,
           Stress(inv, cfg, provider).kind = "stress"
    PROVE  /\ Stress(inv, cfg, provider).cfg = cfg
           /\ Stress(inv, cfg, provider).flags = inv.flags
           /\ Stress(inv, cfg, provider).yaml = inv.yaml
           /\ inv.num > 0
           /\ inv.instance \in DOMAIN disk.accounts
           /\ ~(inv.num > Len(disk.accounts[inv.instance]))
           /\ Stress(inv, cfg, provider).accounts = SubSeq(disk.accounts[inv.instance], 1, inv.num)
<1>1. /\ readAccounts(inv.instance, inv.num) # Fails
      /\ Stress(inv, cfg, provider) =
            [kind |-> "stress", cfg |-> cfg, flags |-> inv.flags, yaml |-> inv.yaml,
             accounts |-> readAccounts(inv.instance, inv.num).accounts]
    BY DEF Stress, Fails
<1>2. /\ ~(inv.num <= 0)
      /\ inv.instance \in DOMAIN disk.accounts
      /\ ~(inv.num > Len(disk.accounts[inv.instance]))
      /\ readAccounts(inv.instance, inv.num) =
            [kind |-> "read", accounts |-> SubSeq(disk.accounts[inv.instance], 1, inv.num)]
    BY <1>1, Zenon DEF readAccounts
<1> QED  BY <1>1, <1>2

\* What a stress run is configured with, in general: the flags and the defaults,
\* or those with the file over them.
Configured(inv, cfg) ==
    \/ inv.cmd # "tx-mixed-payload" /\ cfg = Parsed(inv)
    \/ cfg = applyStresserConfigFromYAML(Parsed(inv), inv.yaml, inv.flags)

\* Every command but tx-replay ends in Stress.
LEMMA StressCommands ==
    ASSUME NEW inv \in Invocations, main(inv).kind = "stress"
    PROVE  \E cfg, provider : main(inv) = Stress(inv, cfg, provider) /\ Configured(inv, cfg)
<1>1. CASE inv.cmd = "tx-bank-send"
    <2>1. main(inv) = txBankSendCmd(inv)
        BY <1>1 DEF main
    <2>2. \E provider : main(inv) = Stress(inv, Parsed(inv), provider)
        BY <2>1, Zenon DEF txBankSendCmd
    <2>3. Configured(inv, Parsed(inv))
        BY <1>1 DEF Configured
    <2> QED  BY <2>2, <2>3, Zenon
<1>2. CASE inv.cmd = "tx-bank-send-many"
    <2>1. main(inv) = txBankMultiSendCmd(inv)
        BY <1>2 DEF main
    <2>2. \E provider : main(inv) = Stress(inv, Parsed(inv), provider)
        BY <2>1, Zenon DEF txBankMultiSendCmd
    <2>3. Configured(inv, Parsed(inv))
        BY <1>2 DEF Configured
    <2> QED  BY <2>2, <2>3, Zenon
<1>3. CASE inv.cmd = "tx-eth-send"
    <2>1. main(inv) = txEthSendCmd(inv)
        BY <1>3 DEF main
    <2>2. \E provider : main(inv) = Stress(inv, Parsed(inv), provider)
        BY <2>1, Zenon DEF txEthSendCmd
    <2>3. Configured(inv, Parsed(inv))
        BY <1>3 DEF Configured
    <2> QED  BY <2>2, <2>3, Zenon
<1>4. CASE inv.cmd = "tx-eth-call"
    <2>1. main(inv) = txEthCallCmd(inv)
        BY <1>4 DEF main
    <2>2. \E provider : main(inv) = Stress(inv, Parsed(inv), provider)
        BY <2>1, Zenon DEF txEthCallCmd
    <2>3. Configured(inv, Parsed(inv))
        BY <1>4 DEF Configured
    <2> QED  BY <2>2, <2>3, Zenon
<1>5. CASE inv.cmd = "tx-eth-deploy"
    <2>1. main(inv) = txEthDeployCmd(inv)
        BY <1>5 DEF main
    <2>2. \E provider : main(inv) = Stress(inv, Parsed(inv), provider)
        BY <2>1, Zenon DEF txEthDeployCmd
    <2>3. Configured(inv, Parsed(inv))
        BY <1>5 DEF Configured
    <2> QED  BY <2>2, <2>3, Zenon
<1>6. CASE inv.cmd = "tx-eth-internal-call"
    <2>1. main(inv) = txEthInternalCallCmd(inv)
        BY <1>6 DEF main
    <2>2. \E provider : main(inv) = Stress(inv, Parsed(inv), provider)
        BY <2>1, Zenon DEF txEthInternalCallCmd
    <2>3. Configured(inv, Parsed(inv))
        BY <1>6 DEF Configured
    <2> QED  BY <2>2, <2>3, Zenon
<1>7. CASE inv.cmd = "tx-eth-userop"
    <2>1. main(inv) = txEthUserOpCmd(inv)
        BY <1>7 DEF main
    <2>2. \E provider : main(inv) = Stress(inv, Parsed(inv), provider)
        BY <2>1, Zenon DEF txEthUserOpCmd
    <2>3. Configured(inv, Parsed(inv))
        BY <1>7 DEF Configured
    <2> QED  BY <2>2, <2>3, Zenon
<1>8. CASE inv.cmd = "tx-exchange-batch-orders"
    <2>1. main(inv) = txExchangeBatchOrdersCmd(inv)
        BY <1>8 DEF main
    <2>2. \E provider : main(inv) = Stress(inv, Parsed(inv), provider)
        BY <2>1, Zenon DEF txExchangeBatchOrdersCmd
    <2>3. Configured(inv, Parsed(inv))
        BY <1>8 DEF Configured
    <2> QED  BY <2>2, <2>3, Zenon
<1>9. CASE inv.cmd = "tx-wasm-store-code"
    <2>1. main(inv) = txWasmStoreCodeCmd(inv)
        BY <1>9 DEF main
    <2>2. \E provider : main(inv) = Stress(inv, Parsed(inv), provider)
        BY <2>1, Zenon DEF txWasmStoreCodeCmd
    <2>3. Configured(inv, Parsed(inv))
        BY <1>9 DEF Configured
    <2> QED  BY <2>2, <2>3, Zenon
<1>10. CASE inv.cmd = "tx-wasm-init-contract"
    <2>1. main(inv) = txWasmInitContractCmd(inv)
        BY <1>10 DEF main
    <2>2. \E provider : main(inv) = Stress(inv, Parsed(inv), provider)
        BY <2>1, Zenon DEF txWasmInitContractCmd
    <2>3. Configured(inv, Parsed(inv))
        BY <1>10 DEF Configured
    <2> QED  BY <2>2, <2>3, Zenon
<1>11. CASE inv.cmd = "tx-wasm-exec-contract"
    <2>1. main(inv) = txWasmExecContractCmd(inv)
        BY <1>11 DEF main
    <2>2. \E provider : main(inv) = Stress(inv, Parsed(inv), provider)
        BY <2>1, Zenon DEF txWasmExecContractCmd
    <2>3. Configured(inv, Parsed(inv))
        BY <1>11 DEF Configured
    <2> QED  BY <2>2, <2>3, Zenon
<1>12. CASE inv.cmd = "tx-mixed-payload"
    <2>1. main(inv) = txMixedPayloadCmd(inv)
        BY <1>12 DEF main
    <2> QED  BY <2>1, Zenon DEF txMixedPayloadCmd, Configured
<1>13. CASE inv.cmd = "tx-replay"
    <2>1. main(inv) = txnsReplayCmd(inv)
        BY <1>13 DEF main
    <2>2. main(inv).kind \in {"panic", "replay"}
        BY <2>1 DEF txnsReplayCmd, Fails
    <2> QED  BY <2>2
<1> QED  BY <1>1, <1>2, <1>3, <1>4, <1>5, <1>6, <1>7, <1>8, <1>9, <1>10, <1>11, <1>12, <1>13,
             CommandLineAssumption, Zenon DEF Commands

\* The settings of Configured are in the order of precedence.
LEMMA Precedence ==
    ASSUME NEW inv \in Invocations, NEW cfg, Configured(inv, cfg), NEW s \in DOMAIN Defaults
    PROVE  /\ s \in DOMAIN inv.flags => cfg[s] = inv.flags[s]
           /\ s \notin DOMAIN inv.flags =>
                 cfg[s] = IF Given(inv.yaml, s) THEN inv.yaml[s] ELSE Defaults[s]
<1>1. /\ DOMAIN Parsed(inv) = DOMAIN Defaults
      /\ Parsed(inv)[s] = IF s \in DOMAIN inv.flags THEN inv.flags[s] ELSE Defaults[s]
    BY Zenon DEF Parsed
<1>2. CASE inv.cmd # "tx-mixed-payload" /\ cfg = Parsed(inv)
    <2>1. inv.yaml = << >>
        BY <1>2, CommandLineAssumption, Zenon
    <2>2. ~Given(inv.yaml, s)
        BY <2>1 DEF Given
    <2> QED  BY <1>1, <1>2, <2>2, Zenon
<1>3. CASE cfg = applyStresserConfigFromYAML(Parsed(inv), inv.yaml, inv.flags)
    <2>1. cfg[s] = IF Given(inv.yaml, s) /\ s \notin DOMAIN inv.flags
                   THEN inv.yaml[s] ELSE Parsed(inv)[s]
        BY <1>1, <1>3, Zenon DEF applyStresserConfigFromYAML
    <2> QED  BY <1>1, <2>1, Zenon
<1> QED  BY <1>2, <1>3, Zenon DEF Configured

\* One command after another, each from a state in which none is running.
LEMMA PrecedenceStep ==
    ASSUME FlagThenFile, [Next]_vars
    PROVE  FlagThenFile'
<1>1. CASE UNCHANGED last
    BY <1>1, Zenon DEF FlagThenFile
<1>2. CASE last' = Nothing
    BY <1>2 DEF FlagThenFile, Nothing
<1>3. ASSUME NEW inv \in Invocations, Execute(inv)
      PROVE  FlagThenFile'
    <2>1. last' = main(inv)
        BY <1>3, Zenon DEF Execute
    <2>2. SUFFICES ASSUME main(inv).kind = "stress", NEW s \in DOMAIN Defaults
                   PROVE  /\ s \in DOMAIN main(inv).flags =>
                                main(inv).cfg[s] = main(inv).flags[s]
                          /\ (/\ s \in DOMAIN main(inv).yaml \ DOMAIN main(inv).flags
                              /\ (s = "await" \/ main(inv).yaml[s] # 0)) =>
                                main(inv).cfg[s] = main(inv).yaml[s]
                          /\ s \notin DOMAIN main(inv).flags \union DOMAIN main(inv).yaml =>
                                main(inv).cfg[s] = Defaults[s]
        BY <2>1, <2>2, Zenon DEF FlagThenFile
    <2>3. PICK cfg, provider : main(inv) = Stress(inv, cfg, provider) /\ Configured(inv, cfg)
        BY <2>2, StressCommands, Zenon
    <2>4. inv.num \in Int
        BY CommandLineAssumption, Zenon
    <2>5. Stress(inv, cfg, provider).kind = "stress"
        BY <2>2, <2>3
    <2>6. /\ Stress(inv, cfg, provider).cfg = cfg
          /\ Stress(inv, cfg, provider).flags = inv.flags
          /\ Stress(inv, cfg, provider).yaml = inv.yaml
        BY <2>4, <2>5, StressStarts
    <2>7. /\ main(inv).cfg = cfg
          /\ main(inv).flags = inv.flags
          /\ main(inv).yaml = inv.yaml
        BY <2>3, <2>6, Zenon
    <2>8. /\ s \in DOMAIN inv.flags => cfg[s] = inv.flags[s]
          /\ s \notin DOMAIN inv.flags =>
                cfg[s] = IF Given(inv.yaml, s) THEN inv.yaml[s] ELSE Defaults[s]
        BY <2>2, <2>3, Precedence, Zenon
    <2> QED  BY <2>7, <2>8, Zenon DEF Given
<1> QED  BY <1>1, <1>2, <1>3, Zenon DEF Next, vars, Generate, Exit

\* FlagThenFile for any command lines and any YAML file, whatever generate does
\* meanwhile: the flags win, even at the default's value; the file comes next with
\* every value but zero; what neither names has its default
\* (applyStresserConfigFromYAML).
THEOREM FlagThenFileCorrect == Spec => []FlagThenFile
<1>1. Init => FlagThenFile
    BY DEF Init, FlagThenFile, Nothing
<1> QED  BY <1>1, PrecedenceStep, PTL DEF Spec
-----------------------------------------------------------------------------
(* The accounts of the stress runs                                         *)

\* The first keys of a file that is fit for use.
LEMMA FirstKeys ==
    ASSUME NEW S, NEW file \in Seq(S), NEW n \in Int, n > 0, ~(n > Len(file)), IsInjective(file)
    PROVE  /\ Len(SubSeq(file, 1, n)) = n
           /\ IsInjective(SubSeq(file, 1, n))
           /\ Range(SubSeq(file, 1, n)) \subseteq Range(file)
<1>1. /\ Len(file) \in Nat
      /\ DOMAIN file = 1..Len(file)
    OBVIOUS
<1>2. /\ Len(SubSeq(file, 1, n)) = n
      /\ DOMAIN SubSeq(file, 1, n) = 1..n
      /\ \A k \in 1..n : SubSeq(file, 1, n)[k] = file[k]
    BY <1>1, SubSeqProperties
<1>3. 1..n \subseteq DOMAIN file
    BY <1>1
<1> QED  BY <1>2, <1>3, Zenon DEF IsInjective, Range

\* A run that joins the ones before it has an account file of its instance, which
\* none of another instance shares.
LEMMA RunStarts ==
    ASSUME GenTypeOK, SetupInv, NEW run, started' = started \union {run},
           UNCHANGED genVars, run.generation = generations, run.num \in Int, run.num > 0,
           run.instance \in DOMAIN disk.accounts,
           ~(run.num > Len(disk.accounts[run.instance])),
           run.accounts = SubSeq(disk.accounts[run.instance], 1, run.num)
    PROVE  SetupInv'
<1>1. /\ disk.accounts[run.instance] \in Seq(1..(nextKey - 1))
      /\ IsInjective(disk.accounts[run.instance])
    BY Zenon DEF SetupInv, FilesInv
<1>2. /\ Len(run.accounts) = run.num
      /\ IsInjective(run.accounts)
      /\ Range(run.accounts) \subseteq Range(disk.accounts[run.instance])
    <2>1. PICK file, n : file = disk.accounts[run.instance] /\ n = run.num
        BY Zenon
    <2>2. /\ file \in Seq(1..(nextKey - 1)) /\ IsInjective(file)
          /\ n \in Int /\ n > 0 /\ ~(n > Len(file))
        BY <1>1, <2>1, Zenon
    <2>3. /\ Len(SubSeq(file, 1, n)) = n
          /\ IsInjective(SubSeq(file, 1, n))
          /\ Range(SubSeq(file, 1, n)) \subseteq Range(file)
        BY <2>2, FirstKeys, Zenon
    <2> QED  BY <2>1, <2>3, Zenon
<1>3. Range(disk.accounts[run.instance]) \subseteq 1..(nextKey - 1)
    <2>1. nextKey \in Nat /\ nextKey <= nextKey
        BY DEF GenTypeOK
    <2> QED  BY <1>1, <2>1, StillDrawn, Zenon
<1>4. /\ Range(run.accounts) \subseteq 1..(nextKey - 1)
      /\ \A k \in DOMAIN disk.accounts :
            k # run.instance => Range(run.accounts) \intersect Range(disk.accounts[k]) = {}
    <2>1. \A k \in DOMAIN disk.accounts : k # run.instance =>
              Range(disk.accounts[run.instance]) \intersect Range(disk.accounts[k]) = {}
        BY Zenon DEF SetupInv, FilesInv
    <2> QED  BY <1>2, <1>3, <2>1, Zenon
<1>5. \A s \in started : s.instance # run.instance =>
          Range(s.accounts) \intersect Range(run.accounts) = {}
    <2>1. \A s \in started : run.instance # s.instance =>
              Range(s.accounts) \intersect Range(disk.accounts[run.instance]) = {}
        BY Zenon DEF SetupInv, RunsInv
    <2> QED  BY <1>2, <2>1, Zenon
<1>6. /\ disk' = disk /\ nextKey' = nextKey /\ pc' = pc /\ i' = i
      /\ generations' = generations
    BY DEF genVars
<1>7. FilesInv'
    BY <1>6, Zenon DEF SetupInv, FilesInv
<1>8. RunsInv'
    <2>1. generations \in Nat /\ generations <= generations
        BY DEF SetupInv
    <2> QED  BY <1>4, <1>6, <2>1, Zenon DEF SetupInv, RunsInv
<1>9. InstancesIndependent'
    <2>1. SUFFICES ASSUME NEW r \in started \union {run}
                   PROVE  /\ Len(r.accounts) = r.num
                          /\ IsInjective(r.accounts)
                          /\ r.generation = generations =>
                                /\ r.instance \in DOMAIN disk.accounts
                                /\ Range(r.accounts) \subseteq Range(disk.accounts[r.instance])
                          /\ \A s \in started \union {run} : r.instance # s.instance =>
                                Range(r.accounts) \intersect Range(s.accounts) = {}
        BY <1>6, <2>1, Zenon DEF InstancesIndependent
    <2>2. CASE r = run
        BY <1>2, <1>5, <2>2, Zenon
    <2>3. CASE r \in started
        BY <1>5, <2>3, Zenon DEF SetupInv, InstancesIndependent
    <2> QED  BY <2>2, <2>3, Zenon
<1>10. NextFile' /\ generations' \in Nat
    BY <1>6, Zenon DEF SetupInv, NextFile
<1> QED  BY <1>7, <1>8, <1>9, <1>10, Zenon DEF SetupInv

\* Every step, of generate and of the commands.
LEMMA SetupStep ==
    ASSUME GenTypeOK, SetupInv, [Next]_vars
    PROVE  SetupInv'
<1>1. CASE Generate
    BY <1>1, GenerateStep, Zenon
<1>2. CASE UNCHANGED <<genVars, started>>
    BY <1>2, Zenon DEF genVars, SetupInv, FilesInv, RunsInv, NextFile, InstancesIndependent
<1>3. ASSUME NEW inv \in Invocations, Execute(inv)
      PROVE  SetupInv'
    <2>1. /\ UNCHANGED genVars
          /\ \/ UNCHANGED started
             \/ /\ main(inv).kind = "stress"
                /\ started' = started \union
                      {[instance |-> inv.instance, num |-> inv.num,
                        accounts |-> main(inv).accounts, generation |-> generations]}
        BY <1>3, Zenon DEF Execute
    <2>2. CASE UNCHANGED started
        BY <1>2, <2>1, <2>2, Zenon
    <2>3. CASE /\ main(inv).kind = "stress"
               /\ started' = started \union
                     {[instance |-> inv.instance, num |-> inv.num,
                       accounts |-> main(inv).accounts, generation |-> generations]}
        <3>1. PICK cfg, provider : main(inv) = Stress(inv, cfg, provider)
            BY <2>3, StressCommands, Zenon
        <3>2. inv.num \in Int
            BY CommandLineAssumption, Zenon
        <3>3. Stress(inv, cfg, provider).kind = "stress"
            BY <2>3, <3>1
        <3>4. /\ inv.num > 0
              /\ inv.instance \in DOMAIN disk.accounts
              /\ ~(inv.num > Len(disk.accounts[inv.instance]))
              /\ Stress(inv, cfg, provider).accounts =
                    SubSeq(disk.accounts[inv.instance], 1, inv.num)
            BY <3>2, <3>3, StressStarts
        <3>5. main(inv).accounts = SubSeq(disk.accounts[inv.instance], 1, inv.num)
            BY <3>1, <3>4
        <3>6. PICK run : run = [instance |-> inv.instance, num |-> inv.num,
                                accounts |-> main(inv).accounts, generation |-> generations]
            BY Zenon
        <3>7. /\ run.instance = inv.instance
              /\ run.num = inv.num
              /\ run.accounts = main(inv).accounts
              /\ run.generation = generations
            BY <3>6
        <3>8. started' = started \union {run}
            BY <2>3, <3>6, Zenon
        <3>9. /\ run.num \in Int
              /\ run.num > 0
              /\ run.instance \in DOMAIN disk.accounts
              /\ ~(run.num > Len(disk.accounts[run.instance]))
              /\ run.accounts = SubSeq(disk.accounts[run.instance], 1, run.num)
            BY <3>2, <3>4, <3>5, <3>7, Zenon
        <3> QED  BY <2>1, <3>7, <3>8, <3>9, RunStarts, Zenon
    <2> QED  BY <2>1, <2>2, <2>3, Zenon
<1> QED  BY <1>1, <1>2, <1>3, Zenon DEF Next, vars, Exit

\* Where every stress run's accounts come from: a key is in one place of one key
\* file, all keys were drawn once, and what a run was given stays apart from the
\* other instances' files, the ones a later generate writes included.
THEOREM SetupInvariant == Spec => []SetupInv
<1>1. Init => SetupInv
    BY DEF Init, GenInit, NoFiles, SetupInv, FilesInv, RunsInv, NextFile, InstancesIndependent
<1>2. Spec => []GenTypeOK
    BY RefinesGenerator, GenTypeCorrect, PTL
<1> QED  BY <1>1, <1>2, SetupStep, PTL DEF Spec

\* InstancesIndependent for any clusters and command lines: a stress run has as
\* many accounts as it asked for, all different, of its instance's file as long as the
\* generation lasts, and shares none with a run of another instance, however often
\* generate ran between the two and wherever it stopped (readAccounts; the instances'
\* loop of GenerateConfigs).
THEOREM InstancesIndependentCorrect == Spec => []InstancesIndependent
<1>1. SetupInv => InstancesIndependent
    BY Zenon DEF SetupInv
<1> QED  BY <1>1, SetupInvariant, PTL
=============================================================================
