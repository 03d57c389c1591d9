# chain-stresser: specifications and proofs

TLA+ models of chain-stresser, the load generator in this repository: from the
`generate` command and the command line, through setting a run up and preparing
its transactions, to broadcasting, rate limiting and replaying. `PROJECT.json`
maps each definition to the lines it models, lists the runs, the mutants that
show each property can fail, the hazards of the code and the theorems.

## The system

| part | source | modelled in |
|---|---|---|
| config generator, genesis, node files | `generator.go`, `chain/genesis.go`, `chain/config_*.go`, `chain/docker.go` | `Generator`, `Genesis`, `NodeFiles` |
| command line and YAML | `cmd/chain-stresser/main.go` | `CommandLine`; height checks in `Replay` |
| payload providers, mixed payload | `payload/` | `Providers`, `MixedPayload` |
| user operations | `eth/aa/` | `UserOps` |
| initial transactions | `stresser.go` 632-741 | `Workload`; their outcome in `Prepare` |
| preparation phase of `Stress`: generate, worker pool, signers, collect | `stresser.go` 181-364 | `Prepare` |
| broadcast phase of `Stress`: one goroutine per account | `stresser.go` 392-455 | `Broadcast` |
| `Client.Broadcast` and the sequence errors | `chain/client.go` 107-253, 344-415 | `Broadcast` |
| rate limiter | `pkg/ratelimit/`, `stresser.go` 744-768 | `RateLimit`, `Throttle` |
| sniffer, block provider, `StressReplay` | `replay/sniffer.go`, `payload/txns_replay_stress.go`, `stresser.go` 63-158, 459-599 | `Replay` |
| gas fuzzer | `replay/fuzzer.go` | `GasFuzzer` |
| building and signing transactions | `chain/client.go` 255-342, `chain/key.go` | what is signed, in `Prepare` and `Providers` |
| JSON-RPC client | `eth/jsonrpc/` | `JsonRpc` |

`generate` writes a cluster's files and each instance's accounts; a command reads
them, settles its configuration, builds a provider and calls `Stress` or
`StressReplay`. `Stress` first prepares: the initial transactions are broadcast,
then each account's sequence number is read and its transactions are generated,
signed and filed in `signedTxs`. It then broadcasts each account's slice in
order, every transaction through the shared rate limiter. `StressReplay` is
separate: a sniffer goroutine feeds blocks of a remote chain through a buffered
channel.

The modules meet where the parts do. `PreparedTxs` is what `Prepare` promises,
and it is what `SeqOf` in `Broadcast` takes for granted. `Prepare` allows every
outcome of the initial transactions; `Workload` opens them up and composes them
with the providers, their chain and the traffic that relies on both.
`RateLimit` puts the senders of either kind, with `GasFuzzer`, in front of the
limiters. `CommandLine` runs over the files `Generator` leaves and constructs the
providers of `MixedPayload`.

## Modules

**Prepare.** State: the queues, each job's and signer's control, `collect`'s
count, `signedTxs`, `initialAccountSequences`, the group's context, its result,
and `exit`, what ended the process. A transaction is its account, index and
sequence number; its signed bytes are the account and the number signed over.
`createAndBroadcastInitialTxs` is one action that leaves any set of initial
transactions included and any other set pending, since it returns nil even if
all attempts fail; `LateInclusion` includes a pending one at any time.
`CloseGroup` is what the code relies on from `parallel.Run`: the first error, or
the return of the `parallel.Exit` task, cancels the context and decides the
result.

**Broadcast.** State: each account goroutine's `txIndex` and position, the
context, the outcome; and of the node, which is external: committed and mempool
sequence numbers, mempool, cache, results. The node may drop transactions on
recheck, restart, forget cache entries, and execute transactions of the same
accounts from elsewhere. `accepted`, `foreign`, `others` and `drops` (by account)
are history.
`IndexOf` is a plain difference: the wrap-around of the unsigned subtraction at
`stresser.go:421` and the conversion to int cancel. A full mempool is retried by
staying in `send`.

**Replay.** State: the sniffer's height and position, the three channels
(buffered heights, an error, which are closed), the context, `StressReplay`'s
position and the counters of the block. A block is its height, its transactions
are a number, an answer is a category of `categorizeError`. Failed attempts that
are retried, the select's timeout, its `ctx.Done()` case, and a receive from the
closed `errCh` change nothing and are stuttering.

**Throttle**, **RateLimit**, **GasFuzzer.** `Throttle` says what a rate limit
promises: a bucket that fills by one a tick up to its capacity, and releases only
what it holds. `RateLimit` has the senders: each passes the limiters of
transactions, bytes and gas in turn (`stage`), asks for a large transaction's
tokens in chunks of the burst (`remaining`), reserves them ahead of time
(`tokens` below zero) and waits until they are `due`. Time and tokens are both
in ticks, so no fraction is rounded. `rate.Limiter` is external; what it
restores when a wait is cancelled is left out, since all senders share the
cancelled context and nobody can take it any more. One sender may be `StressReplay`, whose transactions `GasFuzzer` changes and which falls back to
the original when a fuzzed one fails. `upto`, `reserved`, `released`, `mark` and
`paid`, what a sender was granted for the transaction it has, are history.

**Providers**, **UserOps**, **MixedPayload**, **Workload.** A provider is a
record; its constructor, `GenerateInitialTx`, `GenerateTx` and `BuildAndSignTx`
are operators that return its next state with what they build, or a failure, or
a panic. Addresses, hashes and packed bytes are the tuples they are derived from,
so two are equal exactly when their parts are. `Workload` runs them against a
chain (external) that executes bank, wasm and Ethereum transactions, takes code
from others, and loses mempool transactions. Its pool has every attempt's
signing, refusal, request timeout and confirmation timeout as a step; `copies`
is history, all that a worker has signed for its key. How traffic
is queued and resent is left to `Prepare` and `Broadcast`: an account stops at the
first refusal.

**JsonRpc.** A caller prepares a call (`CallBatch` writes ids to the request
objects), marshals it, and gets what `doCall` or `doBatchCall` makes of the
HTTP status, the body and its decoding. The server answers any part of a batch
in any order. Objects may be used again and shared between callers.

**Genesis**, **NodeFiles**, **Generator**, **CommandLine.** The genesis document
is a record with its methods as operators. `Generator` takes one step for every
iteration of the loops of `GenerateConfigs`; any write may fail, which panics and
leaves what was written, and the command may run again. It is a specification of
its own, `GenSpec`, with the properties of the files it writes
(`GenesisConsistent`, `Connected`). `CommandLine` interleaves it with the other
commands, one action for each: flags, YAML, account file, provider, and the call
it ends in. Values of settings are small numbers or names; zero and empty, which the code
treats as not given, are among them.

`MC*` modules give constants for TLC; `*Proofs` hold the proofs. Operators commented "Faulty" are the mutants; no
specification uses them.

## Runs

| run | instance | shows |
|---|---|---|
| `prepare` | 2 accounts, 2 transactions, 2 CPUs, queues of 1 | `PreparedTxs`, `NoTxLost`, `NoPrematureEnd`, `FiledOnce`, `PrepareInv`; `PrepareEnds` |
| `broadcast` | 2 accounts, 2 transactions, no confirmation, 1 foreign transaction, 1 loss per account; the node starts one number behind for one account | `IndexInRange`, with the panic reached, `BroadcastComplete`, `BackOnlyAfterLoss`, `BroadcastInv`; `BroadcastEnds`, `FailureReported` |
| `await` | the same with confirmation and 2 foreign transactions | `AwaitedInBlock`, `BroadcastInv`; `BroadcastEnds` |
| `replay` | heights 1 to 5, channel of 2, blocks of 0 to 2 transactions, fuzzing | `InOrder`, `DrainedComplete`, `SummaryBounds`, `ReplayInv`; `ReplayEnds` |
| `replay_lost` | heights 1 to 4, one transaction each | violation of `NoBlockAvailable` |
| `replay_counts` | the same | violation of `SummaryAddsUp` |
| `throttle` | 2 senders, 3 sends, ticks of half a second, six configurations (four of `Stress`, two of a replay with either fuzzing strategy) | `WindowBound`, `PaidInFull`, `RateInv`; `EveryWaitEnds`; `ImplementsThrottle` |
| `workload` | 2 accounts, 3 attempts, every provider and a mix, a fresh and a used chain | `SetupOnce`, `TrafficSucceeds`, `TrafficFits`; `SetupEnds` |
| `mixed_signing` | the mix of `README.md:86-95` | violation of `SignerGetsItsOwn` |
| `rpc` | 2 callers, 2 shared request objects, 3 calls, batches of up to 2 | `AnswersMatch`, `NoFalseSuccess` |
| `setup` | 11 environments, 2 generations, 2 stress runs, commands of every kind | `GenesisConsistent`, `Connected`, `InstancesIndependent`, `FlagThenFile` |
| `settings_zero` | the same | violation of `SettingsPrecedence` |

`prepare`, `broadcast` and `replay` check their `TypeOK` as well; `RateInv`
contains that of `RateLimit`.

Bounds. Queues of one make every full and every empty queue happen; two accounts,
two workers and two signers are the fewest with reordering; two transactions are
the fewest with a first and a last one. `MaxForeign` and `MaxDrops` bound how
often the environment interferes; one of each can strike at any point of an
account's loop, and the theorems hold for any bound. The node starts one number
behind for the first account, where the index becomes negative, and level for the
second; it gets ahead of either by a foreign transaction before the first send. `Tip` ends the remote chain;
the channel is smaller than the number of blocks, so the sniffer waits for room.

In `throttle`, three sends by two senders let reservations queue up behind each
other and chunks of two transactions interleave; `Horizon` keeps idle time
finite, and time passes as long as someone waits. In `workload`, `OpsPerTx` is 2
for 50 and `Attempts` 3 for 5: a first, a middle and a last one exist.
`MaxParallel` is 2 for 8: with two accounts the pool is never short of workers,
which the code's semaphore only delays. A setting names how much foreign code and
how many losses it allows. In `rpc`, the two objects and the two callers are
interchangeable, and are declared symmetric; three calls are the fewest in which
an object is used again while another call is under way. In `setup`, `Octet` is
8 for 256, so that one environment fills the last octet and another has one node
too many for it; others have no instances, a subnet that does not parse, and
negative numbers of accounts and of sentries.

Fairness. Weak fairness of each goroutine's steps: the Go scheduler runs a
runnable goroutine in the end, and a select picks among ready cases at random.
Failures that the code cannot count on (a failing fetch or signature, a failing
send) are left out of the fair actions, so no end is reached by luck. Two are in,
because the code makes them happen: `AwaitTimesOut` (`confirmTimeout`) and
`GiveUp` (a bounded number of attempts). That a request returns is assumed: it
has `requestTimeout`. The node has no fairness.

`RateLimit` assumes that time passes and that a sender with a reservation to make
or one that is due goes on; that is the runtime's timer. `Workload` assumes the
same of the loop over the keys, the pool's end and each worker, whose
`RequestTimeout` and `ConfirmTimeout` are the two deadlines of
`chain.Client.Broadcast`: `SetupEnds` therefore holds even if the node never
answers. The properties of `JsonRpc`, `Generator` and `CommandLine` are safety
properties and need none.

## Findings

1. `GetNextBlockTxs` selects among `blocksCh`, `errCh` and `doneCh`
   (`txns_replay_stress.go:99-122`). Once the sniffer has ended all three are
   ready, also when blocks are buffered; if the `doneCh` case is picked, fetched
   blocks are left and "Block replay completed successfully" is logged. Run
   `replay_lost`: nothing fails and nobody cancels. `DrainedComplete` is what
   does hold: ending through `blocksCh` leaves nothing behind.
2. The error of a transaction that gets no fallback is categorised at
   `stresser.go:550` and again at 566. Run `replay_counts`: successes and errors
   exceed the transactions broadcast. `SummaryBounds` is what does hold.
3. A mix draws a provider for every call, so `BuildAndSignTx`
   (`mixed_payload.go:285`) signs with another provider than the one that
   generated the transaction. Run `mixed_signing`, with the mix of the
   repository's `README.md`: the assertion of `eth_signer.go:24` panics on a bank
   message.
4. The repository's `README.md` (98-101) ranks the YAML file's values above the
   defaults. `applyStresserConfigFromYAML` takes those that are not zero
   (`main.go:667-709`). Run `settings_zero`: with `transactions: 0` in the file a
   stress run has the default of 100. `FlagThenFile` is what does hold.

Observations that are side conditions of properties, or abstractions of them:

* With `--transactions 0`, `collect` cancels the context at once and workers may
  die of it (`NoPrematureEnd` is about `NumTx > 0`).
* `txIndex` can become negative, and the process panic, if the node broadcast to
  is behind the one the sequence numbers were read from (`IndexInRange`, run
  `broadcast`).
* `GenerateInitialTx` of a mix draws a provider too (`mixed_payload.go:272`), so
  that a provider that needs setting up may never be; `TrafficSucceeds` is about
  what was set up (`Provisioned`).
* Code that others store between the set-up's prediction and its execution takes
  the predicted code id. `wasm_exec_contract` notices, since its set-up uses the
  id and fails; `wasm_init_contract` does not, and its traffic then names the
  others' code (`Displaced`, which `TrafficSucceeds` excludes).
* An initial transaction that was given up on may still be executed later, and the
  run goes on without it; `TrafficSucceeds` and `TrafficFits` exclude it.
* Workers and signers use the random source of a mix, or the map of nonces, without
  a lock; `RaceDetected` is the process ending of it. No property excludes that.
* `TrafficFits` is about an `--eth-chain-id` that is the node's and about a mix
  whose payloads all sign in the same way: otherwise a transaction may be refused
  for its signature (finding 3 is the same draw).
* With a negative number of accounts per instance `generate` panics
  (`generator.go:137`).
* A fuzzing percentage of 0 becomes 100 (`NewGasFuzzer`).
* `ipInSubnet` wraps around at the last octet; `Connected` holds while the nodes
  fit.
* In the first second a limiter lets its burst pass on top of its rate, as every
  token bucket does; `WindowBound` is the bound that holds.
* A request object that is twice in a batch, or that another call writes to before
  it is marshalled, loses its id (`AnswersMatch` excludes both).

## Proofs

All theorems are `Spec => ...`, without fairness, for every value of the
constants that satisfies the named assumptions of the modules (`RpcSpec` and
`GenSpec` are the specifications of `JsonRpc` and of `Generator`).

* `PrepareProofs`. `PrepareInv` is inductive. `PreparedTxs` alone is not: it needs
  that requests are in step with their jobs (`JobInv`), that every queued, held
  or filed transaction has the right number (`ContentInv`), that places are
  disjoint (`PlaceInv`), and that `received` counts filled slots, so that a full
  count means that every job is finished (`GroupInv`, lemma `AllDone`); the last
  is why `collect`'s return harms no worker. From it follow `TypeOK`,
  `PreparedTxs`, `NoPrematureEnd`, `FiledOnce`; `NoTxLost` is proved inductive
  relative to it.
* `BroadcastProofs`. `BroadcastInv`: each number below `check` is accepted or
  foreign and suggested numbers never precede the start (`NodeInv`); all that is
  behind `txIndex` is accepted or foreign (`ClientInv`); with confirmation, an
  account has only what it waits for in the mempool (`AwaitInv`). From it
  `TypeOK`, `IndexInRange`, `BroadcastComplete`, `AwaitedInBlock`.
  For `BackOnlyAfterLoss` a second invariant, `AheadInv`, is proved relative to
  it: until something of the account is lost, the mempool's number is at or past the one the
  account is at, past the one it waits for and past all that the cache holds, so
  that no suggestion is a step back.
* `RateLimitProofs`. First the window bound of the abstract limit `Throttle`
  (`ThrottleWindow`), from an invariant of its own: what the bucket holds, added to
  what it released since a tick, is at most its capacity and the ticks since. Then
  `RateLimit`: `RateInv` is inductive. Types alone do not bound what waiting
  senders will take; two facts do. A reservation is due exactly when the debt it
  was made into is paid (`DebtInv`). And the open reservations at a limiter
  follow each other without gap or overlap from what is released to what is
  reserved (`QueueInv`), so that they are granted in their order. First comes what
  reserving, granting and the clock do to one limiter, then one lemma per action.
  `PaidInFull` has an invariant of its own, `PaidInv`, relative to `RateInv`: what
  a sender was granted and what it has yet to ask for or wait for make up the
  price, limiter by limiter, so that past the last one the price is paid. With
  it, `NeverRefused`: no chunk exceeds the burst. `RefinesThrottle` is under the
  mapping `level[m] <- Level(m)`, the tokens with all that is reserved and not
  yet released, up to the capacity: a grant is a `Release`, a tick a `Tick`, all
  other steps stutter or release what was there. The limiters' window bound
  (`RateWindow`) is `ThrottleWindow` carried over by it.
* `ClientProofs`, on what talks to a chain from outside. `ReplayInv` ties replayed
  and buffered heights to the sniffer's, and the counters to the transactions
  done. From it `TypeOK`, `InOrder`, `SummaryBounds`, `DrainedComplete`.
  `JsonRpcInv` has `AnswersMatch` and `NoFalseSuccess` about the call that returned
  last, and what they need of the calls under way: until a batch is marshalled its
  ids are its positions unless another call wrote to its objects (`PreparedInv`);
  what was marshalled are the call's own requests (`SentInv`). What `GetByID` and
  `AsMap` find is a minimum and a maximum of positions with an id; with different
  ids there is one position, and no induction is needed.
* `WorkloadProofs`. `WorkloadInv` says of the chain that what is pending of an
  account continues what is executed, one transaction per number (`ChainInv`); of
  the pool that all a worker signs is for one account and one number, which is
  why at most one of the copies is ever executed (`PoolInv`; `SetupOnce`); that
  all that is pending before the traffic is sent are such copies (`QuietInv`); and
  that the traffic's numbers follow on from the chain's (`TrafficInv`;
  `TrafficFits`). What the eleven providers build enters through lemmas about
  `GenerateInitialTx`, `GenerateTx` and `BuildAndSignTx`: whatever they build is
  for the account and the number that they were asked for, and fails the ante
  check for no other reason than its number. How a chain executes messages is not
  needed.
* `GeneratorProofs`. `Connected` relates what different passes of `GenerateConfigs`
  wrote, so `ClusterInv` says of every step how far the cluster is (`Progress`),
  that each node's address, ports, keys and files are what its number makes of them
  (`Cluster`), which of the nodes have their peers yet (`Peers`) and what
  `docker-compose.yml` holds (`Composed`). The module begins with what the
  operators make of any list: what `filterStringValue` leaves of it (`Filtered`); a
  sum is the same after a permutation (`Sums`); `Sorted` is a permutation into
  rising order, and the identity on what is in order (`Sorting`);
  `SanitizeGenesisAccounts` gives accounts without numbers the numbers from 0 on,
  one each (`NumbersGiven`).
* `GenesisProofs`, on the same steps. `GenesisConsistent` is not inductive: a node
  saved later has the same document only if a second `Save` finds nothing to sort
  or to number. `GenesisInv` therefore follows the document in memory
  (`DocumentInv`): it has no numbers before the first `Save` and different, rising
  ones from then on (`Stage`), its supply is the sum of its balances (`Good`), and
  what is on disk agrees with it.
* `SetupProofs`. No command writes what `generate` wrote: `RefinesGenerator`, `Spec =>
  GenSpec`, with the refinement mapping the identity. It carries `Connected` and
  `GenesisConsistent` over to a deployment in use. `FlagThenFile` is a fact
  about each command: all of them but `tx-replay` end in `Stress`, with flags over
  defaults or with the file between the two. For `InstancesIndependent` the
  invariant is `SetupInv`: each key is in one place of one key file and below
  `nextKey` (`FilesInv`), what a run was given stays apart from the other
  instances' files, the ones a later `generate` writes included (`RunsInv`), and
  the file that is written next is not there yet (`NextFile`), so that what a run
  read stays in its file while the generation lasts.

Induction over lists and sets is done about sets of numbers: `Least` takes a least
element from the well-foundedness of `<`, and `Inductive` follows. That a recursive
function exists, and so can be unfolded, is proved for each (`FilterExists`, and
steps of `Sums`, `NumbersGiven` and `AccountsAdded`).

The assumptions are types and ranges of flags and constants. Beyond those:
`WorkloadAssumption` says that a setting's providers are among the eleven, and
`CommandLineAssumption` that only `tx-mixed-payload` has a file to read.

Only model-checked:

* the liveness properties: fairness is beyond the prover;
* `TrafficSucceeds`: it is about what the chain makes of the messages of a
  transaction one after the other, user operations included, for each of the
  eleven providers; it takes an invariant of all that a chain of any history has
  stored for each of them.

## Not modelled

* Contract bindings (`eth/solidity/`): generated by abigen.
* Bundler client and `ethclient.go`: nothing in the repository constructs or calls
  them; they are thin layers over the JSON-RPC client.
* Encoding, hashing and cryptography of transactions: what goes into them is
  modelled, as tuples, but not their bytes.
* The JSON-RPC client's number and string conversions (`GetInt`, `GetFloat`,
  `GetBool`, `GetString`), its headers and its logging.
* Pace reporting, logging and `ExtractTransactionInfo`, which change no state.
* Contents of the genesis and configuration templates: which template is taken is
  modelled, and the fields the code sets.
* The caller's interruption while the pool of initial transactions runs is an
  action of `Prepare`, not of `Workload`.
