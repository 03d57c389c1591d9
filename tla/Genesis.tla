------------------------------ MODULE Genesis ------------------------------
(***************************************************************************)
(* The genesis document under construction (src/chain/genesis.go): a       *)
(* record, and what its methods make of it. A method that panics yields    *)
(* Panicked. Addresses are the keys they belong to, numbered as drawn.     *)
(***************************************************************************)
EXTENDS Integers, Sequences, FiniteSets

Panicked == [panics |-> TRUE]

DefaultChainID    == "stressinj-1337"
DefaultEthChainID == 1337

\* All three templates begin without accounts, balances and validators.
NewGenesis(config) ==
    [panics |-> FALSE, finalized |-> FALSE,
     chainID |-> IF config.chainID = "" THEN DefaultChainID ELSE config.chainID,
     ethChainID |-> IF config.ethChainID = 0 THEN DefaultEthChainID ELSE config.ethChainID,
     template |-> IF config.evmEnabled THEN "evm"
                  ELSE IF config.prodLike THEN "prod" ELSE "plain",
     accounts |-> << >>, balances |-> << >>, supply |-> 0, genTxs |-> << >>]

AddAccount(g, address, coins) ==
    IF g.finalized THEN Panicked
    ELSE [g EXCEPT !.accounts = Append(@, [address |-> address, number |-> 0]),
                   !.balances = Append(@, [address |-> address, coins |-> coins]),
                   !.supply   = @ + coins]

\* One after the other.
AddAccounts(g, addresses, coins) ==
    LET after[k \in 0..Len(addresses)] ==
            IF k = 0 THEN g ELSE AddAccount(after[k - 1], addresses[k], coins)
    IN  after[Len(addresses)]

\* The transaction is signed for account number 0 and sequence 0, whichever
\* number the account gets.
AddValidator(g, validatorKey, staker, amount) ==
    IF g.finalized THEN Panicked
    ELSE [g EXCEPT !.genTxs = Append(@, [pubKey |-> validatorKey, staker |-> staker,
                                         amount |-> amount, number |-> 0, sequence |-> 0])]

\* The position of an entry among all, by a number each has.
Place(key, j) ==
    Cardinality({k \in DOMAIN key : key[k] < key[j] \/ (key[k] = key[j] /\ k <= j)})

Sorted(s, key) == [n \in DOMAIN s |-> s[CHOOSE j \in DOMAIN s : Place(key, j) = n]]

FreeNumber(used) ==
    CHOOSE n \in 0..Cardinality(used) : n \notin used /\ 0..(n - 1) \subseteq used

\* An account after the first that has its number gets the lowest free one.
NumberAccount(accounts, done, k) ==
    LET n == IF \E j \in 1..(k - 1) : accounts[j].number = accounts[k].number
             THEN FreeNumber(done.used) ELSE accounts[k].number
    IN  [list |-> Append(done.list, [accounts[k] EXCEPT !.number = n]),
         used |-> done.used \union {n}]

SanitizeGenesisAccounts(accounts) ==
    LET seen == {accounts[k].number : k \in DOMAIN accounts}
        done[k \in 0..Len(accounts)] ==
            IF k = 0 THEN [list |-> << >>, used |-> seen]
            ELSE NumberAccount(accounts, done[k - 1], k)
        list == done[Len(accounts)].list
    IN  Sorted(list, [k \in DOMAIN list |-> list[k].number])

\* The order of addresses as bytes is none that they are drawn in.
Bytes(address) == IF address % 2 = 0 THEN address ELSE -address

SanitizeGenesisBalances(balances) ==
    Sorted(balances, [k \in DOMAIN balances |-> Bytes(balances[k].address)])

\* What Save leaves in memory is what it writes.
SaveGenesis(g) ==
    [g EXCEPT !.finalized = TRUE,
              !.accounts = SanitizeGenesisAccounts(@),
              !.balances = SanitizeGenesisBalances(@)]
=============================================================================
