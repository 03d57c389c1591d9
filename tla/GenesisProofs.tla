---------------------------- MODULE GenesisProofs ----------------------------
(***************************************************************************)
(* That the genesis files of a cluster are one document, in order, at      *)
(* every step of generate and wherever it stops: what Save and the methods *)
(* that add to the document make of it, and what the loops of the command  *)
(* make of that, for every number of nodes, instances and accounts.        *)
(***************************************************************************)
EXTENDS GeneratorProofs
-----------------------------------------------------------------------------
(* The document and its Save                                               *)

\* The fields of the document.
GenesisFields == {"panics", "finalized", "chainID", "ethChainID", "template", "accounts",
                  "balances", "supply", "genTxs"}

\* What the supply is the sum of.
Coins(b) == [k \in DOMAIN b |-> b[k].coins]

\* Every key has one balance, of those that were drawn.
Balances(b, next) ==
    /\ IsList(b)
    /\ \A k \in 1..Len(b) : b[k].address \in 1..(next - 1) /\ b[k].coins \in Int
    /\ \A j, k \in 1..Len(b) : b[j].address = b[k].address => j = k

\* Who has an entry in a list.
Addresses(s) == {s[k].address : k \in DOMAIN s}

\* Who stakes has the coins for it.
Covered(txs, b) ==
    \A t \in Range(txs) : \E x \in Range(b) : x.address = t.staker /\ x.coins >= t.amount

\* A document that is in order, numbers aside: its supply is the sum of its balances,
\* its accounts are those with a balance, its stakes are covered.
Good(g, next) ==
    /\ DOMAIN g = GenesisFields
    /\ IsList(g.accounts) /\ IsList(g.genTxs)
    /\ Balances(g.balances, next)
    /\ Addresses(g.balances) = Addresses(g.accounts)
    /\ g.supply = SumFunction(Coins(g.balances))
    /\ Covered(g.genTxs, g.balances)

\* A document before its first Save, and after it.
Unnumbered(g) == g.finalized = FALSE /\ WithoutNumbers(g.accounts)

Numbered(g) ==
    /\ g.finalized = TRUE
    /\ \A j, k \in DOMAIN g.accounts : g.accounts[j].number = g.accounts[k].number => j = k
    /\ SaveGenesis(g) = g

\* The sum of the balances has whole numbers to add up.
LEMMA CoinsOf ==
    ASSUME NEW b, NEW next, Balances(b, next)
    PROVE  /\ Len(b) \in Nat /\ DOMAIN b = 1..Len(b) /\ DOMAIN Coins(b) = 1..Len(b)
           /\ \A k \in 1..Len(b) : Coins(b)[k] = b[k].coins /\ Coins(b)[k] \in Int
           /\ IsFiniteSet(1..Len(b))
           /\ SumFunction(Coins(b)) \in Int
<1>1. Len(b) \in Nat /\ DOMAIN b = 1..Len(b)
    BY ListDomain, Zenon DEF Balances
<1>2. PICK f : f = Coins(b)
    BY Zenon
<1>3. DOMAIN f = 1..Len(b) /\ \A k \in 1..Len(b) : f[k] = b[k].coins
    BY <1>1, <1>2, Zenon DEF Coins
<1>4. \A k \in 1..Len(b) : f[k] \in Int
    BY <1>3, Zenon DEF Balances
<1>5. IsFiniteSet(1..Len(b))
    BY <1>1, FirstNumbers, Zenon
<1>6. SumFunction(f) \in Int
    BY <1>3, <1>4, <1>5, Sums, Zenon
<1> QED  BY <1>1, <1>2, <1>3, <1>4, <1>5, <1>6, Zenon

\* Every entry of one list is one of another.
Occurs(s, t) == \A m \in DOMAIN s : \E j \in DOMAIN t : s[m] = t[j]

\* Save keeps a document in order, numbers its accounts and is idempotent from then
\* on (genesis.go:225-244).
LEMMA GenesisSaved ==
    \A g, s : \A next \in Nat :
        Good(g, next) /\ Unnumbered(g) /\ s = SaveGenesis(g)
        => /\ Good(s, next) /\ Numbered(s)
           /\ Addresses(s.balances) = Addresses(g.balances) /\ s.genTxs = g.genTxs
\* Rearranged lists have the same entries.
<1>1. ASSUME NEW s, NEW t, Occurs(s, t), Occurs(t, s)
      PROVE  Range(t) = Range(s) /\ Addresses(t) = Addresses(s)
    <2> USE <1>1
    <2> USE DEF Occurs
    <2>1. Range(t) = Range(s)
        <3>1. \A x \in Range(t) : x \in Range(s)
            BY Zenon DEF Range
        <3>2. \A x \in Range(s) : x \in Range(t)
            BY Zenon DEF Range
        <3> QED  BY <3>1, <3>2, Zenon
    <2>2. Addresses(t) = Addresses(s)
        BY DEF Addresses
    <2> QED  BY <2>1, <2>2
\* The sorting changes nothing but the order.
<1>2. ASSUME NEW b, NEW next \in Nat, Balances(b, next), NEW t, t = SanitizeGenesisBalances(b)
      PROVE  /\ Balances(t, next)
             /\ Range(t) = Range(b) /\ Addresses(t) = Addresses(b)
             /\ SumFunction(Coins(t)) = SumFunction(Coins(b))
             /\ SanitizeGenesisBalances(t) = t
    <2> USE <1>2
    <2>1. PICK n : n = Len(b)
        BY Zenon
    <2>2. IsList(b) /\ n \in Nat /\ DOMAIN b = 1..n /\ IsFiniteSet(1..n)
        BY <2>1, CoinsOf, Zenon DEF Balances
    <2>3. \A k \in 1..Len(b) : b[k].address \in Int
        <3>1. \A k \in 1..Len(b) : b[k].address \in 1..(next - 1)
            BY Zenon DEF Balances
        <3> QED  BY <3>1
    <2>4. PICK q : q = Order(AddressKeys(b), 1..Len(b))
        BY Zenon
    <2>5. Rearranged(t, b, q) /\ Reorders(q, n) /\ SanitizeGenesisBalances(t) = t
        BY <2>1, <2>2, <2>3, <2>4, Sorting, Zenon
    <2>6. IsList(t) /\ Len(t) = n /\ \A m \in 1..n : t[m] = b[q[m]]
        BY <2>1, <2>5, Zenon DEF Rearranged
    <2>7. /\ q \in [1..n -> 1..n] /\ \A m \in 1..n : q[m] \in 1..n
          /\ \A m \in 1..n : \E j \in 1..n : q[j] = m
          /\ \A m, j \in 1..n : q[m] = q[j] => m = j
        BY <2>5, Zenon DEF Reorders
    <2>8. DOMAIN t = 1..n
        BY <2>6, ListDomain, Zenon
    <2>9. Range(t) = Range(b) /\ Addresses(t) = Addresses(b)
        <3>1. \A m \in 1..n : \E j \in 1..n : t[m] = b[j]
            BY <2>6, <2>7, Zenon
        <3>2. \A m \in 1..n : \E j \in 1..n : b[m] = t[j]
            <4> TAKE m \in 1..n
            <4>1. PICK j \in 1..n : q[j] = m
                BY <2>7, Zenon
            <4>2. t[j] = b[m]
                BY <2>6, <4>1, Zenon
            <4> QED  BY <4>2, Zenon
        <3>3. Occurs(t, b) /\ Occurs(b, t)
            <4>1. PICK D : D = 1..n
                BY Zenon
            <4>2. /\ DOMAIN t = D /\ DOMAIN b = D
                  /\ \A m \in D : \E j \in D : t[m] = b[j]
                  /\ \A m \in D : \E j \in D : b[m] = t[j]
                BY <2>2, <2>8, <3>1, <3>2, <4>1, Zenon
            <4> QED  BY <4>2 DEF Occurs
        <3> QED  BY <3>3, <1>1, Zenon
    <2>10. Balances(t, next)
        <3>1. \A k \in 1..n : t[k].address \in 1..(next - 1) /\ t[k].coins \in Int
            <4>1. \A k \in 1..n : b[k].address \in 1..(next - 1) /\ b[k].coins \in Int
                BY <2>1, Zenon DEF Balances
            <4> TAKE k \in 1..n
            <4>2. PICK j \in 1..n : t[k] = b[j]
                BY <2>6, <2>7, Zenon
            <4> QED  BY <4>1, <4>2, Zenon
        <3>2. \A j, k \in 1..n : t[j].address = t[k].address => j = k
            <4> SUFFICES ASSUME NEW j \in 1..n, NEW k \in 1..n, t[j].address = t[k].address
                         PROVE  j = k
                BY Zenon
            <4>1. PICK x \in 1..n, y \in 1..n : x = q[j] /\ y = q[k]
                BY <2>7, Zenon
            <4>2. b[x].address = b[y].address
                BY <2>6, <4>1, Zenon
            <4>3. x = y
                BY <2>1, <4>2, Zenon DEF Balances
            <4> QED  BY <2>7, <4>1, <4>3, Zenon
        <3> QED  BY <2>6, <3>1, <3>2, Zenon DEF Balances
    <2>11. SumFunction(Coins(t)) = SumFunction(Coins(b))
        <3>1. PICK f, h, D : f = Coins(b) /\ h = Coins(t) /\ D = 1..n
            BY Zenon
        <3>2. /\ DOMAIN f = D /\ \A k \in D : f[k] = b[k].coins /\ f[k] \in Int
              /\ IsFiniteSet(D)
            BY <2>1, <3>1, CoinsOf, Zenon
        <3>3. DOMAIN h = D /\ \A k \in D : h[k] = t[k].coins
            BY <2>6, <2>10, <3>1, CoinsOf, Zenon
        <3>4. \A k \in D : q[k] \in D /\ h[k] = f[q[k]]
            <4> TAKE k \in D
            <4>1. PICK j \in D : j = q[k]
                BY <2>7, <3>1, Zenon
            <4>2. t[k] = b[j]
                BY <2>6, <3>1, <4>1, Zenon
            <4>3. h[k] = b[j].coins /\ f[j] = b[j].coins
                BY <3>2, <3>3, <4>2, Zenon
            <4> QED  BY <4>1, <4>3, Zenon
        <3>5. Moves(q, D, D, f, h, D)
            BY <2>7, <3>1, <3>4, Zenon DEF Moves
        <3>6. SumFunction(h) = SumFunction(f)
            BY <3>2, <3>3, <3>5, Sums, Zenon
        <3> QED  BY <3>1, <3>6, Zenon
    <2> QED  BY <2>5, <2>9, <2>10, <2>11, Zenon
\* Save keeps a document in order, numbers its accounts and is idempotent from then
\* on (genesis.go:225-244).
<1>3. ASSUME NEW g, NEW next \in Nat, Good(g, next), Unnumbered(g), NEW s, s = SaveGenesis(g)
      PROVE  /\ Good(s, next) /\ Numbered(s)
             /\ Addresses(s.balances) = Addresses(g.balances) /\ s.genTxs = g.genTxs
    <2> USE <1>3
    <2>1. PICK a, b, list, t : /\ a = g.accounts /\ b = g.balances
                               /\ list = SanitizeGenesisAccounts(a)
                               /\ t = SanitizeGenesisBalances(b)
        BY Zenon
    <2>2. /\ DOMAIN g = GenesisFields /\ IsList(a) /\ Balances(b, next) /\ WithoutNumbers(a)
          /\ Addresses(b) = Addresses(a) /\ g.supply = SumFunction(Coins(b))
          /\ Covered(g.genTxs, b) /\ IsList(g.genTxs)
        BY <2>1, Zenon DEF Good, Unnumbered
    <2>3. s = [g EXCEPT !.finalized = TRUE, !.accounts = list, !.balances = t]
        BY <2>1, Zenon DEF SaveGenesis
    <2>4. /\ DOMAIN s = GenesisFields /\ s.finalized = TRUE
          /\ s.accounts = list /\ s.balances = t /\ s.supply = g.supply /\ s.genTxs = g.genTxs
        BY <2>2, <2>3 DEF GenesisFields
    <2>5. /\ Balances(t, next) /\ Range(t) = Range(b) /\ Addresses(t) = Addresses(b)
          /\ SumFunction(Coins(t)) = SumFunction(Coins(b))
          /\ SanitizeGenesisBalances(t) = t
        BY <2>1, <2>2, <1>2, Zenon
    <2>6. PICK n : n = Len(a)
        BY Zenon
    <2>7. /\ IsList(list) /\ Len(list) = n
          /\ \A k \in 1..n : list[k] = [address |-> a[k].address, number |-> k - 1]
          /\ SanitizeGenesisAccounts(list) = list
        <3>1. GivenNumbers(list, a)
            BY <2>1, <2>2, NumbersGiven, Zenon
        <3> QED  BY <2>6, <3>1, Zenon DEF GivenNumbers
    <2>8. \A k \in 1..n : list[k].address = a[k].address /\ list[k].number = k - 1
        <3> TAKE k \in 1..n
        <3>1. PICK r, x, c : r = list[k] /\ x = a[k].address /\ c = k - 1
            BY Zenon
        <3>2. r = [address |-> x, number |-> c]
            BY <2>7, <3>1, Zenon
        <3>3. r.address = x /\ r.number = c
            BY <3>2
        <3> QED  BY <3>1, <3>3, Zenon
    <2>9. n \in Nat /\ DOMAIN a = 1..n /\ DOMAIN list = 1..n
        BY <2>2, <2>6, <2>7, ListDomain, Zenon
    <2>10. Addresses(list) = Addresses(a)
        BY <2>8, <2>9, Zenon DEF Addresses
    <2>11. Covered(s.genTxs, t)
        BY <2>2, <2>4, <2>5, Zenon DEF Covered
    <2>12. Good(s, next)
        BY <2>2, <2>4, <2>5, <2>7, <2>10, <2>11, Zenon DEF Good
    <2>13. SaveGenesis(s) = s
        <3>1. SaveGenesis(s) = [s EXCEPT !.finalized = TRUE, !.accounts = list, !.balances = t]
            BY <2>4, <2>5, <2>7, Zenon DEF SaveGenesis
        <3>2. [s EXCEPT !.finalized = TRUE, !.accounts = list, !.balances = t] = s
            BY <2>3, Zenon DEF GenesisFields
        <3> QED  BY <3>1, <3>2, Zenon
    <2>14. \A j, k \in DOMAIN list : list[j].number = list[k].number => j = k
        <3>1. \A j, k \in 1..n : j - 1 = k - 1 => j = k
            BY <2>9
        <3> QED  BY <2>8, <2>9, <3>1, Zenon
    <2>15. Numbered(s)
        BY <2>4, <2>13, <2>14, Zenon DEF Numbered
    <2> QED  BY <2>1, <2>4, <2>5, <2>12, <2>15, Zenon
<1> QED  BY <1>3, Zenon
-----------------------------------------------------------------------------
(* Accounts and validators that are added                                  *)

\* A new key to be funded.
Opens(a, next, c) ==
    next \in Nat /\ next >= 1 /\ a \in Nat /\ a >= next /\ c \in Int

\* What AddAccount makes of the balances.
Funds(b, t, a, c) ==
    /\ Balances(t, a + 1)
    /\ Addresses(t) = Addresses(b) \union {a}
    /\ Range(t) = Range(b) \union {[address |-> a, coins |-> c]}
    /\ SumFunction(Coins(t)) = SumFunction(Coins(b)) + c

\* And of the document.
Opened(g, h, a, c) ==
    /\ Good(h, a + 1) /\ Unnumbered(h)
    /\ Addresses(h.balances) = Addresses(g.balances) \union {a}
    /\ [address |-> a, coins |-> c] \in Range(h.balances)
    /\ h.genTxs = g.genTxs

\* A funded account more (genesis.go:141-171).
LEMMA AccountAdded ==
    \A g, h, next, a, c :
        Good(g, next) /\ Unnumbered(g) /\ Opens(a, next, c) /\ h = AddAccount(g, a, c)
        => Opened(g, h, a, c)
\* A balance more: the sum grows by it.
<1>1. ASSUME NEW b, NEW next, Balances(b, next), NEW a, NEW c, Opens(a, next, c),
             NEW t, t = Append(b, [address |-> a, coins |-> c])
      PROVE  Funds(b, t, a, c)
    <2> USE <1>1
    <2>0. next \in Nat /\ next >= 1 /\ a \in Nat /\ a >= next /\ c \in Int
        BY Zenon DEF Opens
    <2>1. PICK n, x : n = Len(b) /\ x = [address |-> a, coins |-> c]
        BY Zenon
    <2>2. IsList(b) /\ n \in Nat /\ DOMAIN b = 1..n
        BY <2>1, CoinsOf, Zenon DEF Balances
    <2>3. /\ IsList(t) /\ Len(t) = n + 1 /\ DOMAIN t = 1..(n + 1)
          /\ \A k \in 1..n : t[k] = b[k]
          /\ t[n + 1] = x
          /\ Range(t) = Range(b) \union {x}
        BY <2>1, <2>2, Appended
    <2>4. x.address = a /\ x.coins = c
        BY <2>1
    <2>5. \A k \in 1..(n + 1) : k = n + 1 \/ k \in 1..n
        BY <2>2
    <2>6. \A k \in 1..n : b[k].address \in 1..(next - 1) /\ b[k].coins \in Int
        BY <2>1, Zenon DEF Balances
    <2>7. Balances(t, a + 1)
        <3>1. 1..(next - 1) \subseteq 1..((a + 1) - 1) /\ a \in 1..((a + 1) - 1) /\ a \notin 1..(next - 1)
            BY <2>0
        <3>2. \A k \in 1..(n + 1) : t[k].address \in 1..((a + 1) - 1) /\ t[k].coins \in Int
            BY <2>0, <2>3, <2>4, <2>5, <2>6, <3>1, Zenon
        <3>3. \A j, k \in 1..(n + 1) : t[j].address = t[k].address => j = k
            <4> SUFFICES ASSUME NEW j \in 1..(n + 1), NEW k \in 1..(n + 1),
                                t[j].address = t[k].address
                         PROVE  j = k
                BY Zenon
            <4>1. \A m \in 1..n : t[m].address \in 1..(next - 1)
                BY <2>3, <2>6, Zenon
            <4>2. t[n + 1].address \notin 1..(next - 1)
                BY <2>3, <2>4, <3>1, Zenon
            <4>3. CASE j \in 1..n /\ k \in 1..n
                BY <2>1, <2>3, <4>3, Zenon DEF Balances
            <4> QED  BY <2>5, <4>1, <4>2, <4>3, Zenon
        <3> QED  BY <2>3, <3>2, <3>3, Zenon DEF Balances
    <2>8. Addresses(t) = Addresses(b) \union {a}
        <3>1. ASSUME NEW y \in Addresses(t) PROVE y \in Addresses(b) \/ y = a
            <4>1. PICK k \in 1..(n + 1) : y = t[k].address
                BY <2>3, Zenon DEF Addresses
            <4>2. CASE k \in 1..n
                BY <2>2, <2>3, <4>1, <4>2, Zenon DEF Addresses
            <4>3. CASE k = n + 1
                BY <2>3, <2>4, <4>1, <4>3, Zenon
            <4> QED  BY <2>5, <4>2, <4>3, Zenon
        <3>2. \A k \in 1..n : k \in 1..(n + 1)
            BY <2>2
        <3>3. n + 1 \in 1..(n + 1)
            BY <2>2
        <3>4. \A y \in Addresses(b) : y \in Addresses(t)
            BY <2>2, <2>3, <3>2, Zenon DEF Addresses
        <3>5. a \in Addresses(t)
            BY <2>3, <2>4, <3>3, Zenon DEF Addresses
        <3> QED  BY <3>1, <3>4, <3>5, Zenon
    <2>9. SumFunction(Coins(t)) = SumFunction(Coins(b)) + c
        <3>1. PICK f, h, D : f = Coins(t) /\ h = Coins(b) /\ D = 1..n
            BY Zenon
        <3>2. /\ DOMAIN h = D /\ IsFiniteSet(D) /\ SumFunction(h) \in Int
              /\ \A k \in D : h[k] = b[k].coins /\ h[k] \in Int
            BY <2>1, <3>1, CoinsOf, Zenon
        <3>3. DOMAIN f = 1..(n + 1) /\ \A k \in 1..(n + 1) : f[k] = t[k].coins
            BY <2>3, <2>7, <3>1, CoinsOf, Zenon
        <3>4. /\ n + 1 \notin D /\ 1..(n + 1) = D \union {n + 1}
            BY <2>2, <3>1
        <3>5. DOMAIN f = D \union {n + 1} /\ f[n + 1] = c
            BY <2>3, <2>4, <3>3, <3>4, Zenon
        <3>6. \A k \in D : f[k] = h[k] /\ h[k] \in Int
            BY <2>3, <3>1, <3>2, <3>3, <3>4, Zenon
        <3>61. f[n + 1] \in Int
            BY <2>0, <3>5, Zenon
        <3>7. SumFunction(f) = f[n + 1] + SumFunction(h)
            <4>1. Extends(f, h, n + 1, D)
                BY <3>2, <3>4, <3>5, <3>6, <3>61, Zenon DEF Extends
            <4> QED  BY <4>1, Sums, Zenon
        <3>8. PICK u \in Int : u = SumFunction(h)
            BY <3>2, Zenon
        <3>9. c + u = u + c
            BY <2>0
        <3> QED  BY <3>1, <3>5, <3>7, <3>8, <3>9, Zenon
    <2> QED  BY <2>1, <2>3, <2>7, <2>8, <2>9, Zenon DEF Funds
\* A funded account more.
<1>2. ASSUME NEW g, NEW next, Good(g, next), Unnumbered(g), NEW a, NEW c, Opens(a, next, c),
             NEW h, h = AddAccount(g, a, c)
      PROVE  Opened(g, h, a, c)
    <2> USE <1>2
    <2>0. next \in Nat /\ next >= 1 /\ a \in Nat /\ a >= next /\ c \in Int
        BY Zenon DEF Opens
    <2>1. PICK s, b, x, y : /\ s = g.accounts /\ b = g.balances
                            /\ x = [address |-> a, coins |-> c]
                            /\ y = [address |-> a, number |-> 0]
        BY Zenon
    <2>2. /\ DOMAIN g = GenesisFields /\ IsList(s) /\ Balances(b, next) /\ WithoutNumbers(s)
          /\ Addresses(b) = Addresses(s) /\ g.supply = SumFunction(Coins(b))
          /\ Covered(g.genTxs, b) /\ IsList(g.genTxs) /\ g.finalized = FALSE
        BY <2>1, Zenon DEF Good, Unnumbered
    <2>3. h = [g EXCEPT !.accounts = Append(s, y), !.balances = Append(b, x), !.supply = @ + c]
        BY <2>1, <2>2, Zenon DEF AddAccount
    <2>4. /\ DOMAIN h = GenesisFields /\ h.finalized = FALSE
          /\ h.accounts = Append(s, y) /\ h.balances = Append(b, x)
          /\ h.supply = g.supply + c /\ h.genTxs = g.genTxs
        BY <2>2, <2>3 DEF GenesisFields
    <2>5. PICK t, l : t = Append(b, x) /\ l = Append(s, y)
        BY Zenon
    <2>6. /\ Balances(t, a + 1)
          /\ Addresses(t) = Addresses(b) \union {a}
          /\ Range(t) = Range(b) \union {x}
          /\ SumFunction(Coins(t)) = SumFunction(Coins(b)) + c
        <3>1. t = Append(b, [address |-> a, coins |-> c])
            BY <2>1, <2>5, Zenon
        <3>2. Funds(b, t, a, c)
            BY <2>2, <3>1, <1>1, Zenon
        <3> QED  BY <2>1, <3>2, Zenon DEF Funds
    <2>7. PICK n : n = Len(s)
        BY Zenon
    <2>8. n \in Nat /\ DOMAIN s = 1..n
        BY <2>2, <2>7, ListDomain, Zenon
    <2>9. /\ IsList(l) /\ Len(l) = n + 1 /\ DOMAIN l = 1..(n + 1)
          /\ \A k \in 1..n : l[k] = s[k]
          /\ l[n + 1] = y
        BY <2>2, <2>5, <2>7, <2>8, Appended
    <2>10. y.address = a
        BY <2>1
    <2>11. \A k \in 1..(n + 1) : k = n + 1 \/ k \in 1..n
        BY <2>8
    <2>12. WithoutNumbers(l)
        BY <2>1, <2>2, <2>7, <2>9, <2>10, <2>11, Zenon DEF WithoutNumbers
    <2>13. Addresses(l) = Addresses(s) \union {a}
        <3>1. \A z \in Addresses(l) : z \in Addresses(s) \/ z = a
            BY <2>8, <2>9, <2>10, <2>11, Zenon DEF Addresses
        <3>2. \A k \in 1..n : k \in 1..(n + 1)
            BY <2>8
        <3>3. n + 1 \in 1..(n + 1)
            BY <2>8
        <3>4. \A z \in Addresses(s) : z \in Addresses(l)
            BY <2>8, <2>9, <3>2, Zenon DEF Addresses
        <3>5. a \in Addresses(l)
            BY <2>9, <2>10, <3>3, Zenon DEF Addresses
        <3> QED  BY <3>1, <3>4, <3>5, Zenon
    <2>14. Covered(h.genTxs, t)
        BY <2>2, <2>4, <2>6, Zenon DEF Covered
    <2>15. Good(h, a + 1)
        BY <2>2, <2>4, <2>5, <2>6, <2>9, <2>13, <2>14, Zenon DEF Good
    <2>16. Unnumbered(h)
        BY <2>4, <2>5, <2>12, Zenon DEF Unnumbered
    <2> QED  BY <2>1, <2>4, <2>5, <2>6, <2>15, <2>16, Zenon DEF Opened
<1> QED  BY <1>2, Zenon

\* What AddValidator makes of a document.
Joined(g, h, next, key) ==
    /\ Good(h, next) /\ Unnumbered(h)
    /\ h.balances = g.balances
    /\ \E t \in Range(h.genTxs) : t.pubKey = key
    /\ Range(g.genTxs) \subseteq Range(h.genTxs)

\* A validator more, whose staker was funded before.
LEMMA ValidatorAdded ==
    ASSUME NEW g, NEW next, Good(g, next), Unnumbered(g), NEW key, NEW staker, NEW amount,
           \E x \in Range(g.balances) : x.address = staker /\ x.coins >= amount,
           NEW h, h = AddValidator(g, key, staker, amount)
    PROVE  Joined(g, h, next, key)
<1>1. PICK t : t = [pubKey |-> key, staker |-> staker, amount |-> amount,
                    number |-> 0, sequence |-> 0]
    BY Zenon
<1>2. t.pubKey = key /\ t.staker = staker /\ t.amount = amount
    BY <1>1
<1>3. /\ DOMAIN g = GenesisFields /\ g.finalized = FALSE /\ IsList(g.genTxs)
    BY Zenon DEF Good, Unnumbered
<1>4. h = [g EXCEPT !.genTxs = Append(g.genTxs, t)]
    BY <1>1, <1>3, Zenon DEF AddValidator
<1>5. /\ DOMAIN h = GenesisFields /\ h.finalized = FALSE
      /\ h.accounts = g.accounts /\ h.balances = g.balances /\ h.supply = g.supply
      /\ h.genTxs = Append(g.genTxs, t)
    BY <1>3, <1>4 DEF GenesisFields
<1>6. PICK txs : txs = g.genTxs
    BY Zenon
<1>7. IsList(Append(txs, t)) /\ Range(Append(txs, t)) = Range(txs) \union {t}
    BY <1>3, <1>6, Appended
<1>8. Covered(h.genTxs, g.balances)
    BY <1>2, <1>5, <1>6, <1>7, Zenon DEF Good, Covered
<1>9. Good(h, next)
    BY <1>5, <1>6, <1>7, <1>8, Zenon DEF Good
<1>10. Unnumbered(h)
    BY <1>5, Zenon DEF Unnumbered
<1> QED  BY <1>2, <1>5, <1>6, <1>7, <1>9, <1>10, Zenon DEF Joined

\* The loop over the keys of an instance, by its steps.
IsAdding(after, g, addresses, coins) ==
    after = [k \in 0..Len(addresses) |->
                IF k = 0 THEN g ELSE AddAccount(after[k - 1], addresses[k], coins)]

\* What the loop makes of a document.
Endowed(g, h, next, keys) ==
    /\ Good(h, next) /\ Unnumbered(h)
    /\ Addresses(h.balances) = Addresses(g.balances) \union Range(keys)
    /\ h.genTxs = g.genTxs

\* The keys of an instance are all funded, by the same amount.
LEMMA AccountsAdded ==
    \A g0, keys, h : \A next, n \in Nat : \A c \in Int :
        next >= 1 /\ Good(g0, next) /\ Unnumbered(g0)
            /\ keys = [k \in 1..n |-> next + (k - 1)] /\ h = AddAccounts(g0, keys, c)
        => Endowed(g0, h, next + n, keys)
\* There is such a function.
<1>1. ASSUME NEW g0, NEW addresses, Len(addresses) \in Nat, NEW coins
      PROVE  \E f : IsAdding(f, g0, addresses, coins)
    <2> USE <1>1
    <2> DEFINE Part(f, n) ==
            f = [k \in 0..n |-> IF k = 0 THEN g0 ELSE AddAccount(f[k - 1], addresses[k], coins)]
    <2> DEFINE S == {n \in Nat : \E f : Part(f, n)}
    <2>1. 0 \in S
        <3>1. PICK f : f = [k \in 0..0 |-> g0]
            BY Zenon
        <3>2. \A k \in 0..0 : k = 0
            OBVIOUS
        <3>3. Part(f, 0)
            BY <3>1, <3>2, Zenon
        <3> QED  BY <3>3, Zenon
    <2>2. ASSUME NEW n \in Nat, n \in S PROVE n + 1 \in S
        <3>1. PICK f : Part(f, n)
            BY <2>2
        <3>2. PICK x : x = AddAccount(f[n], addresses[n + 1], coins)
            BY Zenon
        <3>3. PICK g : g = [k \in 0..(n + 1) |-> IF k = n + 1 THEN x ELSE f[k]]
            BY Zenon
        <3>4. \A k \in 0..(n + 1) : k = n + 1 \/ k \in 0..n
            OBVIOUS
        <3>5. \A k \in 0..n : g[k] = f[k] /\ k # n + 1 /\ k \in 0..(n + 1)
            BY <3>3
        <3>6. ASSUME NEW k \in 0..(n + 1)
              PROVE  g[k] = IF k = 0 THEN g0 ELSE AddAccount(g[k - 1], addresses[k], coins)
            <4>1. CASE k = n + 1
                <5>1. g[k] = x /\ k # 0 /\ k - 1 = n /\ n \in 0..n
                    BY <3>3, <4>1
                <5> QED  BY <3>2, <3>5, <4>1, <5>1, Zenon
            <4>2. CASE k \in 0..n /\ k # 0
                <5>1. k - 1 \in 0..n
                    BY <4>2
                <5>2. f[k] = AddAccount(f[k - 1], addresses[k], coins)
                    BY <3>1, <4>2, Zenon
                <5> QED  BY <3>5, <4>2, <5>1, <5>2, Zenon
            <4>3. CASE k = 0
                <5>1. 0 \in 0..n
                    OBVIOUS
                <5>2. f[0] = g0
                    BY <3>1, <5>1, Zenon
                <5> QED  BY <3>5, <4>3, <5>1, <5>2, Zenon
            <4> QED  BY <3>4, <4>1, <4>2, <4>3, Zenon
        <3>7. Part(g, n + 1)
            <4>1. g = [k \in 0..(n + 1) |-> g[k]]
                BY <3>3, Zenon
            <4> QED  BY <3>6, <4>1, Zenon
        <3>8. n + 1 \in Nat
            OBVIOUS
        <3> QED  BY <3>7, <3>8, Zenon
    <2>3. \A n \in Nat : n \in S
        <3> HIDE DEF S
        <3> QED  BY <2>1, <2>2, Inductive, Zenon
    <2> QED  BY <2>3, Zenon DEF IsAdding
\* The keys of an instance are all funded, by the same amount.
<1>2. ASSUME NEW g0, NEW next \in Nat, next >= 1, Good(g0, next), Unnumbered(g0), NEW c \in Int,
             NEW n \in Nat, NEW keys, keys = [k \in 1..n |-> next + (k - 1)],
             NEW h, h = AddAccounts(g0, keys, c)
      PROVE  Endowed(g0, h, next + n, keys)
    <2> USE <1>2
    <2>0. Len(keys) = n /\ DOMAIN keys = 1..n /\ \A k \in 1..n : keys[k] = next + (k - 1)
        OBVIOUS
    <2>1. PICK after : IsAdding(after, g0, keys, c) /\ h = after[n]
        <3>1. IsAdding((CHOOSE f : IsAdding(f, g0, keys, c)), g0, keys, c)
            BY <2>0, <1>1, Zenon
        <3>2. h = (CHOOSE f : IsAdding(f, g0, keys, c))[Len(keys)]
            BY Zenon DEF AddAccounts, IsAdding
        <3> QED  BY <2>0, <3>1, <3>2, Zenon
    <2> DEFINE Fine(k) ==
            /\ Good(after[k], next + k) /\ Unnumbered(after[k])
            /\ Addresses(after[k].balances) = Addresses(g0.balances) \union {keys[j] : j \in 1..k}
            /\ after[k].genTxs = g0.genTxs
    <2> DEFINE S == {k \in Nat : k <= n => Fine(k)}
    <2>2. 0 \in S
        <3>1. 0 \in 0..n /\ next + 0 = next /\ 1..0 = {}
            OBVIOUS
        <3>2. after[0] = g0
            BY <2>0, <2>1, <3>1, Zenon DEF IsAdding
        <3>3. {keys[j] : j \in 1..0} = {}
            OBVIOUS
        <3>4. Fine(0)
            BY <3>1, <3>2, <3>3, Zenon
        <3> QED  BY <3>4
    <2>3. ASSUME NEW k \in Nat, k \in S PROVE k + 1 \in S
        <3> SUFFICES ASSUME k + 1 <= n PROVE Fine(k + 1)
            <4>1. k + 1 \in Nat
                OBVIOUS
            <4> QED  BY <4>1, Zenon
        <3>0. k <= n /\ k + 1 \in 0..n /\ k + 1 \in 1..n /\ k + 1 # 0 /\ (k + 1) - 1 = k
            OBVIOUS
        <3>1. /\ Fine(k)
              /\ k + 1 \in 0..n /\ k + 1 \in 1..n /\ k + 1 # 0 /\ (k + 1) - 1 = k
            BY <2>3, <3>0, Zenon
        <3>2. after[k + 1] = AddAccount(after[k], keys[k + 1], c)
            <4>1. after[k + 1] = AddAccount(after[(k + 1) - 1], keys[k + 1], c)
                BY <2>0, <2>1, <3>1, Zenon DEF IsAdding
            <4> QED  BY <3>1, <4>1, Zenon
        <3>3. PICK a, m : a = keys[k + 1] /\ m = next + k
            BY Zenon
        <3>4. a = m /\ m \in Nat /\ m >= 1 /\ a \in Nat /\ a >= m /\ a + 1 = next + (k + 1)
            <4>1. a = next + ((k + 1) - 1)
                BY <2>0, <3>1, <3>3, Zenon
            <4> QED  BY <3>3, <4>1
        <3>41. Opens(a, m, c)
            BY <3>4, Zenon DEF Opens
        <3>5. PICK x, y : x = after[k] /\ y = after[k + 1]
            BY Zenon
        <3>6. Good(x, m) /\ Unnumbered(x) /\ y = AddAccount(x, a, c)
            BY <3>1, <3>2, <3>3, <3>5, Zenon
        <3>7. /\ Good(y, a + 1) /\ Unnumbered(y)
              /\ Addresses(y.balances) = Addresses(x.balances) \union {a}
              /\ y.genTxs = x.genTxs
            <4>1. Opened(x, y, a, c)
                BY <3>41, <3>6, AccountAdded, Zenon
            <4> QED  BY <4>1, Zenon DEF Opened
        <3>8. {keys[j] : j \in 1..(k + 1)} = {keys[j] : j \in 1..k} \union {a}
            <4>1. /\ \A j \in 1..(k + 1) : j \in 1..k \/ j = k + 1
                  /\ \A j \in 1..k : j \in 1..(k + 1)
                  /\ k + 1 \in 1..(k + 1)
                OBVIOUS
            <4>2. \A z \in {keys[j] : j \in 1..(k + 1)} : z \in {keys[j] : j \in 1..k} \union {a}
                BY <3>3, <4>1, Zenon
            <4>3. \A z \in {keys[j] : j \in 1..k} : z \in {keys[j] : j \in 1..(k + 1)}
                BY <4>1, Zenon
            <4>4. a \in {keys[j] : j \in 1..(k + 1)}
                BY <3>3, <4>1, Zenon
            <4> QED  BY <4>2, <4>3, <4>4, Zenon
        <3> QED  BY <3>1, <3>4, <3>5, <3>7, <3>8, Zenon
    <2>4. \A k \in Nat : k \in S
        <3> HIDE DEF S
        <3> QED  BY <2>2, <2>3, Inductive, Zenon
    <2>5. Fine(n)
        <3>1. n <= n
            OBVIOUS
        <3> QED  BY <2>4, <3>1, Zenon
    <2>6. Range(keys) = {keys[j] : j \in 1..n}
        BY <2>0, Zenon DEF Range
    <2> QED  BY <2>1, <2>5, <2>6, Zenon DEF Endowed
<1> QED  BY <1>2, Zenon
-----------------------------------------------------------------------------
(* The document and the files                                              *)

\* A validator key with a stake.
Staked(g, key) == \E t \in Range(g.genTxs) : t.pubKey = key

\* A node's directory, beside the document as it is in memory.
Agrees(g, dir) ==
    /\ dir.genesis.written => g.finalized = TRUE /\ dir.genesis.doc = g
    /\ dir.priv_validator_key # NoKey => Staked(g, dir.priv_validator_key)

\* All the directories.
AllAgree(g, nodes) == \A h \in DOMAIN nodes : Agrees(g, nodes[h])

\* Every validator has a stake, its directory written or not.
AllStaked(g, configs) ==
    \A m \in 1..Len(configs) :
        configs[m].validatorKey # NoKey => Staked(g, configs[m].validatorKey)

\* The keys in the key files have a balance.
KeysFunded(g, accounts) ==
    \A k \in DOMAIN accounts : Range(accounts[k]) \subseteq Addresses(g.balances)

\* The first Save, of the first validator's genesis, numbers the accounts.
Stage(g, at, k) ==
    IF at \in {"validators", "instances"} \/ (at = "genesis" /\ k = 0)
    THEN Unnumbered(g) ELSE Numbered(g)

\* While generate runs, the document in memory and the files beside it. It needs more
\* than GenesisConsistent: Save must find nothing left to sort or to number, or the
\* nodes that were saved later would have another document than the first.
DocumentInv ==
    /\ Good(gen.genesis, nextKey)
    /\ Stage(gen.genesis, pc, i)
    /\ AllAgree(gen.genesis, disk.nodes)
    /\ AllStaked(gen.genesis, gen.configs)
    /\ KeysFunded(gen.genesis, disk.accounts)

\* The inductive invariant behind GenesisConsistent (generator.go:75-224,
\* genesis.go:141-250). A command that was stopped or refused leaves the files in order.
GenesisInv ==
    /\ pc \in Live => DocumentInv
    /\ pc \notin Live => GenesisConsistent

\* A document that more was added to.
Grows(g, h) ==
    /\ Range(g.genTxs) \subseteq Range(h.genTxs)
    /\ Addresses(g.balances) \subseteq Addresses(h.balances)

\* What was staked, agreed on and funded remains so in a document that grows.
LEMMA GrownStaked ==
    ASSUME NEW g, NEW h, Grows(g, h), NEW configs, AllStaked(g, configs)
    PROVE  AllStaked(h, configs)
BY Zenon DEF Grows, AllStaked, Staked

LEMMA GrownAgrees ==
    ASSUME NEW g, NEW h, Grows(g, h), g.finalized = FALSE, NEW nodes, AllAgree(g, nodes)
    PROVE  /\ AllAgree(h, nodes)
           /\ \A x \in DOMAIN nodes : ~nodes[x].genesis.written
<1>1. g.finalized # TRUE
    BY Zenon
<1> QED  BY <1>1, Zenon DEF Grows, AllAgree, Agrees, Staked

LEMMA GrownFunded ==
    ASSUME NEW g, NEW h, Grows(g, h), NEW accounts, KeysFunded(g, accounts)
    PROVE  KeysFunded(h, accounts)
BY Zenon DEF Grows, KeysFunded

\* More keys are drawn.
LEMMA GoodLater ==
    ASSUME NEW g, NEW next \in Nat, NEW later \in Nat, next <= later, Good(g, next)
    PROVE  Good(g, later)
<1>1. 1..(next - 1) \subseteq 1..(later - 1)
    OBVIOUS
<1> QED  BY <1>1, Zenon DEF Good, Balances

\* Every entry of a list that gets one more.
LEMMA MoreStaked ==
    ASSUME NEW g, NEW configs, IsList(configs), AllStaked(g, configs), NEW cfg,
           cfg.validatorKey # NoKey => Staked(g, cfg.validatorKey)
    PROVE  AllStaked(g, Append(configs, cfg))
<1>1. PICK n : n = Len(configs)
    BY Zenon
<1>2. n \in Nat
    BY <1>1, ListDomain, Zenon
<1>3. PICK more : more = Append(configs, cfg)
    BY Zenon
<1>4. Len(more) = n + 1 /\ more[n + 1] = cfg /\ \A k \in 1..n : more[k] = configs[k]
    BY <1>1, <1>3, Appended
<1>5. \A k \in 1..(n + 1) : k = n + 1 \/ k \in 1..n
    BY <1>2
<1>6. \A k \in 1..(n + 1) : more[k].validatorKey # NoKey => Staked(g, more[k].validatorKey)
    BY <1>1, <1>4, <1>5, Zenon DEF AllStaked
<1> QED  BY <1>3, <1>4, <1>6, Zenon DEF AllStaked

\* A directory that is put down beside the others.
LEMMA MoreAgree ==
    ASSUME NEW g, NEW nodes, AllAgree(g, nodes), NEW home, NEW dir, Agrees(g, dir)
    PROVE  AllAgree(g, Put(nodes, home, dir))
BY Zenon DEF AllAgree, Put

\* A directory that is written again.
LEMMA StillAgree ==
    ASSUME NEW g, NEW nodes, AllAgree(g, nodes), NEW home, NEW dir, Agrees(g, dir)
    PROVE  AllAgree(g, Replaced(nodes, home, dir))
BY Zenon DEF AllAgree, Replaced

\* What GenesisConsistent says of one document.
Proper(d, docs, nodes, accounts) ==
    /\ docs = {d}
    /\ \A k \in DOMAIN accounts : Range(accounts[k]) \subseteq Funded(d)
    /\ Cardinality(Funded(d)) = Len(d.balances)
    /\ Funded(d) = {d.accounts[k].address : k \in DOMAIN d.accounts}
    /\ \A j, k \in DOMAIN d.accounts : d.accounts[j].number = d.accounts[k].number => j = k
    /\ d.supply = SumFunction([k \in DOMAIN d.balances |-> d.balances[k].coins])
    /\ \A h \in DOMAIN nodes :
          nodes[h].priv_validator_key # NoKey =>
             \E t \in Range(d.genTxs) :
                /\ t.pubKey = nodes[h].priv_validator_key
                /\ \E b \in Range(d.balances) : b.address = t.staker /\ b.coins >= t.amount

\* GenesisConsistent, document by document.
LEMMA ConsistentIs ==
    /\ GenesisConsistent <=>
          \A d \in Docs : Proper(d, Docs, disk.nodes, disk.accounts)
    /\ GenesisConsistent' <=>
          \A d \in Docs' : Proper(d, Docs', disk'.nodes, disk'.accounts)
BY Zenon DEF GenesisConsistent, Proper, Funded

\* What is on disk while the command is under way.
LEMMA DocumentConsistent ==
    ASSUME DocumentInv
    PROVE  GenesisConsistent
<1>1. PICK g, b, a : g = gen.genesis /\ b = g.balances /\ a = g.accounts
    BY Zenon
<1>2. /\ Good(g, nextKey) /\ Stage(g, pc, i) /\ AllAgree(g, disk.nodes)
      /\ KeysFunded(g, disk.accounts)
    BY <1>1, Zenon DEF DocumentInv
<1>3. \A d \in Docs : d = g
    BY <1>2, Zenon DEF Docs, Written, AllAgree, Agrees
<1>4. Docs # {} => Numbered(g)
    <2>1. Docs # {} => g.finalized = TRUE
        BY <1>2, Zenon DEF Docs, Written, AllAgree, Agrees
    <2>2. Unnumbered(g) => g.finalized # TRUE
        BY Zenon DEF Unnumbered
    <2> QED  BY <1>2, <2>1, <2>2, Zenon DEF Stage
<1>5. Funded(g) = Addresses(b)
    BY <1>1, Zenon DEF Funded, Addresses
<1>6. Cardinality(Funded(g)) = Len(b)
    <2>1. Balances(b, nextKey)
        BY <1>1, <1>2, Zenon DEF Good
    <2>2. Len(b) \in Nat /\ DOMAIN b = 1..Len(b)
        BY <2>1, CoinsOf, Zenon
    <2>3. PICK S : S = 1..Len(b)
        BY Zenon
    <2>4. PICK f : f = [k \in S |-> b[k].address]
        BY Zenon
    <2>5. DOMAIN f = S /\ f = [k \in S |-> f[k]] /\ \A k \in S : f[k] = b[k].address
        BY <2>4, Zenon
    <2>6. \A j, k \in S : f[j] = f[k] => j = k
        BY <2>1, <2>3, <2>5, Zenon DEF Balances
    <2>7. IsFiniteSet(S) /\ Cardinality(S) = Len(b)
        BY <2>2, <2>3, FirstNumbers, Zenon
    <2>8. Cardinality({f[k] : k \in S}) = Cardinality(S)
        BY <2>5, <2>6, <2>7, Counted
    <2>9. {f[k] : k \in S} = Addresses(b)
        BY <2>2, <2>3, <2>5, Zenon DEF Addresses
    <2> QED  BY <1>5, <2>7, <2>8, <2>9, Zenon
<1>7. \A h \in DOMAIN disk.nodes : disk.nodes[h].priv_validator_key # NoKey =>
          \E t \in Range(g.genTxs) :
              /\ t.pubKey = disk.nodes[h].priv_validator_key
              /\ \E x \in Range(b) : x.address = t.staker /\ x.coins >= t.amount
    BY <1>1, <1>2, Zenon DEF AllAgree, Agrees, Staked, Good, Covered
<1>8. /\ Funded(g) = {a[k].address : k \in DOMAIN a}
      /\ g.supply = SumFunction([k \in DOMAIN b |-> b[k].coins])
    <2>1. Addresses(b) = Addresses(a) /\ g.supply = SumFunction(Coins(b))
        BY <1>1, <1>2, Zenon DEF Good
    <2>2. Addresses(a) = {a[k].address : k \in DOMAIN a}
        BY Zenon DEF Addresses
    <2>3. Coins(b) = [k \in DOMAIN b |-> b[k].coins]
        BY Zenon DEF Coins
    <2>4. Funded(g) = Addresses(a)
        BY <1>5, <2>1, Zenon
    <2> QED  BY <2>1, <2>2, <2>3, <2>4, Zenon
<1>9. \A k \in DOMAIN disk.accounts : Range(disk.accounts[k]) \subseteq Funded(g)
    BY <1>1, <1>2, <1>5, Zenon DEF KeysFunded
<1> SUFFICES ASSUME NEW d \in Docs
             PROVE  Proper(d, Docs, disk.nodes, disk.accounts)
    BY ConsistentIs, Zenon
<1>10. d = g /\ Docs = {d}
    BY <1>3, Zenon
<1>11. \A j, k \in DOMAIN d.accounts : d.accounts[j].number = d.accounts[k].number => j = k
    BY <1>4, <1>10, Zenon DEF Numbered
<1>12. /\ Cardinality(Funded(d)) = Len(d.balances)
       /\ Funded(d) = {d.accounts[k].address : k \in DOMAIN d.accounts}
       /\ d.supply = SumFunction([k \in DOMAIN d.balances |-> d.balances[k].coins])
    BY <1>1, <1>6, <1>8, <1>10, Zenon
<1>13. \A h \in DOMAIN disk.nodes : disk.nodes[h].priv_validator_key # NoKey =>
          \E t \in Range(d.genTxs) :
              /\ t.pubKey = disk.nodes[h].priv_validator_key
              /\ \E x \in Range(d.balances) : x.address = t.staker /\ x.coins >= t.amount
    BY <1>1, <1>7, <1>10, Zenon
<1>14. \A k \in DOMAIN disk.accounts : Range(disk.accounts[k]) \subseteq Funded(d)
    BY <1>9, <1>10, Zenon
<1> QED  BY <1>10, <1>11, <1>12, <1>13, <1>14, Zenon DEF Proper
-----------------------------------------------------------------------------
(* The steps of generate                                                   *)

\* A new document has nobody in it.
LEMMA DocumentStarts ==
    ASSUME NEW e \in Environments, GenerateConfigs(e), ~Refused(e)
    PROVE  DocumentInv'
<1>1. /\ pc' = "validators" /\ i' = 0 /\ disk' = NoFiles /\ gen' = Fresh(e)
    BY Zenon DEF GenerateConfigs
<1>2. PICK g : g = gen'.genesis
    BY Zenon
<1>3. /\ g = NewGenesis(e) /\ gen'.configs = << >>
      /\ disk'.nodes = << >> /\ disk'.accounts = << >>
    BY <1>1, <1>2 DEF Fresh, NoFiles
<1>4. /\ DOMAIN g = GenesisFields /\ g.finalized = FALSE /\ g.accounts = << >>
      /\ g.balances = << >> /\ g.supply = 0 /\ g.genTxs = << >>
    BY <1>3 DEF NewGenesis, GenesisFields
<1>5. IsList(<< >>) /\ Len(<< >>) = 0 /\ DOMAIN << >> = {} /\ 1..0 = {} /\ Range(<< >>) = {}
    BY DEF IsList, Range
<1>6. SumFunction(Coins(<< >>)) = 0
    <2>1. DOMAIN Coins(<< >>) = {}
        BY <1>5, Zenon DEF Coins
    <2> QED  BY <2>1, Sums, Zenon
<1>7. Good(g, nextKey')
    <2>1. Balances(<< >>, nextKey')
        BY <1>5, Zenon DEF Balances
    <2>2. Covered(<< >>, << >>)
        BY <1>5, Zenon DEF Covered
    <2> QED  BY <1>4, <1>5, <1>6, <2>1, <2>2, Zenon DEF Good
<1>8. Stage(g, pc', i')
    <2>1. Unnumbered(g)
        BY <1>4, <1>5, Zenon DEF Unnumbered, WithoutNumbers
    <2> QED  BY <1>1, <2>1, Zenon DEF Stage
<1>9. AllAgree(g, disk'.nodes) /\ AllStaked(g, gen'.configs)
    BY <1>3, <1>5, Zenon DEF AllAgree, AllStaked
<1>10. KeysFunded(g, disk'.accounts)
    BY <1>3, <1>5, Zenon DEF KeysFunded
<1> QED  BY <1>2, <1>7, <1>8, <1>9, <1>10, Zenon DEF DocumentInv

\* Some of the files.
LEMMA FewerConsistent ==
    ASSUME GenesisConsistent,
           DOMAIN disk'.nodes \subseteq DOMAIN disk.nodes,
           \A h \in DOMAIN disk'.nodes : disk'.nodes[h] = disk.nodes[h],
           DOMAIN disk'.accounts \subseteq DOMAIN disk.accounts,
           \A k \in DOMAIN disk'.accounts : disk'.accounts[k] = disk.accounts[k]
    PROVE  GenesisConsistent'
<1>1. \A d \in Docs' : d \in Docs
    BY Zenon DEF Docs, Written
<1> SUFFICES ASSUME NEW d \in Docs'
             PROVE  Proper(d, Docs', disk'.nodes, disk'.accounts)
    BY ConsistentIs, Zenon
<1>2. d \in Docs /\ Proper(d, Docs, disk.nodes, disk.accounts)
    BY <1>1, ConsistentIs, Zenon
<1>3. Docs' = {d}
    BY <1>1, <1>2, Zenon DEF Proper
<1> QED  BY <1>2, <1>3, Zenon DEF Proper

\* One lemma per step of generate.
LEMMA ValidatorDocument ==
    ASSUME GenTypeOK, ClusterInv, DocumentInv, GenerateValidator
    PROVE  DocumentInv'
<1>0. pc = "validators" /\ pc \in Live
    BY DEF GenerateValidator, Live, Running
<1>1. /\ nextKey \in Nat \ {0} /\ DOMAIN disk = DOMAIN NoFiles
      /\ DOMAIN gen = GenFields
      /\ env.validators \in Int /\ env.sentries \in Int /\ env.validators > 0
      /\ Progress(env, pc, i, Len(gen.configs))
      /\ Cluster(env, gen.configs, disk.nodes, nextKey)
      /\ IsList(gen.configs)
      /\ i \in Nat
    BY <1>0, UnderWay, Zenon
<1>2. PICK cfg, dir, g, staker, funded, h :
        /\ cfg = ValidatorConfig(env, i, nextKey, nextKey + 1)
        /\ dir = SaveAppConfig(SaveNodeConfig(Dir(cfg.home), cfg), AppConfig(env, cfg))
        /\ g = gen.genesis
        /\ staker = nextKey + 2
        /\ funded = AddAccount(g, staker, initialBalanceStaker)
        /\ h = AddValidator(funded, nextKey + 1, staker, initialBalanceBonded)
    BY Zenon
<1>3. /\ disk'.nodes = Put(disk.nodes, cfg.home, dir)
      /\ disk'.accounts = disk.accounts
      /\ gen'.genesis = h
      /\ gen'.configs = Append(gen.configs, cfg)
    BY <1>1, <1>2 DEF GenerateValidator, NoFiles, GenFields, GenerateSecp256k1Key
<1>4. /\ nextKey' = nextKey + 3 /\ env' = env
      /\ pc' \in {"validators", "instances"}
    BY <1>0, Zenon DEF GenerateValidator, Iterate
<1>5. /\ Good(g, nextKey) /\ Unnumbered(g) /\ AllAgree(g, disk.nodes)
      /\ AllStaked(g, gen.configs)
      /\ KeysFunded(g, disk.accounts)
    BY <1>0, <1>2, Zenon DEF DocumentInv, Stage
<1>6. Opened(g, funded, staker, initialBalanceStaker)
    <2>1. Opens(staker, nextKey, initialBalanceStaker)
        BY <1>1, <1>2 DEF Opens, initialBalanceStaker
    <2> QED  BY <1>2, <1>5, <2>1, AccountAdded, Zenon
<1>7. /\ Good(h, staker + 1) /\ Unnumbered(h)
      /\ h.balances = funded.balances
      /\ Staked(h, nextKey + 1)
      /\ Range(funded.genTxs) \subseteq Range(h.genTxs)
    <2>1. /\ Good(funded, staker + 1) /\ Unnumbered(funded)
          /\ [address |-> staker, coins |-> initialBalanceStaker] \in Range(funded.balances)
        BY <1>6, Zenon DEF Opened
    <2>2. PICK x : x = [address |-> staker, coins |-> initialBalanceStaker]
        BY Zenon
    <2>3. x.address = staker /\ x.coins >= initialBalanceBonded
        BY <2>2 DEF initialBalanceStaker, initialBalanceBonded
    <2>4. \E y \in Range(funded.balances) :
              y.address = staker /\ y.coins >= initialBalanceBonded
        BY <2>1, <2>2, <2>3, Zenon
    <2>5. Joined(funded, h, staker + 1, nextKey + 1)
        BY <1>2, <2>1, <2>4, ValidatorAdded, Zenon
    <2> QED  BY <2>5, Zenon DEF Joined, Staked
<1>8. Grows(g, h) /\ g.finalized = FALSE
    BY <1>5, <1>6, <1>7, Zenon DEF Grows, Opened, Unnumbered
<1>9. AllAgree(h, disk.nodes) /\ \A x \in DOMAIN disk.nodes : ~disk.nodes[x].genesis.written
    BY <1>5, <1>8, GrownAgrees, Zenon
<1>10. cfg.validatorKey = nextKey + 1 /\ nextKey + 1 # NoKey
    <2>1. cfg.validatorKey = nextKey + 1
        BY <1>2 DEF ValidatorConfig
    <2>2. nextKey + 1 # NoKey
        BY <1>1 DEF NoKey
    <2> QED  BY <2>1, <2>2, Zenon
<1>11. Agrees(h, dir)
    <2>1. DOMAIN cfg.ports = DOMAIN DefaultPorts
        <3>1. Len(gen.configs) = i /\ i < env.validators
            BY <1>0, <1>1, Zenon DEF Progress
        <3>2. Assigned(env, cfg, i + 1)
            BY <1>1, <1>2, <3>1, ValidatorAssigned
        <3> QED  BY <3>2, PortNames, Zenon
    <2>2. DOMAIN Dir(cfg.home) = DOMAIN EmptyDir
        BY <1>1, DirFields, Zenon
    <2>3. /\ dir.priv_validator_key = IF cfg.validatorKey = NoKey
                                      THEN Dir(cfg.home).priv_validator_key ELSE cfg.validatorKey
          /\ dir.genesis = Dir(cfg.home).genesis
        <3>1. dir = SaveAppConfig(SaveNodeConfig(Dir(cfg.home), cfg), AppConfig(env, cfg))
            BY <1>2, Zenon
        <3> QED  BY ONLY <2>1, <2>2, <3>1, SavedNode, SMT
    <2>4. dir.priv_validator_key = nextKey + 1
        BY <1>10, <2>3, Zenon
    <2>5. ~Dir(cfg.home).genesis.written
        <3>1. ~EmptyDir.genesis.written
            BY DEF EmptyDir, Missing
        <3> QED  BY <1>9, <3>1, Zenon DEF Dir
    <2> QED  BY <1>7, <2>3, <2>4, <2>5, Zenon DEF Agrees
<1>12. AllAgree(h, disk'.nodes)
    BY <1>3, <1>9, <1>11, MoreAgree, Zenon
<1>13. AllStaked(h, gen'.configs)
    <2>1. AllStaked(h, gen.configs)
        BY <1>5, <1>8, GrownStaked, Zenon
    <2> QED  BY <1>1, <1>3, <1>7, <1>10, <2>1, MoreStaked, Zenon
<1>14. KeysFunded(h, disk'.accounts)
    BY <1>3, <1>4, <1>5, <1>8, GrownFunded, Zenon
<1>15. Good(h, nextKey')
    <2>1. staker + 1 = nextKey'
        BY <1>1, <1>2, <1>4
    <2> QED  BY <1>7, <2>1, Zenon
<1>16. Stage(h, pc', i')
    BY <1>4, <1>7, Zenon DEF Stage
<1> QED  BY <1>3, <1>12, <1>13, <1>14, <1>15, <1>16, Zenon DEF DocumentInv

LEMMA InstanceDocument ==
    ASSUME GenTypeOK, ClusterInv, DocumentInv, GenerateInstance
    PROVE  DocumentInv'
<1>0. pc = "instances" /\ pc \in Live
    BY DEF GenerateInstance, Live, Running
<1>1. /\ nextKey \in Nat \ {0} /\ DOMAIN disk = DOMAIN NoFiles
      /\ DOMAIN gen = GenFields
      /\ Progress(env, pc, i, Len(gen.configs))
    BY <1>0, UnderWay, Zenon
<1>2. PICK n, keys, g, h :
        /\ n = env.accountsPerInstance
        /\ keys = [k \in 1..n |-> nextKey + (k - 1)]
        /\ g = gen.genesis
        /\ h = AddAccounts(g, keys, initialBalanceAccount)
    BY Zenon
<1>3. /\ disk'.nodes = disk.nodes
      /\ disk'.accounts = Put(disk.accounts, i, keys)
      /\ gen'.genesis = h
      /\ gen'.configs = gen.configs
    <2>1. keys = [k \in 1..env.accountsPerInstance |-> GenerateSecp256k1Key(k - 1)]
        BY <1>2, Zenon DEF GenerateSecp256k1Key
    <2>2. /\ gen' = [gen EXCEPT !.genesis = AddAccounts(@, keys, initialBalanceAccount)]
          /\ disk' = [disk EXCEPT !.accounts = Put(@, i, keys)]
        BY <2>1, Zenon DEF GenerateInstance
    <2> QED  BY <1>1, <1>2, <2>2 DEF NoFiles, GenFields
<1>4. /\ nextKey' = nextKey + n /\ n >= 0
      /\ pc' = "instances" \/ (pc' = "genesis" /\ i' = 0)
    BY <1>0, <1>2, Zenon DEF GenerateInstance, Iterate
<1>5. n \in Nat
    <2>1. n \in Int
        BY <1>1, <1>2, EnvTypes, Zenon DEF Progress
    <2> QED  BY <1>4, <2>1
<1>6. /\ Good(g, nextKey) /\ Unnumbered(g) /\ AllAgree(g, disk.nodes)
      /\ AllStaked(g, gen.configs)
      /\ KeysFunded(g, disk.accounts)
    BY <1>0, <1>2, Zenon DEF DocumentInv, Stage
<1>7. /\ Good(h, nextKey + n) /\ Unnumbered(h)
      /\ Addresses(h.balances) = Addresses(g.balances) \union Range(keys)
      /\ h.genTxs = g.genTxs
    <2>1. nextKey \in Nat /\ nextKey >= 1 /\ initialBalanceAccount \in Int
        BY <1>1 DEF initialBalanceAccount
    <2>2. Endowed(g, h, nextKey + n, keys)
        BY <1>2, <1>5, <1>6, <2>1, AccountsAdded, Zenon
    <2> QED  BY <2>2, Zenon DEF Endowed
<1>8. Grows(g, h) /\ g.finalized = FALSE
    BY <1>6, <1>7, Zenon DEF Grows, Unnumbered
<1>9. AllAgree(h, disk'.nodes)
    BY <1>3, <1>6, <1>8, GrownAgrees, Zenon
<1>10. AllStaked(h, gen'.configs)
    BY <1>3, <1>6, <1>8, GrownStaked, Zenon
<1>11. KeysFunded(h, disk'.accounts)
    <2>1. KeysFunded(h, disk.accounts)
        BY <1>6, <1>8, GrownFunded, Zenon
    <2> QED  BY <1>3, <1>7, <2>1, Zenon DEF KeysFunded, Put
<1>12. Stage(h, pc', i')
    BY <1>4, <1>7, Zenon DEF Stage
<1> QED  BY <1>3, <1>4, <1>7, <1>9, <1>10, <1>11, <1>12, Zenon DEF DocumentInv

\* What saving the document makes of it, the first time and again.
Settled(g, s, next) ==
    /\ Good(s, next) /\ Numbered(s)
    /\ Grows(g, s)
    /\ \A nodes : AllAgree(g, nodes) => AllAgree(s, nodes)

\* Save settles the document, whether for the first time or again.
LEMMA DocumentSaved ==
    ASSUME NEW g, NEW next \in Nat, Good(g, next), NEW at, NEW k, Stage(g, at, k),
           NEW s, s = SaveGenesis(g)
    PROVE  Settled(g, s, next)
<1>1. CASE Unnumbered(g)
    <2>1. /\ Good(s, next) /\ Numbered(s)
          /\ Addresses(s.balances) = Addresses(g.balances) /\ s.genTxs = g.genTxs
        BY <1>1, GenesisSaved
    <2>2. Grows(g, s)
        BY <2>1, Zenon DEF Grows
    <2>3. g.finalized = FALSE
        BY <1>1, Zenon DEF Unnumbered
    <2>4. \A nodes : AllAgree(g, nodes) => AllAgree(s, nodes)
        BY <2>2, <2>3, GrownAgrees, Zenon
    <2> QED  BY <2>1, <2>2, <2>4, Zenon DEF Settled
<1>2. CASE Numbered(g)
    <2>1. s = g
        BY <1>2, Zenon DEF Numbered
    <2>2. Grows(g, g)
        BY Zenon DEF Grows
    <2> QED  BY <1>2, <2>1, <2>2, Zenon DEF Settled
<1> QED  BY <1>1, <1>2, Zenon DEF Stage

LEMMA GenesisDocument ==
    ASSUME GenTypeOK, ClusterInv, DocumentInv, SaveValidatorGenesis
    PROVE  DocumentInv'
<1>0. pc = "genesis" /\ pc \in Live
    BY DEF SaveValidatorGenesis, Live, Running
<1>1. /\ nextKey \in Nat \ {0} /\ DOMAIN disk = DOMAIN NoFiles
      /\ DOMAIN gen = GenFields
      /\ env.validators \in Int /\ env.validators > 0
      /\ Progress(env, pc, i, Len(gen.configs))
      /\ Cluster(env, gen.configs, disk.nodes, nextKey)
      /\ i \in Nat
    BY <1>0, UnderWay, Zenon
<1>2. PICK g, s, doc, home, old, dir :
        /\ g = gen.genesis /\ s = SaveGenesis(g) /\ doc = [written |-> TRUE, doc |-> s]
        /\ home = <<"validators", i>> /\ old = disk.nodes[home]
        /\ dir = [old EXCEPT !.genesis = doc]
    BY Zenon
<1>3. /\ disk'.nodes = [disk.nodes EXCEPT ![home].genesis = doc]
      /\ disk'.accounts = disk.accounts
      /\ gen'.genesis = s /\ gen'.configs = gen.configs
    <2>1. /\ gen' = [gen EXCEPT !.genesis = s]
          /\ disk' = [disk EXCEPT !.nodes[home].genesis = doc]
        BY <1>2, Zenon DEF SaveValidatorGenesis
    <2> QED  BY <1>1, <2>1 DEF NoFiles, GenFields
<1>4. disk'.nodes = [disk.nodes EXCEPT ![home] = dir]
    BY <1>2, <1>3, Zenon
<1>5. /\ nextKey' = nextKey
      /\ \/ pc' = "genesis" /\ i' = i + 1
         \/ pc' \in {"sentries", "peers"}
    BY <1>0, Zenon DEF SaveValidatorGenesis, Iterate
<1>6. /\ Good(g, nextKey) /\ Stage(g, pc, i) /\ AllAgree(g, disk.nodes)
      /\ AllStaked(g, gen.configs)
      /\ KeysFunded(g, disk.accounts)
    BY <1>2, Zenon DEF DocumentInv
<1>7. Settled(g, s, nextKey)
    BY <1>1, <1>2, <1>6, DocumentSaved, Zenon
<1>8. AllAgree(s, disk.nodes) /\ Grows(g, s) /\ Numbered(s) /\ Good(s, nextKey)
    BY <1>6, <1>7, Zenon DEF Settled
<1>9. home \in DOMAIN disk.nodes /\ DOMAIN old = DOMAIN EmptyDir
    <2>1. Len(gen.configs) = env.validators /\ i < env.validators
        BY <1>0, <1>1, Zenon DEF Progress
    <2>2. i + 1 \in 1..Len(gen.configs) /\ Home(env, i + 1) = home
        BY <1>1, <1>2, <2>1 DEF Home
    <2> QED  BY <1>1, <1>2, <2>2, Zenon DEF Cluster, Holds
<1>10. Agrees(s, dir)
    <2>1. /\ dir.priv_validator_key = old.priv_validator_key /\ dir.genesis = doc
        BY <1>2, <1>9 DEF EmptyDir
    <2>2. doc.doc = s
        BY <1>2
    <2>3. Agrees(s, old)
        BY <1>2, <1>8, <1>9, Zenon DEF AllAgree
    <2>4. s.finalized = TRUE
        BY <1>8, Zenon DEF Numbered
    <2> QED  BY <2>1, <2>2, <2>3, <2>4, Zenon DEF Agrees
<1>11. AllAgree(s, disk'.nodes)
    <2>1. disk'.nodes = Replaced(disk.nodes, home, dir)
        BY <1>4, Zenon DEF Replaced
    <2> QED  BY <1>8, <1>10, <2>1, StillAgree, Zenon
<1>12. AllStaked(s, gen'.configs)
    <2>1. AllStaked(s, gen.configs)
        BY <1>6, <1>8, GrownStaked, Zenon
    <2> QED  BY <1>3, <2>1, Zenon
<1>13. KeysFunded(s, disk'.accounts)
    BY <1>3, <1>5, <1>6, <1>8, GrownFunded, Zenon
<1>14. Stage(s, pc', i')
    <2>1. ~(pc' \in {"validators", "instances"} \/ (pc' = "genesis" /\ i' = 0))
        BY <1>1, <1>5
    <2> QED  BY <1>8, <2>1, Zenon DEF Stage
<1> QED  BY <1>3, <1>5, <1>8, <1>11, <1>12, <1>13, <1>14, Zenon DEF DocumentInv

LEMMA SentryDocument ==
    ASSUME GenTypeOK, ClusterInv, DocumentInv, GenerateSentry
    PROVE  DocumentInv'
<1>0. pc = "sentries" /\ pc \in Live
    BY DEF GenerateSentry, Live, Running
<1>1. /\ nextKey \in Nat \ {0} /\ DOMAIN disk = DOMAIN NoFiles
      /\ DOMAIN gen = GenFields
      /\ env.validators \in Int /\ env.sentries \in Int /\ env.validators > 0
      /\ Progress(env, pc, i, Len(gen.configs))
      /\ Cluster(env, gen.configs, disk.nodes, nextKey)
      /\ IsList(gen.configs)
      /\ i \in Nat
    BY <1>0, UnderWay, Zenon
<1>2. PICK cfg, dir, g, s, doc, saved :
        /\ cfg = SentryConfig(env, i, nextKey, gen.peers, gen.validatorIDs)
        /\ dir = SaveAppConfig(SaveNodeConfig(Dir(cfg.home), cfg), AppConfig(env, cfg))
        /\ g = gen.genesis /\ s = SaveGenesis(g)
        /\ doc = [written |-> TRUE, doc |-> s]
        /\ saved = [dir EXCEPT !.genesis = doc]
    BY Zenon
<1>3. /\ disk'.nodes = Put(disk.nodes, cfg.home, saved)
      /\ disk'.accounts = disk.accounts
      /\ gen'.genesis = s
      /\ gen'.configs = Append(gen.configs, cfg)
    BY <1>1, <1>2 DEF GenerateSentry, NoFiles, GenFields
<1>4. /\ nextKey' = nextKey + 1
      /\ pc' \in {"sentries", "peers"}
    BY <1>0, Zenon DEF GenerateSentry, Iterate
<1>5. /\ Good(g, nextKey) /\ Stage(g, pc, i) /\ AllAgree(g, disk.nodes)
      /\ AllStaked(g, gen.configs)
      /\ KeysFunded(g, disk.accounts)
    BY <1>2, Zenon DEF DocumentInv
<1>6. Settled(g, s, nextKey)
    BY <1>1, <1>2, <1>5, DocumentSaved, Zenon
<1>7. AllAgree(s, disk.nodes) /\ Grows(g, s) /\ Numbered(s) /\ Good(s, nextKey)
    BY <1>5, <1>6, Zenon DEF Settled
<1>8. cfg.validatorKey = NoKey
    BY <1>2 DEF SentryConfig
<1>9. Agrees(s, saved)
    <2>1. DOMAIN cfg.ports = DOMAIN DefaultPorts
        BY <1>2 DEF SentryConfig
    <2>2. DOMAIN Dir(cfg.home) = DOMAIN EmptyDir
        BY <1>1, DirFields, Zenon
    <2>3. Holds(dir, cfg) /\ dir.priv_validator_key = Dir(cfg.home).priv_validator_key
        <3>1. dir = SaveAppConfig(SaveNodeConfig(Dir(cfg.home), cfg), AppConfig(env, cfg))
            BY <1>2, Zenon
        <3> QED  BY ONLY <1>8, <2>1, <2>2, <3>1, SavedNode, SMT
    <2>4. saved.priv_validator_key = dir.priv_validator_key /\ saved.genesis = doc
        BY <1>2, <2>3 DEF Holds, EmptyDir
    <2>5. EmptyDir.priv_validator_key = NoKey
        BY DEF EmptyDir
    <2>6. Dir(cfg.home).priv_validator_key # NoKey =>
              Staked(s, Dir(cfg.home).priv_validator_key)
        BY <1>7, <2>5, Zenon DEF Dir, AllAgree, Agrees
    <2>7. doc.doc = s
        BY <1>2
    <2> QED  BY <1>7, <2>3, <2>4, <2>6, <2>7, Zenon DEF Agrees, Numbered
<1>10. AllAgree(s, disk'.nodes)
    BY <1>3, <1>7, <1>9, MoreAgree, Zenon
<1>11. AllStaked(s, gen'.configs)
    <2>1. AllStaked(s, gen.configs)
        BY <1>5, <1>7, GrownStaked, Zenon
    <2> QED  BY <1>1, <1>3, <1>8, <2>1, MoreStaked, Zenon
<1>12. KeysFunded(s, disk'.accounts)
    BY <1>3, <1>4, <1>5, <1>7, GrownFunded, Zenon
<1>13. Good(s, nextKey')
    <2>1. nextKey \in Nat /\ nextKey' \in Nat /\ nextKey <= nextKey'
        BY <1>1, <1>4
    <2> QED  BY <1>7, <2>1, GoodLater, Zenon
<1>14. Stage(s, pc', i')
    <2>1. ~(pc' \in {"validators", "instances"} \/ (pc' = "genesis" /\ i' = 0))
        BY <1>4
    <2> QED  BY <1>7, <2>1, Zenon DEF Stage
<1> QED  BY <1>3, <1>10, <1>11, <1>12, <1>13, <1>14, Zenon DEF DocumentInv

LEMMA PeersDocument ==
    ASSUME GenTypeOK, ClusterInv, DocumentInv, SaveValidatorPeers
    PROVE  DocumentInv'
<1>0. pc = "peers" /\ pc \in Live
    BY DEF SaveValidatorPeers, Live, Running
<1>1. /\ nextKey \in Nat \ {0} /\ DOMAIN disk = DOMAIN NoFiles
      /\ DOMAIN gen = GenFields
      /\ env.validators \in Int /\ env.validators > 0
      /\ Progress(env, pc, i, Len(gen.configs))
      /\ Cluster(env, gen.configs, disk.nodes, nextKey)
      /\ IsList(gen.configs) /\ Len(gen.configs) \in Nat
      /\ i \in Nat
    BY <1>0, UnderWay, Zenon
<1>2. PICK n \in Nat : n = Len(gen.configs)
    BY <1>1, Zenon
<1>3. i + 1 \in 1..n /\ Home(env, i + 1) = <<"validators", i>>
    <2>1. n >= env.validators /\ i < env.validators
        BY <1>0, <1>1, <1>2 DEF Progress
    <2> QED  BY <1>1, <2>1 DEF Home
<1>4. PICK g, old, cfg, file, dir :
        /\ g = gen.genesis
        /\ old = gen.configs[i + 1]
        /\ cfg = [old EXCEPT !.persistentPeers = filterStringValue(gen.peers, PeerAddress(old)),
                             !.privatePeerIds = gen.validatorIDs]
        /\ file = disk.nodes[Home(env, i + 1)]
        /\ dir = SaveNodeConfig(file, cfg)
    BY Zenon
<1>5. Assigned(env, old, i + 1) /\ Holds(file, old) /\ Home(env, i + 1) \in DOMAIN disk.nodes
    BY <1>1, <1>2, <1>3, <1>4, Zenon DEF Cluster
<1>6. cfg.home = Home(env, i + 1) /\ cfg.ports = old.ports /\ cfg.validatorKey = old.validatorKey
    BY <1>4, <1>5 DEF Assigned, ConfigFields
<1>7. /\ disk'.nodes = [disk.nodes EXCEPT ![Home(env, i + 1)] = dir]
      /\ disk'.accounts = disk.accounts
      /\ gen'.genesis = g
      /\ gen'.configs = [gen.configs EXCEPT ![i + 1] = cfg]
    <2>1. /\ gen' = [gen EXCEPT !.configs[i + 1] = cfg]
          /\ disk' = [disk EXCEPT !.nodes[cfg.home] = SaveNodeConfig(@, cfg)]
        BY <1>4, Zenon DEF SaveValidatorPeers
    <2>2. /\ disk'.nodes = [disk.nodes EXCEPT ![cfg.home] = SaveNodeConfig(disk.nodes[cfg.home], cfg)]
          /\ disk'.accounts = disk.accounts
          /\ gen'.genesis = gen.genesis
          /\ gen'.configs = [gen.configs EXCEPT ![i + 1] = cfg]
        BY <1>1, <2>1 DEF NoFiles, GenFields
    <2> QED  BY <1>4, <1>6, <2>2, Zenon
<1>8. nextKey' = nextKey /\ pc' \in {"peers", "done", "compose"}
    BY <1>0, Zenon DEF SaveValidatorPeers, Iterate
<1>9. /\ Good(g, nextKey) /\ Stage(g, pc, i) /\ AllAgree(g, disk.nodes)
      /\ AllStaked(g, gen.configs)
      /\ KeysFunded(g, disk.accounts)
    BY <1>4, Zenon DEF DocumentInv
<1>10. cfg.validatorKey # NoKey => Staked(g, cfg.validatorKey)
    BY <1>2, <1>3, <1>4, <1>6, <1>9, Zenon DEF AllStaked
<1>11. Agrees(g, dir)
    <2>1. DOMAIN cfg.ports = DOMAIN DefaultPorts
        BY <1>5, <1>6, PortNames, Zenon
    <2>2. DOMAIN file = DOMAIN EmptyDir /\ Agrees(g, file)
        BY <1>4, <1>5, <1>9, Zenon DEF Holds, AllAgree
    <2>3. /\ dir.priv_validator_key = IF cfg.validatorKey = NoKey THEN file.priv_validator_key
                                      ELSE cfg.validatorKey
          /\ dir.genesis = file.genesis
        <3>1. dir = SaveNodeConfig(file, cfg) /\ DOMAIN file = DOMAIN EmptyDir
            BY <1>4, <2>2, Zenon
        <3> QED  BY <2>1, <3>1, SavedConfig
    <2> QED  BY <1>10, <2>2, <2>3, Zenon DEF Agrees
<1>12. AllAgree(g, disk'.nodes)
    <2>1. disk'.nodes = Replaced(disk.nodes, Home(env, i + 1), dir)
        BY <1>7, Zenon DEF Replaced
    <2> QED  BY <1>9, <1>11, <2>1, StillAgree, Zenon
<1>13. AllStaked(g, gen'.configs)
    <2>1. gen'.configs = Replaced(gen.configs, i + 1, cfg)
        BY <1>7, Zenon DEF Replaced
    <2>2. Len(gen'.configs) = n /\ \A m \in 1..n :
              gen'.configs[m] = IF m = i + 1 THEN cfg ELSE gen.configs[m]
        <3>1. Edited(gen'.configs, gen.configs, i + 1, cfg)
            BY <1>1, <2>1, EntryReplaced, Zenon
        <3> QED  BY <1>2, <3>1, Zenon DEF Edited
    <2> QED  BY <1>2, <1>9, <1>10, <2>2, Zenon DEF AllStaked
<1>14. KeysFunded(g, disk'.accounts)
    BY <1>7, <1>9, Zenon
<1>15. Stage(g, pc', i')
    <2>1. /\ ~(pc' \in {"validators", "instances"} \/ (pc' = "genesis" /\ i' = 0))
          /\ ~(pc \in {"validators", "instances"} \/ (pc = "genesis" /\ i = 0))
        BY <1>0, <1>8
    <2> QED  BY <1>9, <2>1, Zenon DEF Stage
<1> QED  BY <1>7, <1>8, <1>9, <1>12, <1>13, <1>14, <1>15, Zenon DEF DocumentInv

LEMMA ComposeDocument ==
    ASSUME GenTypeOK, ClusterInv, DocumentInv, WriteDockerCompose
    PROVE  DocumentInv'
<1>0. pc = "compose" /\ pc \in Live /\ pc' = "done"
    BY DEF WriteDockerCompose, Live, Running
<1>1. /\ disk'.nodes = disk.nodes /\ disk'.accounts = disk.accounts
      /\ gen' = gen /\ i' = i /\ nextKey' = nextKey
    BY DEF WriteDockerCompose, GenTypeOK, NoFiles
<1>2. Stage(gen.genesis, pc', i)
    <2>1. /\ ~(pc' \in {"validators", "instances"} \/ (pc' = "genesis" /\ i = 0))
          /\ ~(pc \in {"validators", "instances"} \/ (pc = "genesis" /\ i = 0))
        BY <1>0
    <2> QED  BY <2>1, Zenon DEF DocumentInv, Stage
<1> QED  BY <1>1, <1>2, Zenon DEF DocumentInv

\* A command that begins, with the files of an earlier one or without.
LEMMA GenesisStarts ==
    ASSUME GenesisConsistent, DOMAIN disk = DOMAIN NoFiles, NEW e \in Environments,
           GenerateConfigs(e) \/ RemoveAllFails(e)
    PROVE  GenesisInv'
<1>1. CASE GenerateConfigs(e) /\ ~Refused(e)
    <2>1. pc' \in Live
        BY <1>1 DEF GenerateConfigs, Live, Running
    <2> QED  BY <1>1, <2>1, DocumentStarts, Zenon DEF GenesisInv
<1>2. CASE GenerateConfigs(e) /\ Refused(e)
    <2>1. pc' \notin Live /\ disk' = disk
        BY <1>2 DEF GenerateConfigs, Live, Running
    <2>2. GenesisConsistent'
        BY <2>1, FewerConsistent, Zenon
    <2> QED  BY <2>1, <2>2, Zenon DEF GenesisInv
<1>3. CASE RemoveAllFails(e)
    <2>1. pc' \notin Live
        BY <1>3 DEF RemoveAllFails, Live, Running
    <2>2. PICK homes \in SUBSET DOMAIN disk.nodes, instances \in SUBSET DOMAIN disk.accounts :
              disk' = [disk EXCEPT !.nodes = [h \in homes |-> disk.nodes[h]],
                                   !.accounts = [k \in instances |-> disk.accounts[k]],
                                   !.compose = Missing]
        BY <1>3, Zenon DEF RemoveAllFails
    <2>3. /\ disk'.nodes = [h \in homes |-> disk.nodes[h]]
          /\ disk'.accounts = [k \in instances |-> disk.accounts[k]]
        BY <2>2 DEF NoFiles
    <2>4. /\ DOMAIN disk'.nodes \subseteq DOMAIN disk.nodes
          /\ \A h \in DOMAIN disk'.nodes : disk'.nodes[h] = disk.nodes[h]
          /\ DOMAIN disk'.accounts \subseteq DOMAIN disk.accounts
          /\ \A k \in DOMAIN disk'.accounts : disk'.accounts[k] = disk.accounts[k]
        BY <2>3, Zenon
    <2>5. GenesisConsistent'
        BY <2>4, FewerConsistent, Zenon
    <2> QED  BY <2>1, <2>5, Zenon DEF GenesisInv
<1> QED  BY <1>1, <1>2, <1>3, Zenon

\* Every step of generate keeps the invariant.
LEMMA GenesisInvStep ==
    ASSUME GenTypeOK, ClusterInv, GenesisInv, [GenNext]_genVars
    PROVE  GenesisInv'
<1>0. DOMAIN disk = DOMAIN NoFiles /\ GenesisConsistent
    BY DocumentConsistent, Zenon DEF GenTypeOK, GenesisInv
<1>1. CASE UNCHANGED genVars
    <2>1. pc' = pc /\ i' = i /\ gen' = gen /\ disk' = disk /\ nextKey' = nextKey
        BY <1>1 DEF genVars
    <2>2. pc' \in Live => DocumentInv'
        BY <2>1, Zenon DEF GenesisInv, DocumentInv
    <2>3. GenesisConsistent'
        BY <1>0, <2>1, FewerConsistent, Zenon
    <2> QED  BY <2>2, <2>3, Zenon DEF GenesisInv
<1>2. ASSUME NEW e \in Environments, GenerateConfigs(e) \/ RemoveAllFails(e)
      PROVE  GenesisInv'
    BY <1>0, <1>2, GenesisStarts, Zenon
<1>3. CASE GeneratorPanics
    <2>1. pc' \notin Live /\ disk' = disk
        BY <1>3 DEF GeneratorPanics, Live, Running
    <2>2. GenesisConsistent'
        BY <1>0, <2>1, FewerConsistent, Zenon
    <2> QED  BY <2>1, <2>2, Zenon DEF GenesisInv
<1>4. CASE GenerateValidator \/ GenerateInstance \/ SaveValidatorGenesis \/ GenerateSentry
           \/ SaveValidatorPeers \/ WriteDockerCompose
    <2>1. pc \in Live
        BY <1>4 DEF GenerateValidator, GenerateInstance, SaveValidatorGenesis, GenerateSentry,
                    SaveValidatorPeers, WriteDockerCompose, Live, Running
    <2>2. pc' \in Live
        BY <1>4 DEF GenerateValidator, GenerateInstance, SaveValidatorGenesis, GenerateSentry,
                    SaveValidatorPeers, WriteDockerCompose, Iterate, Live, Running
    <2>3. DocumentInv
        BY <2>1, Zenon DEF GenesisInv
    <2>4. DocumentInv'
        BY <1>4, <2>3, ValidatorDocument, InstanceDocument, GenesisDocument,
           SentryDocument, PeersDocument, ComposeDocument, Zenon
    <2> QED  BY <2>2, <2>4, Zenon DEF GenesisInv
<1> QED  BY <1>1, <1>2, <1>3, <1>4, Zenon DEF GenNext

\* The documents of all nodes are one, in order, and fund and stake what the files
\* beside them need, at every step of every generate, for any cluster
\* (generator.go:75-224, genesis.go:141-250).
THEOREM GenesisInvariant == GenSpec => []GenesisInv
<1>1. GenInit => GenesisInv
    <2> SUFFICES ASSUME GenInit PROVE GenesisInv
        OBVIOUS
    <2>1. pc \notin Live
        BY DEF GenInit, Live, Running
    <2>2. disk.nodes = << >>
        BY DEF GenInit, NoFiles
    <2>3. Docs = {}
        BY <2>2 DEF Docs, Written
    <2> QED  BY <2>1, <2>3, Zenon DEF GenesisInv, GenesisConsistent
<1>2. GenTypeOK /\ ClusterInv /\ GenesisInv /\ [GenNext]_genVars => GenesisInv'
    BY GenesisInvStep, Zenon
<1> QED  BY <1>1, <1>2, GenTypeCorrect, ClusterInvariant, PTL DEF GenSpec

\* GenesisConsistent for any cluster: nodes that have a genesis have the same one; its
\* supply is the sum of its balances and its accounts are numbered without repetition;
\* every key of a key file has a balance, and every validator a stake that its staker
\* can pay (genesis.go:141-250; the loops of GenerateConfigs).
THEOREM GenesisFilesConsistent == GenSpec => []GenesisConsistent
<1>1. GenesisInv => GenesisConsistent
    BY DocumentConsistent, Zenon DEF GenesisInv
<1> QED  BY <1>1, GenesisInvariant, PTL
=============================================================================
