------------------------------ MODULE UserOps ------------------------------
(***************************************************************************)
(* User operations (EIP-4337) as src/eth/aa/ builds, packs, hashes and     *)
(* signs them for the light account of an owner. Byte strings are the      *)
(* tuples of what is concatenated or hashed into them: two are equal when  *)
(* their parts are.                                                        *)
(***************************************************************************)
EXTENDS Integers, Sequences

ZeroAddress == "0x"

\* The factory derives the address of an account from its owner and the salt.
LightAccountAddress(factory, owner, salt) == <<"account", factory, owner, salt>>

IsDeployed(node, address) == address \in node.code

\* What NewLightAccount needs of the node: the chain ID it was told, and the
\* factory's answer. IsDeployed is asked once and kept.
NewLightAccount(node, chainID, entrypoint, factory, owner, salt) ==
    LET address == LightAccountAddress(factory, owner, salt)
    IN  IF node.chainID # chainID THEN [ok |-> FALSE]
        ELSE [ok         |-> TRUE,
              entrypoint |-> entrypoint,
              factory    |-> factory,
              address    |-> address,
              owner      |-> owner,
              salt       |-> salt,
              isDeployed |-> IsDeployed(node, address)]

NewEntrypoint(node, chainID, address, beneficiary) ==
    IF node.chainID # chainID THEN [ok |-> FALSE]
    ELSE [ok |-> TRUE, address |-> address, beneficiary |-> beneficiary]

\* The nonce is the account's, the deposit its owner's.
Nonce(node, la)   == node.opNonce[la.address]
Balance(node, la) == node.deposit[la.owner]
DepositToEntrypointCallData(la) == <<"depositTo", la.owner>>

createAccountCallData(la) == <<"createAccount", la.owner, la.salt>>
executeCallData(contract, callData) == <<"execute", contract, 0, callData>>
initCode(la) == <<la.factory, createAccountCallData(la)>>

\* Only the first operation of an account that had no code when it was looked
\* at brings the code with it.
newUserOperation(la, contract, callData, nonce, gas) ==
    [Sender    |-> la.address,
     Nonce     |-> nonce,
     InitCode  |-> IF ~la.isDeployed /\ nonce = 0 THEN initCode(la) ELSE << >>,
     CallData  |-> executeCallData(contract, callData),
     Gas       |-> gas,
     Paymaster |-> [address |-> ZeroAddress, verification |-> 300000, postOp |-> 0,
                    data |-> << >>],
     Signature |-> << >>]

NewUserOperationWithNonce(la, contract, callData, nonce, gas) ==
    newUserOperation(la, contract, callData, nonce, gas)

\* Two numbers of 128 bits side by side: no int64 is too long.
packAccountGasLimits(gas) == <<gas.verification, gas.call>>
packGasFees(gas)          == <<gas.maxPriorityFee, gas.maxFee>>
packPaymasterData(pm)     == <<pm.address, pm.verification, pm.postOp, pm.data>>

Pack(op) ==
    [Sender             |-> op.Sender,
     Nonce              |-> op.Nonce,
     InitCode           |-> op.InitCode,
     CallData           |-> op.CallData,
     AccountGasLimits   |-> packAccountGasLimits(op.Gas),
     PreVerificationGas |-> op.Gas.preVerification,
     GasFees            |-> packGasFees(op.Gas),
     PaymasterAndData   |-> IF op.Paymaster.address = ZeroAddress THEN << >>
                            ELSE packPaymasterData(op.Paymaster),
     Signature          |-> op.Signature]

\* Everything but the signature.
EncodeForSignature(packed) == [packed EXCEPT !.Signature = << >>]

GetUserOpHash(packed, entrypoint, chainID) ==
    <<EncodeForSignature(packed), entrypoint, chainID>>

LightAccountSignatureTypeEoa == 0
ecSigToRPC(sig) == [sig EXCEPT !.v = @ + 27]

\* personalSignFn signs with the key of the account, whatever the address.
SignUserOperation(op, entrypoint, chainID, key) ==
    LET packed == Pack(op)
        sig    == [by |-> key, of |-> GetUserOpHash(packed, entrypoint, chainID), v |-> 0]
    IN  [packed EXCEPT !.Signature = <<LightAccountSignatureTypeEoa, ecSigToRPC(sig)>>]

HandleOpsCallData(ops, beneficiary) == <<"handleOps", ops, beneficiary>>
-----------------------------------------------------------------------------
(***************************************************************************)
(* The contracts: what validates an operation and what it leaves behind.   *)
(***************************************************************************)
\* The entry point at `address` accepts an operation.
Accepts(node, address, op) ==
    LET create == <<"createAccount", op.Signature[2].by, op.Sender[4]>>
    IN  /\ op.Sender \in node.code <=> op.InitCode = << >>
        /\ op.InitCode # << >> =>
              /\ op.InitCode[2] = create
              /\ op.Sender = LightAccountAddress(op.InitCode[1], create[2], create[3])
        /\ op.Nonce = node.opNonce[op.Sender]
        /\ op.Signature[1] = LightAccountSignatureTypeEoa
        /\ op.Signature[2].by = op.Sender[3]
        /\ op.Signature[2].v \in {27, 28}
        /\ op.Signature[2].of = GetUserOpHash(op, address, node.chainID)

HandleOp(node, op) ==
    [node EXCEPT !.code = @ \union {op.Sender}, !.opNonce[op.Sender] = @ + 1]
=============================================================================
