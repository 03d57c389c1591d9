----------------------------- MODULE MCJsonRpc -----------------------------
(***************************************************************************)
(* Two callers that share two request objects.                             *)
(***************************************************************************)
EXTENDS JsonRpc, TLC

MCArgs ==
    {<<[kind |-> "string", nil |-> FALSE]>>, <<[kind |-> "struct", nil |-> TRUE]>>}

\* Those of NewBundlerClient (src/eth/aa/bundler_client.go:60-64), and the defaults.
MCOpts == {[allowUnknownFields |-> allowed, defaultRequestID |-> 0] : allowed \in BOOLEAN}

Interchangeable == Permutations(Callers) \union Permutations(Objects)
=============================================================================
