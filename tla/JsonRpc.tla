------------------------------ MODULE JsonRpc ------------------------------
(***************************************************************************)
(* The JSON-RPC client (src/eth/jsonrpc/jsonrpc.go) under callers that use *)
(* it at once, against a server that answers a batch in any order and in   *)
(* part, with or without an HTTP error, or not at all.                     *)
(*                                                                         *)
(* A batch is made of request objects (RPCRequest), which callers may use  *)
(* again and which CallBatch writes to. A method stands for what a request *)
(* asks for; a result is the method it is of, and its JSON type.           *)
(***************************************************************************)
EXTENDS Integers, Sequences, FiniteSetsExt, Functions

CONSTANTS
    Callers,
    Objects,    \* request objects, each with its own method
    Args,       \* lists of arguments: [kind, nil]
    Opts,       \* RPCClientOpts: allowUnknownFields, defaultRequestID
    Statuses,   \* of HTTP
    Types,      \* JSON types of results
    MaxCalls,   \* bound: calls
    MaxBatch    \* bound: requests in a batch

ASSUME JsonRpcAssumption ==
    /\ Statuses \subseteq Nat
    /\ {MaxCalls, MaxBatch} \subseteq Nat \ {0}

VARIABLES
    client,
    ID,         \* of each request object
    pc,         \* idle, prepared or sent
    call,       \* what each caller calls
    body,       \* its requests, as they were marshalled
    calls,      \* how many calls have begun
    shared,     \* its objects were written to by another call (history)
    last        \* the call that has just returned: what it was, what it sent and
                \* returned, the HTTP status (0 for none) and which requests the
                \* server carried out (history)

rpcVars == <<client, ID, pc, call, body, calls, shared, last>>

-----------------------------------------------------------------------------
Structured == {"struct", "array", "slice", "interface", "map"}

\* One structured argument is passed as it is, and pointers are followed by
\* type (only so can a kind be an interface), so that a nil one to a struct is
\* null; all else is an array.
Params(args) ==
    CASE args = << >> -> "omitted"
      [] Len(args) = 1 /\ args[1].kind \in Structured ->
            IF args[1].nil THEN "null" ELSE "structured"
      [] OTHER -> "structured"

NewRequestWithID(id, method, args) == [id |-> id, method |-> method, params |-> Params(args)]

NewClientWithOpts(opts) ==
    [allowUnknownFields |-> opts.allowUnknownFields, defaultRequestID |-> opts.defaultRequestID]

\* Where the responses with the id are.
WithID(responses, id) == {k \in DOMAIN responses : responses[k].id = id}

\* By the first of them.
GetByID(responses, id) ==
    LET hits == WithID(responses, id)
    IN  IF hits = {} THEN << >> ELSE <<responses[Min(hits)]>>

\* By the last one.
AsMap(responses) ==
    [id \in {responses[k].id : k \in DOMAIN responses} |-> responses[Max(WithID(responses, id))]]

HasError(responses) == \E k \in DOMAIN responses : responses[k].error

\* Marshalled and unmarshalled again into a variable of the type; null fits any.
GetObject(response, type) == response.type \in {type, "null"}

None            == [kind |-> "none", code |-> 0]
Error           == [kind |-> "error", code |-> 0]
RPCError        == [kind |-> "RPCError", code |-> 0]
HTTPError(code) == [kind |-> "HTTPError", code |-> code]

Returns(responses, err) == [responses |-> responses, err |-> err]

\* Fields that RPCResponse does not have are an error unless allowed.
Decodes(r) == r.form = "extra" => client.allowUnknownFields

\* Nothing usable came back; or something did, perhaps with an HTTP error.
Undecoded(r)  == Returns(<< >>, IF r.status >= 400 THEN HTTPError(r.status) ELSE Error)
Delivered(r)  == Returns(r.answers, IF r.status >= 400 THEN HTTPError(r.status) ELSE None)

doCall(r) ==
    IF r.form \in {"garbage", "null", "array"} \/ ~Decodes(r) THEN Undecoded(r) ELSE Delivered(r)

doBatchCall(r) ==
    IF r.form \in {"garbage", "null", "object"} \/ ~Decodes(r) \/ r.answers = << >>
    THEN Undecoded(r) ELSE Delivered(r)
-----------------------------------------------------------------------------
NoCall  == [op |-> "none", objects |-> << >>, type |-> "none"]
Nothing == [call |-> NoCall, body |-> << >>, shared |-> FALSE, status |-> 0, done |-> {},
            returned |-> Returns(<< >>, None)]

RpcInit ==
    /\ \E opts \in Opts : client = NewClientWithOpts(opts)
    /\ ID = [o \in Objects |-> 0]
    /\ pc = [c \in Callers |-> "idle"]
    /\ call = [c \in Callers |-> NoCall]
    /\ body = [c \in Callers |-> << >>]
    /\ calls = 0
    /\ shared = [c \in Callers |-> FALSE]
    /\ last = Nothing

\* A caller makes a call; a call returns.
Begins(c, op, objects, type) ==
    /\ pc[c] = "idle" /\ calls < MaxCalls
    /\ calls' = calls + 1
    /\ pc' = [pc EXCEPT ![c] = "prepared"]
    /\ call' = [call EXCEPT ![c] = [op |-> op, objects |-> objects, type |-> type]]
    /\ last' = Nothing
    /\ UNCHANGED client

Ends(c, status, done, result) ==
    /\ pc' = [pc EXCEPT ![c] = "idle"]
    /\ call' = [call EXCEPT ![c] = NoCall]
    /\ body' = [body EXCEPT ![c] = << >>]
    /\ shared' = [shared EXCEPT ![c] = FALSE]
    /\ last' = [call |-> call[c], body |-> body[c], shared |-> shared[c], status |-> status,
                done |-> done, returned |-> result]

Call(c) ==
    /\ Begins(c, "Call", << >>, "none")
    /\ \E args \in Args :
          body' = [body EXCEPT ![c] = <<NewRequestWithID(client.defaultRequestID, c, args)>>]
    /\ UNCHANGED <<ID, shared>>

CallFor(c) ==
    /\ \E type \in Types : Begins(c, "CallFor", << >>, type)
    /\ \E args \in Args :
          body' = [body EXCEPT ![c] = <<NewRequestWithID(client.defaultRequestID, c, args)>>]
    /\ UNCHANGED <<ID, shared>>

CallRaw(c) ==
    /\ \E o \in Objects : Begins(c, "CallRaw", <<o>>, "none")
    /\ UNCHANGED <<ID, body, shared>>

EmptyList(c) ==
    /\ pc[c] = "idle" /\ calls < MaxCalls
    /\ calls' = calls + 1
    /\ Ends(c, 0, {}, Returns(<< >>, Error))
    /\ UNCHANGED <<client, ID>>

CallBatchRaw(c, objects) ==
    /\ objects # << >>
    /\ Begins(c, "CallBatchRaw", objects, "none")
    /\ UNCHANGED <<ID, body, shared>>

\* Faulty: ids are left as they are.
IdsKept(c, objects) ==
    /\ objects # << >>
    /\ Begins(c, "CallBatch", objects, "none")
    /\ UNCHANGED <<ID, body, shared>>

\* The ids of the objects become their positions: the last one, if an object
\* occurs twice. A call that has yet to marshal one of them gets it as well.
CallBatch(c, objects) ==
    /\ objects # << >>
    /\ Begins(c, "CallBatch", objects, "none")
    /\ ID' = [o \in Objects |-> IF o \in Range(objects)
                               THEN Max({k \in DOMAIN objects : objects[k] = o}) - 1 ELSE ID[o]]
    /\ shared' = [d \in Callers |->
                    \/ shared[d]
                    \/ /\ pc[d] = "prepared"
                       /\ Range(call[d].objects) \intersect Range(objects) # {}]
    /\ UNCHANGED body

\* The requests are marshalled as they are now.
newRequest(c) ==
    /\ pc[c] = "prepared"
    /\ pc' = [pc EXCEPT ![c] = "sent"]
    /\ body' = [body EXCEPT ![c] =
                  IF call[c].objects = << >> THEN @
                  ELSE [k \in DOMAIN call[c].objects |->
                           [id |-> ID[call[c].objects[k]], method |-> call[c].objects[k],
                            params |-> "structured"]]]
    /\ last' = Nothing
    /\ UNCHANGED <<client, ID, call, calls, shared>>

\* Marshalling or the connection failed, the context ended, the answer broke
\* off. What the server did by then nobody is told.
CallFails(c) ==
    /\ pc[c] \in {"prepared", "sent"}
    /\ Ends(c, 0, {}, Returns(<< >>, Error))
    /\ UNCHANGED <<client, ID, calls>>

Batch(made) == made.op \in {"CallBatch", "CallBatchRaw"}

\* The server carries out some of the requests and answers some, in its order.
Answer(c, done, k, type) ==
    [id |-> body[c][k].id, method |-> body[c][k].method, error |-> k \notin done, type |-> type]

Replies(c, done) ==
    [status : Statuses, form : {"garbage", "null"}, answers : {<< >>}]
    \union
    [status : Statuses, form : {"extra", IF Batch(call[c]) THEN "array" ELSE "object"},
     answers : IF Batch(call[c])
               THEN {[k \in DOMAIN order |-> Answer(c, done, order[k], "null")] :
                        order \in UNION {Injection(1..n, DOMAIN body[c]) : n \in 0..Len(body[c])}}
               ELSE {<<Answer(c, done, 1, type)>> : type \in Types \union {"null"}}]

\* Faulty: an error of the server is no error.
ErrorIgnored(c, answer) ==
    LET r == doCall(answer)
    IN  IF r.err # None THEN Returns(<< >>, r.err)
        ELSE IF ~GetObject(r.responses[1], call[c].type) THEN Returns(<< >>, Error)
        ELSE r

\* The end of CallFor: the object, or the error there was.
ForReturns(c, answer) ==
    LET r == doCall(answer)
    IN  IF r.err # None THEN Returns(<< >>, r.err)
        ELSE IF r.responses[1].error THEN Returns(<< >>, RPCError)
        ELSE IF ~GetObject(r.responses[1], call[c].type) THEN Returns(<< >>, Error)
        ELSE r

\* The server answers, and the call returns.
CallReturns(c) ==
    /\ pc[c] = "sent"
    /\ \E done \in SUBSET {k \in DOMAIN body[c] : body[c][k].params # "null"} :
          \E r \in Replies(c, done) :
             Ends(c, r.status, done, CASE call[c].op = "CallFor" -> ForReturns(c, r)
                                       [] Batch(call[c])         -> doBatchCall(r)
                                       [] OTHER                  -> doCall(r))
    /\ UNCHANGED <<client, ID, calls>>

RpcFinished ==
    /\ calls = MaxCalls
    /\ \A c \in Callers : pc[c] = "idle"
    /\ UNCHANGED rpcVars

RpcNext ==
    \/ \E c \in Callers :
          \/ Call(c) \/ CallFor(c) \/ CallRaw(c) \/ EmptyList(c)
          \/ newRequest(c) \/ CallFails(c) \/ CallReturns(c)
          \/ \E n \in 1..MaxBatch : \E objects \in [1..n -> Objects] :
                CallBatchRaw(c, objects) \/ CallBatch(c, objects)
    \/ RpcFinished

RpcSpec == RpcInit /\ [][RpcNext]_rpcVars
-----------------------------------------------------------------------------
(***************************************************************************)
(* Properties.                                                             *)
(***************************************************************************)
\* The ids of a batch: positions, or what the caller gave (jsonrpc.go:81-115).
Ids == [k \in DOMAIN last.call.objects |->
           IF last.call.op = "CallBatch" THEN k - 1 ELSE last.body[k].id]

\* Whatever order a batch is answered in and whatever is missing, looking up the
\* id of a request finds its own answer or none, by GetByID and AsMap alike
\* (jsonrpc.go:284-302, 403-406): also for objects that were part of an earlier
\* batch, and while other calls go on, unless one of those writes to them before
\* they are marshalled. An object may not be in a batch twice.
AnswersMatch ==
    LET responses == last.returned.responses
    IN  (/\ last.status > 0 /\ Batch(last.call) /\ ~last.shared
         /\ IsInjective(last.call.objects) /\ IsInjective(Ids)) =>
            \A k \in DOMAIN Ids :
                LET hit == GetByID(responses, Ids[k])
                IN  IF hit # << >>
                    THEN /\ hit[1].method = last.call.objects[k]
                         /\ AsMap(responses)[Ids[k]] = hit[1]
                    ELSE Ids[k] \notin DOMAIN AsMap(responses)

\* What a call reports as done the server has done (jsonrpc.go:67-69): without an
\* error, and without one in a response, every request that is answered was
\* carried out; and an HTTPError is one that the server sent.
NoFalseSuccess ==
    LET r == last.returned
    IN  last.status > 0 =>
            /\ (r.err = None /\ (~HasError(r.responses) \/ last.call.op = "CallFor")) =>
                  \A k \in DOMAIN r.responses :
                      \E j \in last.done : last.body[j].method = r.responses[k].method
            /\ r.err = None => r.responses # << >>
            /\ r.err.kind = "HTTPError" => r.err.code = last.status
=============================================================================
