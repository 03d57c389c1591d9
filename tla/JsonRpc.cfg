SPECIFICATION RpcSpec
CONSTANTS
    Callers = {c1, c2}
    Objects = {o1, o2}
    Args <- MCArgs
    Opts <- MCOpts
    Statuses = {200, 500}
    Types = {"number"}
    MaxCalls = 3
    MaxBatch = 2
INVARIANTS
    AnswersMatch
    NoFalseSuccess
SYMMETRY Interchangeable
