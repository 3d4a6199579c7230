------------------------------ MODULE BatchKey -------------------------------
(***************************************************************************)
(* From an HTTP request to the key of its batch: the compiled              *)
(* specification (spec.rs), the headers that enter the key and those that  *)
(* are forwarded (server.rs), and the key (batching/mod.rs).               *)
(*                                                                         *)
(* A path and a route template are sequences of segments.  A request is a  *)
(* record: method, path, and the headers and query parameters as sequences *)
(* of <<name, value>>, in the order they were sent.                        *)
(***************************************************************************)
EXTENDS Naturals, Sequences

CONSTANTS
    Operations,  \* the operations of the specification
    Params,      \* the segments of templates that are parameters
    Unreadable,  \* a header value that is not visible ASCII
    Absent,      \* no value
    HopByHop,    \* headers that are never forwarded
    Allow,       \* the headers to forward; {} is no such list
    Deny         \* the headers not to forward

\* A key entry that names what is always in the key.
Implied == {<<"method">>, <<"route">>, <<"lambda">>}

\* parse_batch_key_dimensions
Dimensions(op) == SelectSeq(op.key, LAMBDA entry : entry \notin Implied)

NoDuplicates(s) == \A i, j \in DOMAIN s : s[i] = s[j] => i = j

\* add_op.  The wait policies are sets of none or one.
Accepted(op) ==
    /\ op.maxBatchSize > 0
    /\ NoDuplicates(Dimensions(op))
    /\ op.dynamicWait = {} \/ op.durationWait = {}
    /\ \A d \in op.dynamicWait :
         /\ d.minWaitMs <= op.maxWaitMs
         /\ d.samplingIntervalMs > 0
         /\ d.smoothingSamples > 0
         /\ d.targetRps >= 0
         /\ d.steepness > 0
    /\ \A d \in op.durationWait :
         /\ d.minWaitMs <= op.maxWaitMs
         /\ d.probeIntervalMs > 0
         /\ d.smoothingSamples > 0
         /\ d.warmupProbes > 0
         /\ d.fraction >= 0

\* Two templates that differ only in the names of parameters: the router
\* refuses the second.
Conflict(t, u) ==
    /\ t # u /\ Len(t) = Len(u)
    /\ \A i \in DOMAIN t : t[i] = u[i] \/ {t[i], u[i]} \subseteq Params

Templates == {op.route : op \in Operations}

\* The gateway starts only with a specification that compiles.
ASSUME BatchKeyAssumption ==
    /\ \A op \in Operations : Accepted(op)
    /\ \A op1, op2 \in Operations :
         op1.route = op2.route /\ op1.method = op2.method => op1 = op2
    /\ \A t, u \in Templates : ~ Conflict(t, u)

-----------------------------------------------------------------------------
(* match_request.                                                          *)

Matching(path) ==
    {t \in Templates : Len(t) = Len(path) /\ \A i \in DOMAIN t : t[i] = path[i] \/ t[i] \in Params}

\* Where t and u first part, t has the segment itself and u a parameter.
Preferred(t, u) ==
    \E i \in DOMAIN t :
        /\ t[i] \notin Params /\ u[i] \in Params
        /\ \A j \in 1..(i - 1) : t[j] \in Params <=> u[j] \in Params

Route(path) == CHOOSE t \in Matching(path) : \A u \in Matching(path) \ {t} : Preferred(t, u)

\* A template that matches decides: its methods are not looked for in another.
Served(req) == {op \in Operations : op.route = Route(req.path) /\ op.method = req.method}

RouteMatch(req) ==
    IF Matching(req.path) = {} THEN "NotFound"
    ELSE IF Served(req) = {} THEN "MethodNotAllowed" ELSE "Matched"

OperationOf(req) == CHOOSE op \in Served(req) : TRUE

-----------------------------------------------------------------------------
(* Headers and query.                                                      *)

Named(pairs, name) == SelectSeq(pairs, LAMBDA p : p[1] = name)

FirstValue(s) == IF s = <<>> THEN Absent ELSE s[1][2]

LastValue(s) == IF s = <<>> THEN Absent ELSE s[Len(s)][2]

ShouldForward(name) ==
    /\ name \notin HopByHop \cup Deny
    /\ Allow = {} \/ name \in Allow

\* What the function gets: a later value replaces an earlier one.
Forwarded(req, name) ==
    IF ShouldForward(name)
    THEN LastValue(SelectSeq(Named(req.headers, name), LAMBDA p : p[2] # Unreadable))
    ELSE Absent

\* Mutant: the key is made of the headers that are forwarded.
KeyHeaderForwarded(req, name) == Forwarded(req, name)

\* collect_batch_key_headers: the first value, whether or not it is forwarded.
KeyHeader(req, name) ==
    LET value == FirstValue(Named(req.headers, name)) IN
    IF value = Unreadable THEN Absent ELSE value

Query(req, name) == LastValue(Named(req.query, name))

KeyValue(req, dim) == IF dim[1] = "header" THEN KeyHeader(req, dim[2]) ELSE Query(req, dim[2])

\* BatchKey::from_operation_and_request
KeyFor(req) ==
    LET op == OperationOf(req) IN
    [lambda     |-> op.lambda,
     method     |-> op.method,
     route      |-> op.route,
     invokeMode |-> op.invokeMode,
     profiling  |-> op.profiling,
     keyValues  |-> [i \in DOMAIN Dimensions(op) |-> KeyValue(req, Dimensions(op)[i])]]
=============================================================================
