---------------------------- MODULE MCKeyedGateway ----------------------------
(* An instance of KeyedGateway for TLC. *)
EXTENDS KeyedGateway

CONSTANTS r1, r2, r3, k1, k2

search(method, route) ==
    [route |-> route, method |-> method, lambda |-> "search", invokeMode |-> "buffered",
     profiling |-> FALSE, maxBatchSize |-> 2, maxWaitMs |-> 20,
     key |-> <<<<"method">>, <<"header", "tenant">>, <<"query", "lang">>>>,
     dynamicWait |-> {}, durationWait |-> {}]

\* GET /items/{id}, GET /items/new and POST /items/new.
ThreeOperations ==
    {search("GET", <<"items", "{id}">>), search("GET", <<"items", "new">>),
     search("POST", <<"items", "new">>)}

get(headers, query) ==
    [method |-> "GET", path |-> <<"items", "new">>, headers |-> headers, query |-> query]

\* Two tenants of one operation.  r2 repeats a parameter: its last value counts.
Messages ==
    [r \in Requests |->
        CASE r = r1 -> get(<<<<"tenant", "a">>>>, <<<<"lang", "en">>>>)
          [] r = r2 -> get(<<<<"tenant", "a">>>>, <<<<"lang", "de">>, <<"lang", "en">>>>)
          [] r = r3 -> get(<<<<"tenant", "b">>>>, <<<<"lang", "en">>>>)]

\* The keys by name: k2 is that of r3.
NamedKeys ==
    [r \in Requests |-> IF KeyFor(Messages[r]) = KeyFor(Messages[r3]) THEN k2 ELSE k1]

\* r3 fits a payload, r1 and r2 do not.
Weights == [r \in Requests |-> IF r = r3 THEN 1 ELSE 3]

\* Tasks are interchangeable, and so are r1 and r2 (same key, same weight).
Symmetry == {p @@ q : p \in Permutations(Tasks), q \in Permutations({r1, r2})}
=============================================================================
