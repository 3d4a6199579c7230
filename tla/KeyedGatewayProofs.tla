-------------------------- MODULE KeyedGatewayProofs --------------------------
(***************************************************************************)
(* What the isolation of batch keys means for the requests: keys tell      *)
(* apart whatever the operations name, so invocations are homogeneous.     *)
(***************************************************************************)
EXTENDS KeyedGateway, GatewayKeysProofs

\* An operation that serves the request is what the key is made of.
LEMMA ServedOperation ==
    ASSUME NEW m, RouteMatch(m) = "Matched"
    PROVE  OperationOf(m) \in Operations
  <1>1. Served(m) # {}
    BY DEF RouteMatch
  <1>2. OperationOf(m) \in Served(m)
    BY <1>1, Zenon DEF OperationOf
  <1>3. QED
    BY <1>2, Zenon DEF Served

\* A header that was sent once enters the key as it was sent.
LEMMA SentOnceInKey ==
    ASSUME NEW m, NEW name, SentOnce(m, name)
    PROVE  KeyHeader(m, name) = FirstValue(Named(m.headers, name))
  BY Zenon DEF SentOnce, KeyHeader

\* Equal keys: the same operation, and the same values for its dimensions.
LEMMA KeysTellApart ==
    ASSUME NEW m1, NEW m2,
           RouteMatch(m1) = "Matched", RouteMatch(m2) = "Matched",
           KeyFor(m1) = KeyFor(m2)
    PROVE  Alike(m1, m2)
  <1> DEFINE op == OperationOf(m1)
  <1>1. /\ OperationOf(m1).route = OperationOf(m2).route
        /\ OperationOf(m1).method = OperationOf(m2).method
        /\ KeyFor(m1).keyValues = KeyFor(m2).keyValues
    BY DEF KeyFor
  <1>2. OperationOf(m1) = OperationOf(m2)
    BY <1>1, ServedOperation, BatchKeyAssumption, Zenon
  <1>3. ASSUME NEW i \in DOMAIN Dimensions(op)
        PROVE  KeyValue(m1, Dimensions(op)[i]) = KeyValue(m2, Dimensions(op)[i])
    <2>1. /\ KeyFor(m1).keyValues = [k \in DOMAIN Dimensions(op) |-> KeyValue(m1, Dimensions(op)[k])]
          /\ KeyFor(m2).keyValues = [k \in DOMAIN Dimensions(op) |-> KeyValue(m2, Dimensions(op)[k])]
      BY <1>2 DEF KeyFor
    <2>2. QED
      BY <2>1, <1>1, Zenon
  <1>4. ASSUME NEW i \in DOMAIN Dimensions(op), Dimensions(op)[i][1] = "header",
               SentOnce(m1, Dimensions(op)[i][2]), SentOnce(m2, Dimensions(op)[i][2])
        PROVE  FirstValue(Named(m1.headers, Dimensions(op)[i][2])) = FirstValue(Named(m2.headers, Dimensions(op)[i][2]))
    <2> DEFINE name == Dimensions(op)[i][2]
    <2>1. KeyHeader(m1, name) = KeyHeader(m2, name)
      BY <1>3, <1>4, Zenon DEF KeyValue
    <2>2. QED
      BY <2>1, <1>4, SentOnceInKey, Zenon
  <1>5. ASSUME NEW i \in DOMAIN Dimensions(op), Dimensions(op)[i][1] # "header"
        PROVE  LastValue(Named(m1.query, Dimensions(op)[i][2])) = LastValue(Named(m2.query, Dimensions(op)[i][2]))
    BY <1>3, <1>5, Zenon DEF KeyValue, Query
  <1>6. QED
    BY <1>2, <1>4, <1>5, Zenon DEF Alike

\* Requests of one task or invocation are for one operation and agree on
\* every header and query parameter that it names as a key, whatever the
\* header policy filters and however tasks are evicted and replaced.
THEOREM RequestsAreHomogeneous == Spec => []InvocationsHomogeneous
  <1>1. ASSUME NEW r \in Requests, NEW s \in Requests, KeyOf[r] = KeyOf[s]
        PROVE  AllAlike[r][s]
    <2>1. Alike(Message[r], Message[s])
      BY <1>1, KeyedGatewayAssumption, KeysTellApart, Zenon
    <2>2. AllAlike[r][s] = Alike(Message[r], Message[s])
      BY Zenon DEF AllAlike
    <2>3. QED
      BY <2>1, <2>2, Zenon
  <1>2. BatchIsolation => InvocationsHomogeneous
    <2> SUFFICES ASSUME BatchIsolation, NEW r \in Requests, NEW s \in Requests, ~ AllAlike[r][s]
                 PROVE  /\ \A t \in Tasks : ~ {r, s} \subseteq InTask(t)
                        /\ \A j \in ToSet(jobs) \cup {held} \cup running : ~ {r, s} \subseteq j
      BY Zenon DEF InvocationsHomogeneous
    <2>1. KeyOf[r] # KeyOf[s]
      BY <1>1, Zenon
    <2>2. ASSUME NEW t \in Tasks PROVE ~ {r, s} \subseteq InTask(t)
      BY <2>1, <2>2, Zenon DEF BatchIsolation
    <2>3. ASSUME NEW j \in ToSet(jobs) \cup {held} \cup running PROVE ~ {r, s} \subseteq j
      BY <2>1, <2>3, Zenon DEF BatchIsolation
    <2>4. QED
      BY <2>2, <2>3, Zenon
  <1>3. QED
    BY <1>2, BatchesAreIsolated, PTL
=============================================================================
