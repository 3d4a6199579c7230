---------------------------- MODULE KeyedGateway -----------------------------
(***************************************************************************)
(* The gateway with the keys it computes: what its clients sent decides    *)
(* which requests are batched.                                             *)
(***************************************************************************)
EXTENDS Gateway, BatchKey

CONSTANT Message  \* Message[r]: what the client of r sent

\* The requests of Gateway are those that match an operation; the others are
\* answered with 404 or 405 before they touch its state.  Of a key only matters
\* which others it equals.
ASSUME KeyedGatewayAssumption ==
    /\ \A r \in Requests : RouteMatch(Message[r]) = "Matched"
    /\ \A r, s \in Requests : KeyOf[r] = KeyOf[s] <=> KeyFor(Message[r]) = KeyFor(Message[s])

\* The values of a request that must not be mixed, read off what was sent:
\* for a header that was sent once, what the client meant by it.
SentOnce(req, name) == Len(Named(req.headers, name)) = 1 /\ FirstValue(Named(req.headers, name)) # Unreadable

Alike(m1, m2) ==
    /\ OperationOf(m1) = OperationOf(m2)
    /\ \A i \in DOMAIN Dimensions(OperationOf(m1)) :
         LET dim == Dimensions(OperationOf(m1))[i] IN
         IF dim[1] = "header"
         THEN SentOnce(m1, dim[2]) /\ SentOnce(m2, dim[2])
                => FirstValue(Named(m1.headers, dim[2])) = FirstValue(Named(m2.headers, dim[2]))
         ELSE LastValue(Named(m1.query, dim[2])) = LastValue(Named(m2.query, dim[2]))

AllAlike == [r \in Requests |-> [s \in Requests |-> Alike(Message[r], Message[s])]]

\* The requests of one task or invocation are for one operation and agree on
\* every header and query parameter that the operation names as a key, as the
\* clients sent them: a filtered header does not collapse isolation keys, and
\* no eviction or replacement of a task mixes them.
InvocationsHomogeneous ==
    \A r, s \in Requests : ~ AllAlike[r][s] =>
        /\ \A t \in Tasks : ~ {r, s} \subseteq InTask(t)
        /\ \A j \in ToSet(jobs) \cup {held} \cup running : ~ {r, s} \subseteq j
=============================================================================
