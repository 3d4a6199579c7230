--------------------------- MODULE LayerProxyProofs ---------------------------
(***************************************************************************)
(* Safety of the layer proxy for every number of workers and every set of  *)
(* invocation ids, header values or not.                                   *)
(***************************************************************************)
EXTENDS LayerProxy, FiniteSetTheorems, TLAPS

USE LayerProxyAssumption DEF LayerProxyAssumption

-----------------------------------------------------------------------------
(* Sequences without repetition.                                           *)

\* Taking the first element takes it out of the set of the elements.
LEMMA TailOfDistinct ==
    ASSUME NEW S, NEW s \in Seq(S), s # <<>>, IsInjective(s)
    PROVE  /\ Head(s) \in ToSet(s)
           /\ Tail(s) \in Seq(S)
           /\ ToSet(Tail(s)) = ToSet(s) \ {Head(s)}
           /\ IsInjective(Tail(s))
  <1>1. /\ Len(s) \in Nat \ {0} /\ Head(s) = s[1] /\ DOMAIN s = 1..Len(s)
        /\ DOMAIN Tail(s) = 1..(Len(s) - 1)
        /\ \A i \in 1..(Len(s) - 1) : Tail(s)[i] = s[i + 1]
    OBVIOUS
  <1>2. ASSUME NEW x \in ToSet(s), x # Head(s) PROVE x \in ToSet(Tail(s))
    <2>1. PICK i \in 1..Len(s) : x = s[i]
      BY <1>1 DEF ToSet
    <2>2. i - 1 \in 1..(Len(s) - 1) /\ (i - 1) + 1 = i
      BY <1>1, <1>2, <2>1
    <2>3. QED
      BY <1>1, <2>1, <2>2 DEF ToSet
  <1>3. ASSUME NEW x \in ToSet(Tail(s)) PROVE x \in ToSet(s) /\ x # Head(s)
    <2>1. PICK i \in 1..(Len(s) - 1) : x = s[i + 1]
      BY <1>1 DEF ToSet
    <2>2. i + 1 \in 1..Len(s) /\ i + 1 # 1 /\ 1 \in 1..Len(s)
      BY <1>1, <2>1
    <2>3. QED
      BY <1>1, <2>1, <2>2 DEF ToSet, IsInjective
  <1>4. Head(s) \in ToSet(s)
    BY <1>1 DEF ToSet
  <1>5. IsInjective(Tail(s))
    BY <1>1 DEF IsInjective
  <1>6. QED
    BY <1>2, <1>3, <1>4, <1>5

\* Appending a new element adds it to the set of the elements.
LEMMA AppendToDistinct ==
    ASSUME NEW S, NEW s \in Seq(S), NEW x \in S
    PROVE  /\ Append(s, x) \in Seq(S)
           /\ ToSet(Append(s, x)) = ToSet(s) \cup {x}
           /\ IsInjective(s) /\ x \notin ToSet(s) => IsInjective(Append(s, x))
  <1>1. /\ Len(s) \in Nat /\ DOMAIN s = 1..Len(s)
        /\ DOMAIN Append(s, x) = 1..(Len(s) + 1)
        /\ \A i \in 1..Len(s) : Append(s, x)[i] = s[i]
        /\ Append(s, x)[Len(s) + 1] = x
    OBVIOUS
  <1>2. \A i : i \in 1..(Len(s) + 1) <=> i \in 1..Len(s) \/ i = Len(s) + 1
    BY <1>1
  <1>3. ToSet(Append(s, x)) = ToSet(s) \cup {x}
    BY <1>1, <1>2 DEF ToSet
  <1>4. ASSUME IsInjective(s), x \notin ToSet(s) PROVE IsInjective(Append(s, x))
    BY <1>1, <1>2, <1>4 DEF IsInjective, ToSet
  <1>5. QED
    BY <1>3, <1>4

\* A sequence without repetition is as long as its set is large.
LEMMA LengthOfDistinct ==
    ASSUME NEW S, NEW s \in Seq(S), IsInjective(s)
    PROVE  IsFiniteSet(ToSet(s)) /\ Cardinality(ToSet(s)) = Len(s)
  <1>1. /\ Len(s) \in Nat /\ DOMAIN s = 1..Len(s)
        /\ s = [i \in 1..Len(s) |-> s[i]]
    OBVIOUS
  <1>2. s \in Bijection(1..Len(s), ToSet(s))
    <2>1. s \in [1..Len(s) -> ToSet(s)]
      BY <1>1 DEF ToSet
    <2>2. s \in Injection(1..Len(s), ToSet(s))
      BY <1>1, <2>1, Zenon DEF Injection, IsInjective
    <2>3. \A x \in ToSet(s) : \E i \in 1..Len(s) : s[i] = x
      BY <1>1 DEF ToSet
    <2>4. s \in Surjection(1..Len(s), ToSet(s))
      BY <2>1, <2>3, Zenon DEF Surjection
    <2>5. QED
      BY <2>2, <2>4, Zenon DEF Bijection
  <1>3. ExistsBijection(1..Len(s), ToSet(s))
    BY <1>2 DEF ExistsBijection
  <1>4. IsFiniteSet(1..Len(s)) /\ Cardinality(1..Len(s)) = Len(s)
    BY <1>1, FS_Interval
  <1>5. QED
    BY <1>3, <1>4, FS_Bijection
-----------------------------------------------------------------------------
(* Workers and the invocation that is fetched.                             *)

\* The wake-up changes nothing but who is asleep.
LEMMA WokenWorkers ==
    ASSUME wpc \in [Workers -> WorkerStates]
    PROVE  /\ Woken(wpc) \in [Workers -> WorkerStates]
           /\ \A w \in Workers : Woken(wpc)[w] = wpc[w] \/ (wpc[w] = "asleep" /\ Woken(wpc)[w] = "take")
  BY DEF Woken, WorkerStates

LEMMA TypeInit == Init => TypeOK
  <1>1. /\ <<>> \in Seq(Ids) /\ 0 \in 0..MaxFetches
    OBVIOUS
  <1>2. QED
    BY <1>1, Zenon DEF Init, TypeOK, WorkerStates, Variants

\* The queue of a batch is a sequence of ids.
LEMMA FetchedQueue ==
    ASSUME NEW n \in 1..Cardinality(FreshIds), NEW q \in [1..n -> FreshIds]
    PROVE  q \in Seq(FreshIds) /\ q \in Seq(Ids) /\ q # <<>> /\ ToSet(q) \subseteq FreshIds
  <1>1. FreshIds \subseteq Ids /\ IsFiniteSet(FreshIds)
    BY FS_Subset DEF FreshIds
  <1>2. Cardinality(FreshIds) \in Nat
    BY <1>1, FS_CardinalityType
  <1>3. n \in Nat \ {0}
    BY <1>2
  <1>4. q \in Seq(FreshIds) /\ Len(q) = n /\ DOMAIN q = 1..n
    BY <1>3
  <1>5. q \in Seq(Ids)
    BY <1>1, <1>4
  <1>6. QED
    BY <1>3, <1>4, <1>5 DEF ToSet

LEMMA TypeStep == ASSUME TypeOK, [Next]_vars PROVE TypeOK'
  <1> USE DEF TypeOK
  <1>0. /\ Woken(wpc) \in [Workers -> WorkerStates]
        /\ \A w \in Workers : wpc[w] \in WorkerStates /\ holds[w] \in Ids \cup {NoId}
        /\ \A w \in Workers : \A p \in WorkerStates :
             /\ [wpc EXCEPT ![w] = p] \in [Workers -> WorkerStates]
             /\ [Woken(wpc) EXCEPT ![w] = p] \in [Workers -> WorkerStates]
        /\ fetched < MaxFetches => fetched + 1 \in 0..MaxFetches
    BY WokenWorkers
  <1>1. ASSUME NEW w \in Workers, NextCall(w) PROVE TypeOK'
    <2>1. CASE TakeItem(w)
      <3>1. Head(queue) \in Ids /\ Tail(queue) \in Seq(Ids)
        BY <2>1 DEF TakeItem
      <3>2. wpc' \in [Workers -> WorkerStates] /\ holds' \in [Workers -> Ids \cup {NoId}]
        BY <2>1, <3>1, <1>0 DEF TakeItem, WorkerStates
      <3>3. QED
        BY <2>1, <3>1, <3>2, Zenon DEF TakeItem
    <2>2. CASE TakeBadItem(w)
      <3>1. Head(queue) \in Ids /\ Tail(queue) \in Seq(Ids)
        BY <2>2 DEF TakeBadItem
      <3>2. QED
        BY <2>2, <3>1, Zenon DEF TakeBadItem
    <2>4. CASE TakeNothing(w) \/ Sleep(w)
      BY <2>4, <1>0, Zenon DEF TakeNothing, Sleep, WorkerStates
    <2>6. CASE TakePassThrough(w)
      <3>1. wpc' \in [Workers -> WorkerStates] /\ holds' \in [Workers -> Ids \cup {NoId}]
        BY <2>6, <1>0 DEF TakePassThrough, WorkerStates
      <3>2. QED
        BY <2>6, <3>1, Zenon DEF TakePassThrough
    <2>5. CASE Check(w)
      <3>1. \E p \in WorkerStates : wpc' = [wpc EXCEPT ![w] = p]
        BY <2>5 DEF Check, WorkerStates
      <3>2. fetching' \in BOOLEAN
        BY <2>5, Zenon DEF Check
      <3>3. QED
        BY <2>5, <3>1, <3>2, <1>0, Zenon DEF Check
    <2>3. CASE RejectMalformed(w) \/ NotifyFetched(w)
      BY <2>3, <1>0, Zenon DEF RejectMalformed, NotifyFetched, WorkerStates
    <2>7. QED
      BY <1>1, <2>1, <2>2, <2>3, <2>4, <2>5, <2>6, Zenon DEF NextCall
  <1>2. ASSUME NEW w \in Workers, Fetch(w) PROVE TypeOK'
    <2>1. CASE FetchBatch(w)
      <3>1. queue' \in Seq(Ids) /\ batch' \in SUBSET Ids
        BY <2>1, FetchedQueue DEF FetchBatch, FreshIds
      <3>2. <<>> \in Seq(Ids)
        OBVIOUS
      <3>3. QED
        BY <2>1, <3>1, <3>2, <1>0, Zenon DEF FetchBatch, WorkerStates, Variants
    <2>2. CASE FetchPassThrough(w)
      BY <2>2, <1>0, Zenon DEF FetchPassThrough, FreshIds, WorkerStates, Variants
    <2>3. CASE FetchMalformed(w) \/ FetchFails(w)
      BY <2>3, <1>0, Zenon DEF FetchMalformed, FetchFails, WorkerStates
    <2>4. QED
      BY <1>2, <2>1, <2>2, <2>3 DEF Fetch
  <1>3. ASSUME NEW w \in Workers, Completion(w) PROVE TypeOK'
    <2>1. CASE CompleteItem(w)
      <3>1. Append(records, holds[w]) \in Seq(Ids)
        BY <2>1 DEF CompleteItem
      <3>2. QED
        BY <2>1, <3>1, <1>0, Zenon DEF CompleteItem, WorkerStates, Variants
    <2>2. CASE CompleteUnknown(w) \/ ForwardPassThrough(w) \/ ForwardFails(w)
      BY <2>2, <1>0, Zenon DEF CompleteUnknown, ForwardPassThrough, ForwardFails, WorkerStates
    <2>3. CASE ForwardSucceeds(w)
      BY <2>3, <1>0, Zenon DEF ForwardSucceeds, WorkerStates, Variants
    <2>4. QED
      BY <1>3, <2>1, <2>2, <2>3 DEF Completion
  <1>4. CASE Finalize
    BY <1>4, <1>0, Zenon DEF Finalize, Variants
  <1>5. CASE UNCHANGED vars
    BY <1>5 DEF vars
  <1>6. QED
    BY <1>1, <1>2, <1>3, <1>4, <1>5 DEF Next

\* The worker that fetches, or posts the error of what it fetched, finds no
\* invocation active until it is done; the proxy has one to answer exactly
\* while one is active or refused.
AskerInv ==
    /\ \A w \in Workers : wpc[w] \in {"fetch", "reject"} => active = "None"
    /\ \A v, w \in Workers :
         wpc[v] \in {"fetch", "reject"} /\ wpc[w] \in {"fetch", "reject"} => v = w
    /\ FetchFlagSound
    /\ active # "None" => outer = "out"
    /\ active = "None" /\ (\A w \in Workers : wpc[w] # "reject") => outer # "out"

LEMMA AskerInit == Init => AskerInv
  BY Zenon DEF Init, AskerInv, FetchFlagSound

\* Calls that neither fetch nor complete move one worker, and the sleepers.
LEMMA AskerKept ==
    ASSUME TypeOK, AskerInv, NEW w \in Workers, wpc[w] \notin {"fetch", "reject"},
           NEW p \in WorkerStates \ {"fetch", "reject"},
           \/ wpc' = [wpc EXCEPT ![w] = p]
           \/ wpc' = [Woken(wpc) EXCEPT ![w] = p],
           UNCHANGED <<fetching, outer>>,
           active' = active \/ {active, active'} \subseteq {"KhoneBatch", "KhoneFinalizing"}
    PROVE  AskerInv'
  <1>1. \A v \in Workers : wpc'[v] = wpc[v] \/ {wpc[v], wpc'[v]} \cap {"fetch", "reject"} = {}
    <2>1. wpc \in [Workers -> WorkerStates] /\ Woken(wpc) \in [Workers -> WorkerStates]
      BY WokenWorkers DEF TypeOK
    <2>2. \A v \in Workers :
            \/ wpc'[v] = (IF v = w THEN p ELSE wpc[v])
            \/ wpc'[v] = (IF v = w THEN p ELSE Woken(wpc)[v])
      BY <2>1
    <2>3. \A v \in Workers : Woken(wpc)[v] = wpc[v] \/ (wpc[v] = "asleep" /\ Woken(wpc)[v] = "take")
      BY <2>1, WokenWorkers DEF TypeOK
    <2>4. QED
      BY <2>2, <2>3
  <1>2. \A v \in Workers : wpc'[v] \in {"fetch", "reject"} <=> wpc[v] \in {"fetch", "reject"}
    BY <1>1
  <1>3. (\A v \in Workers : wpc'[v] # "reject") <=> (\A v \in Workers : wpc[v] # "reject")
    BY <1>1
  <1>4. active' = "None" <=> active = "None"
    OBVIOUS
  <1>5. QED
    BY <1>2, <1>3, <1>4 DEF AskerInv, FetchFlagSound

\* The outer invocation is over: whoever asks goes on asking.
LEMMA AskerEnd ==
    ASSUME TypeOK, AskerInv, active' = "None", outer' # "out", fetching' = fetching,
           \/ wpc' = Woken(wpc)
           \/ \E w \in Workers : \E p \in WorkerStates \ {"fetch", "reject"} :
                /\ wpc[w] \notin {"fetch", "reject"}
                /\ wpc' = [Woken(wpc) EXCEPT ![w] = p]
    PROVE  AskerInv'
  <1>1. wpc \in [Workers -> WorkerStates] /\ Woken(wpc) \in [Workers -> WorkerStates]
    BY WokenWorkers DEF TypeOK
  <1>2. \A v \in Workers : Woken(wpc)[v] = wpc[v] \/ (wpc[v] = "asleep" /\ Woken(wpc)[v] = "take")
    BY <1>1, WokenWorkers DEF TypeOK
  <1>3. \A v \in Workers : wpc'[v] \in {"fetch", "reject"} <=> wpc[v] \in {"fetch", "reject"}
    BY <1>1, <1>2
  <1>4. QED
    BY <1>3 DEF AskerInv, FetchFlagSound

\* A fetch or a refusal is over: its worker was the only one.
LEMMA AskerDone ==
    ASSUME TypeOK, AskerInv, NEW w \in Workers, wpc[w] \in {"fetch", "reject"},
           NEW p \in WorkerStates \ {"fetch", "reject"},
           \/ wpc' = [wpc EXCEPT ![w] = p]
           \/ wpc' = [Woken(wpc) EXCEPT ![w] = p],
           fetching' = FALSE,
           IF active' = "None" THEN outer' # "out" ELSE outer' = "out"
    PROVE  AskerInv'
  <1>1. wpc \in [Workers -> WorkerStates] /\ Woken(wpc) \in [Workers -> WorkerStates]
    BY WokenWorkers DEF TypeOK
  <1>2. \A v \in Workers :
          \/ wpc'[v] = (IF v = w THEN p ELSE wpc[v])
          \/ wpc'[v] = (IF v = w THEN p ELSE Woken(wpc)[v])
    BY <1>1
  <1>3. \A v \in Workers : Woken(wpc)[v] = wpc[v] \/ (wpc[v] = "asleep" /\ Woken(wpc)[v] = "take")
    BY <1>1, WokenWorkers DEF TypeOK
  <1>4. \A v \in Workers : v # w => wpc[v] \notin {"fetch", "reject"}
    BY DEF AskerInv
  <1>5. \A v \in Workers : wpc'[v] \notin {"fetch", "reject"}
    BY <1>2, <1>3, <1>4
  <1>6. QED
    BY <1>5 DEF AskerInv, FetchFlagSound

LEMMA AskerStep == ASSUME TypeOK, AskerInv, [Next]_vars PROVE AskerInv'
  <1>0. wpc \in [Workers -> WorkerStates]
    BY DEF TypeOK
  <1>1. ASSUME NEW w \in Workers, NextCall(w) PROVE AskerInv'
    <2>1. CASE TakePassThrough(w) \/ TakeItem(w) \/ TakeNothing(w) \/ Sleep(w) \/ NotifyFetched(w)
      <3>1. \E p \in WorkerStates \ {"fetch", "reject"} :
              \/ wpc' = [wpc EXCEPT ![w] = p]
              \/ wpc' = [Woken(wpc) EXCEPT ![w] = p]
        BY <2>1 DEF TakePassThrough, TakeItem, TakeNothing, Sleep, NotifyFetched, WorkerStates
      <3>2. wpc[w] \notin {"fetch", "reject"} /\ UNCHANGED <<fetching, outer, active>>
        BY <2>1 DEF TakePassThrough, TakeItem, TakeNothing, Sleep, NotifyFetched
      <3>3. QED
        BY <3>1, <3>2, AskerKept
    <2>2. CASE TakeBadItem(w)
      BY <2>2 DEF TakeBadItem, AskerInv, FetchFlagSound
    <2>3. CASE Check(w)
      <3>1. CASE active = "None" /\ ~ fetching
        <4>1. /\ \A v \in Workers : wpc[v] \notin {"fetch", "reject"}
              /\ outer # "out"
          BY <3>1 DEF AskerInv, FetchFlagSound
        <4>2. /\ wpc' = [wpc EXCEPT ![w] = "fetch"]
              /\ fetching' = TRUE
              /\ UNCHANGED <<active, outer>>
          BY <2>3, <3>1 DEF Check
        <4>3. \A v \in Workers : wpc'[v] = IF v = w THEN "fetch" ELSE wpc[v]
          BY <4>2, <1>0
        <4>4. QED
          BY <3>1, <4>1, <4>2, <4>3 DEF AskerInv, FetchFlagSound
      <3>2. CASE ~ (active = "None" /\ ~ fetching)
        <4>1. wpc' = [wpc EXCEPT ![w] = "presleep"] /\ wpc[w] = "check"
          BY <2>3, <3>2 DEF Check
        <4>2. UNCHANGED <<fetching, outer, active>>
          <5>1. fetching' = (fetching \/ active = "None") /\ UNCHANGED <<outer, active>>
            BY <2>3 DEF Check
          <5>2. fetching \in BOOLEAN
            BY DEF TypeOK
          <5>3. QED
            BY <5>1, <5>2, <3>2
        <4>3. QED
          BY <4>1, <4>2, AskerKept DEF WorkerStates
      <3>3. QED
        BY <3>1, <3>2
    <2>4. CASE RejectMalformed(w)
      <3>1. active = "None" /\ active' = active
        BY <2>4 DEF RejectMalformed, AskerInv
      <3>2. QED
        BY <2>4, <3>1, AskerDone DEF RejectMalformed, WorkerStates
    <2>5. QED
      BY <1>1, <2>1, <2>2, <2>3, <2>4, Zenon DEF NextCall
  <1>2. ASSUME NEW w \in Workers, Fetch(w) PROVE AskerInv'
    <2>0. active = "None" /\ wpc[w] = "fetch"
      BY <1>2 DEF Fetch, FetchBatch, FetchPassThrough, FetchFails, FetchMalformed, AskerInv
    <2>1. CASE FetchBatch(w) \/ FetchPassThrough(w) \/ FetchFails(w)
      <3>1. \E p \in WorkerStates \ {"fetch", "reject"} :
              \/ wpc' = [wpc EXCEPT ![w] = p]
              \/ wpc' = [Woken(wpc) EXCEPT ![w] = p]
        BY <2>1 DEF FetchBatch, FetchPassThrough, FetchFails, WorkerStates
      <3>2. fetching' = FALSE /\ IF active' = "None" THEN outer' # "out" ELSE outer' = "out"
        <4>1. \A v \in Workers : wpc[v] # "reject"
          BY <2>0 DEF AskerInv
        <4>2. outer # "out"
          BY <2>0, <4>1 DEF AskerInv
        <4>3. QED
          BY <2>0, <2>1, <4>2 DEF FetchBatch, FetchPassThrough, FetchFails
      <3>3. QED
        BY <2>0, <3>1, <3>2, AskerDone
    <2>2. CASE FetchMalformed(w)
      <3>1. \A v \in Workers : wpc'[v] = IF v = w THEN "reject" ELSE wpc[v]
        BY <2>2, <1>0 DEF FetchMalformed
      <3>2. QED
        BY <2>0, <2>2, <3>1 DEF FetchMalformed, AskerInv, FetchFlagSound
    <2>3. QED
      BY <1>2, <2>1, <2>2, Zenon DEF Fetch
  <1>3. ASSUME NEW w \in Workers, Completion(w) PROVE AskerInv'
    <2>1. CASE CompleteItem(w)
      <3>1. \E p \in {"busy", "take"} : wpc' = [wpc EXCEPT ![w] = p]
        BY <2>1, <1>0 DEF CompleteItem
      <3>2. /\ wpc[w] = "busy" /\ UNCHANGED <<fetching, outer>>
            /\ {active, active'} \subseteq {"KhoneBatch", "KhoneFinalizing"}
        BY <2>1 DEF CompleteItem
      <3>3. QED
        BY <3>1, <3>2, AskerKept DEF WorkerStates
    <2>2. CASE CompleteUnknown(w) \/ ForwardPassThrough(w) \/ ForwardFails(w)
      <3>1. \E p \in WorkerStates \ {"fetch", "reject"} : wpc' = [wpc EXCEPT ![w] = p]
        BY <2>2 DEF CompleteUnknown, ForwardPassThrough, ForwardFails, WorkerStates
      <3>2. wpc[w] \notin {"fetch", "reject"} /\ UNCHANGED <<fetching, outer, active>>
        BY <2>2 DEF CompleteUnknown, ForwardPassThrough, ForwardFails
      <3>3. QED
        BY <3>1, <3>2, AskerKept
    <2>3. CASE ForwardSucceeds(w)
      <3>1. \E p \in {"busy", "take"} : wpc' = [Woken(wpc) EXCEPT ![w] = p]
        BY <2>3 DEF ForwardSucceeds
      <3>2. /\ wpc[w] = "forward" /\ active' = "None" /\ outer' # "out"
            /\ UNCHANGED fetching
        BY <2>3 DEF ForwardSucceeds
      <3>3. QED
        BY <3>1, <3>2, AskerEnd DEF WorkerStates
    <2>4. QED
      BY <1>3, <2>1, <2>2, <2>3, Zenon DEF Completion
  <1>4. CASE Finalize
    BY <1>4, AskerEnd DEF Finalize
  <1>5. CASE UNCHANGED vars
    BY <1>5, Zenon DEF vars, AskerInv, FetchFlagSound
  <1>6. QED
    BY <1>1, <1>2, <1>3, <1>4, <1>5, Zenon DEF Next

-----------------------------------------------------------------------------
(* The items of a batch.                                                   *)

\* An item is queued, in flight or answered, and is so once.
ItemsInv ==
    /\ active = "KhoneBatch" =>
         /\ batch = ToSet(queue) \cup inflight \cup ToSet(records)
         /\ ToSet(queue) \cap inflight = {}
         /\ ToSet(queue) \cap ToSet(records) = {}
         /\ inflight \cap ToSet(records) = {}
         /\ IsInjective(queue)
         /\ IsInjective(records)
    /\ active = "KhoneFinalizing" => batch = ToSet(records) /\ IsInjective(records)

\* What is not handed out yet, nobody runs.
HoldInv ==
    /\ OneWorkerPerInvocation
    /\ active = "KhoneBatch" => \A w \in Workers : holds[w] \notin ToSet(queue)
    /\ active = "PassThrough" /\ ~ delivered => \A w \in Workers : holds[w] # passing

ProxyInv == TypeOK /\ AskerInv /\ ItemsInv /\ HoldInv

LEMMA ItemsInit == Init => ItemsInv /\ HoldInv
  BY Zenon DEF Init, ItemsInv, HoldInv, OneWorkerPerInvocation

LEMMA QueuedIds == ASSUME TypeOK PROVE ToSet(queue) \subseteq Ids /\ ToSet(records) \subseteq Ids
  BY DEF TypeOK, ToSet

\* The first of the queue goes in flight.
LEMMA ItemsTaken ==
    ASSUME TypeOK, ItemsInv, active = "KhoneBatch", queue # <<>>,
           queue' = Tail(queue), inflight' = inflight \cup {Head(queue)},
           UNCHANGED <<active, batch, records>>
    PROVE  ItemsInv' /\ ToSet(queue') \subseteq ToSet(queue) /\ Head(queue) \in ToSet(queue)
                     /\ Head(queue) \notin ToSet(queue')
  <1>1. /\ Head(queue) \in ToSet(queue)
        /\ ToSet(Tail(queue)) = ToSet(queue) \ {Head(queue)}
        /\ IsInjective(Tail(queue))
    BY TailOfDistinct, Zenon DEF TypeOK, ItemsInv
  <1> DEFINE Q == ToSet(queue)
             h == Head(queue)
             R == ToSet(records)
  <1>2. /\ batch = Q \cup inflight \cup R
        /\ Q \cap inflight = {} /\ Q \cap R = {} /\ inflight \cap R = {}
        /\ IsInjective(records)
    BY DEF ItemsInv
  <1>3. h \in Q /\ ToSet(queue') = Q \ {h} /\ IsInjective(queue') /\ ToSet(records') = R
    BY <1>1
  <1> HIDE DEF Q, h, R
  <1>4. /\ batch = (Q \ {h}) \cup (inflight \cup {h}) \cup R
        /\ (Q \ {h}) \cap (inflight \cup {h}) = {} /\ (Q \ {h}) \cap R = {}
        /\ (inflight \cup {h}) \cap R = {}
    BY <1>2, <1>3
  <1>5. QED
    BY <1>2, <1>3, <1>4, Zenon DEF ItemsInv, Q, h, R

\* An item in flight is answered.
LEMMA ItemsCompleted ==
    ASSUME TypeOK, ItemsInv, NEW i \in inflight, active = "KhoneBatch",
           inflight' = inflight \ {i}, records' = Append(records, i),
           active' = (IF queue = <<>> /\ inflight' = {} THEN "KhoneFinalizing" ELSE active),
           UNCHANGED <<queue, batch>>
    PROVE  ItemsInv'
  <1> DEFINE Q == ToSet(queue)
             R == ToSet(records)
  <1>1. /\ batch = Q \cup inflight \cup R
        /\ Q \cap inflight = {} /\ Q \cap R = {} /\ inflight \cap R = {}
        /\ IsInjective(queue) /\ IsInjective(records)
    BY DEF ItemsInv
  <1>2. ToSet(records') = R \cup {i} /\ IsInjective(records')
    <2>1. i \in Ids /\ records \in Seq(Ids)
      BY DEF TypeOK
    <2>2. i \notin R
      BY <1>1
    <2>3. /\ ToSet(Append(records, i)) = ToSet(records) \cup {i}
          /\ IsInjective(records) /\ i \notin ToSet(records) => IsInjective(Append(records, i))
      BY <2>1, AppendToDistinct
    <2>4. QED
      BY <1>1, <2>2, <2>3
  <1>3. queue = <<>> => Q = {}
    BY DEF ToSet
  <1>4. ToSet(queue') = Q /\ IsInjective(queue')
    BY <1>1, Zenon
  <1> HIDE DEF Q, R
  <1>5. /\ batch = Q \cup (inflight \ {i}) \cup (R \cup {i})
        /\ Q \cap (inflight \ {i}) = {} /\ Q \cap (R \cup {i}) = {}
        /\ (inflight \ {i}) \cap (R \cup {i}) = {}
    BY <1>1
  <1>6. queue = <<>> /\ inflight' = {} => batch = R \cup {i}
    BY <1>1, <1>3
  <1>7. QED
    BY <1>2, <1>4, <1>5, <1>6 DEF ItemsInv

LEMMA ItemsStep == ASSUME TypeOK, ItemsInv, [Next]_vars PROVE ItemsInv'
  <1>1. ASSUME UNCHANGED <<active, queue, inflight, batch, records>>
        PROVE  ItemsInv'
    BY <1>1, Zenon DEF ItemsInv
  <1>2. ASSUME active' \in {"None", "PassThrough"} PROVE ItemsInv'
    BY <1>2 DEF ItemsInv
  <1>3. ASSUME NEW w \in Workers, NextCall(w) PROVE ItemsInv'
    <2>1. CASE TakeItem(w) \/ TakeBadItem(w)
      BY <2>1, ItemsTaken, Zenon DEF TakeItem, TakeBadItem
    <2>2. CASE ~ (TakeItem(w) \/ TakeBadItem(w))
      BY <1>1, <1>3, <2>2, Zenon DEF NextCall, TakeNothing, TakePassThrough, Check, Sleep,
                                     RejectMalformed, NotifyFetched
    <2>3. QED
      BY <2>1, <2>2
  <1>4. ASSUME NEW w \in Workers, Fetch(w) PROVE ItemsInv'
    <2>1. CASE FetchBatch(w)
      <3>1. IsInjective(queue') /\ batch' = ToSet(queue')
        BY <2>1 DEF FetchBatch
      <3>2. ToSet(records') = {} /\ IsInjective(records') /\ inflight' = {}
        BY <2>1 DEF FetchBatch, ToSet, IsInjective
      <3>3. active' = "KhoneBatch"
        BY <2>1 DEF FetchBatch
      <3>4. QED
        BY <3>1, <3>2, <3>3 DEF ItemsInv
    <2>2. CASE FetchPassThrough(w)
      BY <1>2, <2>2 DEF FetchPassThrough
    <2>3. CASE FetchMalformed(w) \/ FetchFails(w)
      BY <1>1, <2>3, Zenon DEF FetchMalformed, FetchFails
    <2>4. QED
      BY <1>4, <2>1, <2>2, <2>3, Zenon DEF Fetch
  <1>5. ASSUME NEW w \in Workers, Completion(w) PROVE ItemsInv'
    <2>1. CASE CompleteItem(w)
      BY <2>1, ItemsCompleted, Zenon DEF CompleteItem
    <2>2. CASE ForwardSucceeds(w)
      BY <1>2, <2>2 DEF ForwardSucceeds
    <2>3. CASE CompleteUnknown(w) \/ ForwardPassThrough(w) \/ ForwardFails(w)
      BY <1>1, <2>3, Zenon DEF CompleteUnknown, ForwardPassThrough, ForwardFails
    <2>4. QED
      BY <1>5, <2>1, <2>2, <2>3, Zenon DEF Completion
  <1>6. CASE Finalize
    BY <1>2, <1>6 DEF Finalize
  <1>7. CASE UNCHANGED vars
    BY <1>1, <1>7, Zenon DEF vars
  <1>8. QED
    BY <1>3, <1>4, <1>5, <1>6, <1>7, Zenon DEF Next

\* A worker gives up what it runs, or keeps it.
LEMMA HoldKept ==
    ASSUME TypeOK, HoldInv, NEW w \in Workers,
           holds' = holds \/ holds' = [holds EXCEPT ![w] = NoId],
           active' = "KhoneBatch" => active = "KhoneBatch" /\ ToSet(queue') \subseteq ToSet(queue),
           active' = "PassThrough" /\ ~ delivered' =>
               active = "PassThrough" /\ ~ delivered /\ passing' = passing
    PROVE  HoldInv'
  <1>1. holds \in [Workers -> Ids \cup {NoId}]
    BY DEF TypeOK
  <1>2. \A v \in Workers : holds'[v] = holds[v] \/ holds'[v] = NoId
    BY <1>1
  <1>3. OneWorkerPerInvocation'
    BY <1>2 DEF HoldInv, OneWorkerPerInvocation
  <1>4. ToSet(queue) \subseteq Ids
    BY QueuedIds
  <1>5. active' = "KhoneBatch" => \A v \in Workers : holds'[v] \notin ToSet(queue')
    BY <1>2, <1>4 DEF HoldInv
  <1>6. active' = "PassThrough" /\ ~ delivered' => \A v \in Workers : holds'[v] # passing'
    BY <1>2 DEF HoldInv, TypeOK
  <1>7. QED
    BY <1>3, <1>5, <1>6, Zenon DEF HoldInv

\* A worker is given what nobody runs.
LEMMA HoldGiven ==
    ASSUME TypeOK, HoldInv, NEW w \in Workers, NEW i \in Ids,
           \A v \in Workers : holds[v] # i,
           holds' = [holds EXCEPT ![w] = i],
           active' = active,
           active = "KhoneBatch" => i \notin ToSet(queue') /\ ToSet(queue') \subseteq ToSet(queue),
           active = "PassThrough" => delivered'
    PROVE  HoldInv'
  <1>1. holds \in [Workers -> Ids \cup {NoId}]
    BY DEF TypeOK
  <1>2. \A v \in Workers : holds'[v] = IF v = w THEN i ELSE holds[v]
    BY <1>1
  <1>3. OneWorkerPerInvocation'
    BY <1>2 DEF HoldInv, OneWorkerPerInvocation
  <1>4. active' = "KhoneBatch" => \A v \in Workers : holds'[v] \notin ToSet(queue')
    BY <1>2 DEF HoldInv
  <1>5. QED
    BY <1>3, <1>4, Zenon DEF HoldInv

LEMMA HoldStep == ASSUME TypeOK, ItemsInv, HoldInv, [Next]_vars PROVE HoldInv'
  <1>1. ASSUME UNCHANGED <<holds, active, queue, passing, delivered>> PROVE HoldInv'
    BY <1>1, Zenon DEF HoldInv, OneWorkerPerInvocation
  <1>2. ASSUME NEW w \in Workers, NextCall(w) PROVE HoldInv'
    <2>1. CASE TakeItem(w)
      <3>1. /\ ToSet(queue') \subseteq ToSet(queue)
            /\ Head(queue) \in ToSet(queue) /\ Head(queue) \notin ToSet(queue')
        BY <2>1, ItemsTaken, Zenon DEF TakeItem
      <3>2. Head(queue) \in Ids /\ \A v \in Workers : holds[v] # Head(queue)
        BY <2>1, <3>1, QueuedIds DEF TakeItem, HoldInv
      <3>3. QED
        BY <2>1, <3>1, <3>2, HoldGiven DEF TakeItem
    <2>2. CASE TakeBadItem(w)
      <3>1. ToSet(queue') \subseteq ToSet(queue)
        BY <2>2, ItemsTaken, Zenon DEF TakeBadItem
      <3>2. QED
        BY <2>2, <3>1, HoldKept DEF TakeBadItem
    <2>3. CASE TakePassThrough(w)
      <3>1. passing \in Ids /\ \A v \in Workers : holds[v] # passing
        BY <2>3 DEF TakePassThrough, TypeOK, HoldInv
      <3>2. QED
        BY <2>3, <3>1, HoldGiven DEF TakePassThrough
    <2>4. CASE TakeNothing(w) \/ Check(w) \/ Sleep(w) \/ RejectMalformed(w) \/ NotifyFetched(w)
      BY <1>1, <2>4, Zenon DEF TakeNothing, Check, Sleep, RejectMalformed, NotifyFetched
    <2>5. QED
      BY <1>2, <2>1, <2>2, <2>3, <2>4, Zenon DEF NextCall
  <1>3. ASSUME NEW w \in Workers, Fetch(w) PROVE HoldInv'
    <2>1. CASE FetchBatch(w)
      <3>1. ToSet(queue') \subseteq FreshIds
        BY <2>1, FetchedQueue DEF FetchBatch
      <3>2. holds' = holds /\ active' = "KhoneBatch"
        BY <2>1 DEF FetchBatch
      <3>3. QED
        BY <3>1, <3>2 DEF FreshIds, HoldInv, OneWorkerPerInvocation
    <2>2. CASE FetchPassThrough(w)
      BY <2>2 DEF FetchPassThrough, FreshIds, HoldInv, OneWorkerPerInvocation
    <2>3. CASE FetchMalformed(w) \/ FetchFails(w)
      BY <1>1, <2>3, Zenon DEF FetchMalformed, FetchFails
    <2>4. QED
      BY <1>3, <2>1, <2>2, <2>3, Zenon DEF Fetch
  <1>4. ASSUME NEW w \in Workers, Completion(w) PROVE HoldInv'
    <2>1. holds' = holds \/ holds' = [holds EXCEPT ![w] = NoId]
      BY <1>4, Zenon DEF Completion, CompleteItem, CompleteUnknown, ForwardPassThrough,
                         ForwardSucceeds, ForwardFails
    <2>2. UNCHANGED <<queue, passing, delivered>>
      BY <1>4, Zenon DEF Completion, CompleteItem, CompleteUnknown, ForwardPassThrough,
                         ForwardSucceeds, ForwardFails
    <2>3. active' \in {active, "None", "KhoneFinalizing"}
      BY <1>4 DEF Completion, CompleteItem, CompleteUnknown, ForwardPassThrough,
                         ForwardSucceeds, ForwardFails
    <2>4. QED
      BY <2>1, <2>2, <2>3, HoldKept
  <1>5. CASE Finalize
    BY <1>5 DEF Finalize, HoldInv, OneWorkerPerInvocation
  <1>6. CASE UNCHANGED vars
    BY <1>1, <1>6, Zenon DEF vars
  <1>7. QED
    BY <1>2, <1>3, <1>4, <1>5, <1>6, Zenon DEF Next

\* The calls of the workers and the finalizer keep the inductive invariant,
\* whatever their interleaving.
THEOREM ProxyInvariant == Spec => []ProxyInv
  <1>1. Init => ProxyInv
    BY TypeInit, AskerInit, ItemsInit DEF ProxyInv
  <1>2. ProxyInv /\ [Next]_vars => ProxyInv'
    BY TypeStep, AskerStep, ItemsStep, HoldStep DEF ProxyInv
  <1>3. QED
    BY <1>1, <1>2, PTL DEF Spec

-----------------------------------------------------------------------------
(* The theorems.                                                           *)

\* What the calls, the items and the Runtime API hold is always of its kind.
THEOREM TypeCorrect == Spec => []TypeOK
  <1>1. ProxyInv => TypeOK
    BY DEF ProxyInv
  <1>2. QED
    BY <1>1, ProxyInvariant, PTL

\* However the calls of the workers interleave, the Runtime API sees one
\* /next at a time, and none while the proxy has an invocation to answer: one
\* that is unanswered then was given up because a call to the Runtime API
\* failed.
THEOREM OneOuter == Spec => []OneOuterAtATime
  <1>1. ProxyInv => OneOuterAtATime
    <2> SUFFICES ASSUME AskerInv PROVE OneOuterAtATime
      BY DEF ProxyInv
    <2>1. ASSUME NEW w \in Workers, wpc[w] = "fetch" PROVE active = "None" /\ outer # "out"
      <3>1. \A v \in Workers : wpc[v] # "reject"
        <4>1. ASSUME NEW v \in Workers, wpc[v] = "reject" PROVE FALSE
          <5>1. v = w
            BY <2>1, <4>1 DEF AskerInv
          <5>2. QED
            BY <2>1, <4>1, <5>1
        <4>2. QED
          BY <4>1
      <3>2. QED
        BY <2>1, <3>1 DEF AskerInv
    <2>2. QED
      BY <2>1 DEF AskerInv, OneOuterAtATime
  <1>2. QED
    BY <1>1, ProxyInvariant, PTL

\* The flag of a fetch never outlives the call that set it.
THEOREM FlagIsSound == Spec => []FetchFlagSound
  <1>1. ProxyInv => FetchFlagSound
    BY DEF ProxyInv, AskerInv
  <1>2. QED
    BY <1>1, ProxyInvariant, PTL

\* No invocation is given to two workers, through repeated completions and
\* items that cannot be handed out.
THEOREM OneWorker == Spec => []OneWorkerPerInvocation
  <1>1. ProxyInv => OneWorkerPerInvocation
    BY DEF ProxyInv, HoldInv
  <1>2. QED
    BY <1>1, ProxyInvariant, PTL

\* The outer response carries one record for each item, for any number of
\* workers that complete them in any order, and again.
THEOREM OneRecord == Spec => []OneRecordPerItem
  <1>1. ProxyInv => OneRecordPerItem
    <2> SUFFICES ASSUME TypeOK, ItemsInv PROVE OneRecordPerItem
      BY DEF ProxyInv
    <2>1. CASE active = "KhoneBatch"
      <3> DEFINE Q == ToSet(queue)
                 R == ToSet(records)
      <3>1. /\ batch = Q \cup inflight \cup R
            /\ Q \cap inflight = {} /\ (Q \cup inflight) \cap R = {}
            /\ IsInjective(queue) /\ IsInjective(records)
        BY <2>1 DEF ItemsInv
      <3>2. /\ IsFiniteSet(Q) /\ Cardinality(Q) = Len(queue)
            /\ IsFiniteSet(R) /\ Cardinality(R) = Len(records)
        BY <3>1, LengthOfDistinct, Zenon DEF TypeOK
      <3>3. IsFiniteSet(inflight) /\ IsFiniteSet(Q \cup inflight)
        BY <3>2, FS_Subset, FS_Union DEF TypeOK
      <3> HIDE DEF Q, R
      <3>4. /\ Cardinality(Q) \in Nat /\ Cardinality(R) \in Nat /\ Cardinality(inflight) \in Nat
            /\ Cardinality(Q \cup inflight) \in Nat
        BY <3>2, <3>3, FS_CardinalityType
      <3>5. Cardinality(Q \cup inflight) = Cardinality(Q) + Cardinality(inflight) - Cardinality({})
        BY <3>1, <3>2, <3>3, FS_Union
      <3>6. Cardinality(batch) = Cardinality(Q \cup inflight) + Cardinality(R) - Cardinality({})
        BY <3>1, <3>2, <3>3, FS_Union
      <3>7. Cardinality({}) = 0
        BY FS_EmptySet
      <3>8. Cardinality(batch) = Cardinality(Q) + Cardinality(inflight) + Cardinality(R)
        BY <3>4, <3>5, <3>6, <3>7
      <3>9. Cardinality(batch) = Len(queue) + Cardinality(inflight) + Len(records)
        BY <3>2, <3>8
      <3>10. QED
        BY <2>1, <3>1, <3>9, Zenon DEF OneRecordPerItem, Q, R
    <2>2. CASE active = "KhoneFinalizing"
      BY <2>2, LengthOfDistinct DEF TypeOK, ItemsInv, OneRecordPerItem
    <2>3. CASE active \notin {"KhoneBatch", "KhoneFinalizing"}
      BY <2>3 DEF OneRecordPerItem
    <2>4. QED
      BY <2>1, <2>2, <2>3
  <1>2. QED
    BY <1>1, ProxyInvariant, PTL

-----------------------------------------------------------------------------
(* The promise about the outer invocation.                                 *)

\* A completion is forwarded only for the passed-through invocation, and by
\* the worker that runs it.
ForwardInv ==
    \A w \in Workers :
        wpc[w] = "forward" => active = "PassThrough" /\ delivered /\ holds[w] = passing

LEMMA ForwardInit == Init => ForwardInv
  BY Zenon DEF Init, ForwardInv

\* The others neither take it nor end it meanwhile.
LEMMA ForwardStep == ASSUME ProxyInv, ForwardInv, [Next]_vars PROVE ForwardInv'
  <1>0. /\ wpc \in [Workers -> WorkerStates] /\ holds \in [Workers -> Ids \cup {NoId}]
        /\ active = "PassThrough" => passing \in Ids
    BY DEF ProxyInv, TypeOK
  <1>1. \A v \in Workers : Woken(wpc)[v] = wpc[v] \/ (wpc[v] = "asleep" /\ Woken(wpc)[v] = "take")
    BY <1>0, WokenWorkers
  <1>2. Woken(wpc) \in [Workers -> WorkerStates]
    BY <1>0, WokenWorkers
  \* A step of one worker leaves the call that is forwarded alone.
  <1>3. ASSUME NEW w \in Workers,
               \A v \in Workers \ {w} : wpc'[v] = "forward" => wpc[v] = "forward" /\ holds'[v] = holds[v],
               wpc'[w] # "forward",
               (\E v \in Workers \ {w} : wpc[v] = "forward") => UNCHANGED <<active, delivered, passing>>
        PROVE  ForwardInv'
    BY <1>3 DEF ForwardInv
  <1>4. ASSUME NEW w \in Workers, NEW p \in WorkerStates \ {"forward"},
               \/ wpc' = [wpc EXCEPT ![w] = p]
               \/ wpc' = [Woken(wpc) EXCEPT ![w] = p]
        PROVE  /\ wpc'[w] # "forward"
               /\ \A v \in Workers \ {w} : wpc'[v] = "forward" => wpc[v] = "forward"
    BY <1>0, <1>1, <1>2, <1>4
  <1>5. ASSUME NEW w \in Workers, NEW x,
               holds' = holds \/ holds' = [holds EXCEPT ![w] = x]
        PROVE  \A v \in Workers \ {w} : holds'[v] = holds[v]
    BY <1>0, <1>5
  <1>6. ASSUME NEW w \in Workers, NextCall(w) PROVE ForwardInv'
    <2>1. CASE TakeBadItem(w)
      BY <2>1 DEF TakeBadItem, ForwardInv
    <2>2. CASE ~ TakeBadItem(w)
      <3>1. \E p \in WorkerStates \ {"forward"} :
              \/ wpc' = [wpc EXCEPT ![w] = p]
              \/ wpc' = [Woken(wpc) EXCEPT ![w] = p]
        BY <1>6, <2>2 DEF NextCall, TakeNothing, TakePassThrough, TakeItem, Check, Sleep,
                          RejectMalformed, NotifyFetched, WorkerStates
      <3>2. \E x : holds' = holds \/ holds' = [holds EXCEPT ![w] = x]
        BY <1>6, <2>2, Zenon DEF NextCall, TakeNothing, TakePassThrough, TakeItem, Check, Sleep,
                          RejectMalformed, NotifyFetched
      <3>3. \/ UNCHANGED <<active, delivered, passing>>
            \/ TakePassThrough(w)
        BY <1>6, <2>2, Zenon DEF NextCall, TakeNothing, TakeItem, Check, Sleep,
                          RejectMalformed, NotifyFetched
      <3>4. TakePassThrough(w) => ~ \E v \in Workers : wpc[v] = "forward"
        BY DEF TakePassThrough, ForwardInv
      <3>5. QED
        BY <1>3, <1>4, <1>5, <3>1, <3>2, <3>3, <3>4
    <2>3. QED
      BY <2>1, <2>2
  <1>7. ASSUME NEW w \in Workers, Fetch(w) PROVE ForwardInv'
    <2>1. \E p \in WorkerStates \ {"forward"} :
              \/ wpc' = [wpc EXCEPT ![w] = p]
              \/ wpc' = [Woken(wpc) EXCEPT ![w] = p]
      BY <1>7 DEF Fetch, FetchBatch, FetchPassThrough, FetchMalformed, FetchFails, WorkerStates
    <2>2. active = "None" /\ holds' = holds
      BY <1>7 DEF Fetch, FetchBatch, FetchPassThrough, FetchMalformed, FetchFails, ProxyInv, AskerInv
    <2>3. \A v \in Workers : wpc[v] # "forward"
      BY <2>2 DEF ForwardInv
    <2>4. QED
      BY <1>3, <1>4, <2>1, <2>2, <2>3
  <1>8. ASSUME NEW w \in Workers, Completion(w) PROVE ForwardInv'
    <2>1. CASE ForwardPassThrough(w)
      <3>1. delivered
        BY <2>1 DEF ForwardPassThrough, ProxyInv, HoldInv, TypeOK
      <3>2. wpc' = [wpc EXCEPT ![w] = "forward"] /\ UNCHANGED <<holds, active, passing, delivered>>
        BY <2>1 DEF ForwardPassThrough
      <3>3. \A v \in Workers : wpc'[v] = IF v = w THEN "forward" ELSE wpc[v]
        BY <3>2, <1>0
      <3>4. QED
        BY <2>1, <3>1, <3>2, <3>3 DEF ForwardPassThrough, ForwardInv
    <2>2. CASE ForwardSucceeds(w)
      <3>1. \A v \in Workers : wpc[v] = "forward" => v = w
        BY <2>2, <1>0 DEF ForwardSucceeds, ForwardInv, ProxyInv, HoldInv, OneWorkerPerInvocation
      <3>2. \E p \in WorkerStates \ {"forward"} : wpc' = [Woken(wpc) EXCEPT ![w] = p]
        BY <2>2 DEF ForwardSucceeds, WorkerStates
      <3>3. \A v \in Workers : wpc'[v] # "forward"
        BY <1>4, <3>1, <3>2
      <3>4. QED
        BY <3>3 DEF ForwardInv
    <2>3. CASE CompleteItem(w)
      <3>1. active = "KhoneBatch" /\ wpc[w] = "busy"
        BY <2>3 DEF CompleteItem
      <3>2. \A v \in Workers : wpc[v] # "forward"
        BY <3>1 DEF ForwardInv
      <3>3. \E p \in WorkerStates \ {"forward"} : wpc' = [wpc EXCEPT ![w] = p]
        BY <2>3, <3>1, <1>0 DEF CompleteItem, WorkerStates
      <3>4. \A v \in Workers : wpc'[v] # "forward"
        BY <1>4, <3>2, <3>3
      <3>5. QED
        BY <3>4 DEF ForwardInv
    <2>4. CASE CompleteUnknown(w) \/ ForwardFails(w)
      <3>1. \E p \in WorkerStates \ {"forward"} : wpc' = [wpc EXCEPT ![w] = p]
        BY <2>4 DEF CompleteUnknown, ForwardFails, WorkerStates
      <3>2. /\ \E x : holds' = holds \/ holds' = [holds EXCEPT ![w] = x]
            /\ UNCHANGED <<active, delivered, passing>>
        BY <2>4, Zenon DEF CompleteUnknown, ForwardFails
      <3>3. QED
        BY <1>3, <1>4, <1>5, <3>1, <3>2
    <2>5. QED
      BY <1>8, <2>1, <2>2, <2>3, <2>4 DEF Completion
  <1>9. CASE Finalize
    <2>1. \A v \in Workers : wpc[v] # "forward"
      BY <1>9 DEF Finalize, ForwardInv
    <2>2. \A v \in Workers : wpc'[v] # "forward"
      BY <1>1, <1>9, <2>1 DEF Finalize
    <2>3. QED
      BY <2>2 DEF ForwardInv
  <1>10. CASE UNCHANGED vars
    BY <1>10, Zenon DEF vars, ForwardInv
  <1>11. QED
    BY <1>6, <1>7, <1>8, <1>9, <1>10, Zenon DEF Next

\* What is promised does not change while the invocation, and what of it is
\* queued, in flight and recorded, stays.
LEMMA ServiceUnchanged ==
    ASSUME UNCHANGED <<active, passing, delivered, queue, inflight, records>>
    PROVE  UNCHANGED Service!serviceVars
  BY Zenon DEF Service!serviceVars, ServedWaiting, ServedRunning, ServedAnswers

\* Every step of the proxy serves the outer invocation as promised, or
\* changes nothing of what is promised.
LEMMA ServiceStep ==
    ASSUME ProxyInv, ForwardInv, [Next]_vars
    PROVE  [Service!Next]_(Service!serviceVars)
  <1> USE DEF ServedWaiting, ServedRunning, ServedAnswers
  <1>0. TypeOK
    BY DEF ProxyInv
  <1>1. ASSUME NEW w \in Workers, NextCall(w) PROVE [Service!Next]_(Service!serviceVars)
    <2>1. CASE TakeItem(w) \/ TakeBadItem(w)
      <3>1. /\ active = "KhoneBatch" /\ active' = active /\ queue # <<>> /\ records' = records
            /\ queue' = Tail(queue) /\ inflight' = inflight \cup {Head(queue)}
        BY <2>1 DEF TakeItem, TakeBadItem
      <3>2. /\ Head(queue) \in ToSet(queue)
            /\ ToSet(queue') = ToSet(queue) \ {Head(queue)}
        BY <1>0, <3>1, TailOfDistinct DEF ProxyInv, ItemsInv, TypeOK
      <3>3. Head(queue) \in Ids
        BY <1>0, <3>2, QueuedIds
      <3>4. Service!Begin(Head(queue))
        BY <3>1, <3>2 DEF Service!Begin
      <3>5. QED
        BY <3>3, <3>4 DEF Service!Next
    <2>2. CASE TakePassThrough(w)
      <3>1. passing \in Ids
        BY <1>0, <2>2 DEF TypeOK, TakePassThrough
      <3>2. /\ ServedWaiting = {passing} /\ ServedRunning = {} /\ ServedAnswers = <<>>
            /\ ServedWaiting' = {} /\ ServedRunning' = {passing} /\ ServedAnswers' = <<>>
        BY <2>2 DEF TakePassThrough
      <3>3. Service!Begin(passing)
        BY <2>2, <3>2 DEF Service!Begin, TakePassThrough
      <3>4. QED
        BY <3>1, <3>3 DEF Service!Next
    <2>3. CASE TakeNothing(w) \/ Check(w) \/ Sleep(w) \/ RejectMalformed(w) \/ NotifyFetched(w)
      <3>1. UNCHANGED <<active, passing, delivered, queue, inflight, records>>
        BY <2>3, Zenon DEF TakeNothing, Check, Sleep, RejectMalformed, NotifyFetched
      <3>2. QED
        BY <3>1, ServiceUnchanged
    <2>4. QED
      BY <1>1, <2>1, <2>2, <2>3, Zenon DEF NextCall
  <1>2. ASSUME NEW w \in Workers, Fetch(w) PROVE [Service!Next]_(Service!serviceVars)
    <2>0. active = "None" /\ ServedWaiting = {} /\ ServedRunning = {} /\ ServedAnswers = <<>>
      BY <1>2 DEF Fetch, FetchBatch, FetchPassThrough, FetchFails, FetchMalformed, ProxyInv, AskerInv
    <2>1. CASE FetchBatch(w)
      <3>1. /\ active' = "KhoneBatch" /\ inflight' = {} /\ records' = <<>>
            /\ \E n \in 1..Cardinality(FreshIds) : \E q \in [1..n -> FreshIds] : queue' = q
        BY <2>1 DEF FetchBatch
      <3>2. queue' \in Seq(Ids) /\ queue' # <<>> /\ ToSet(queue') \subseteq FreshIds
        BY <3>1, FetchedQueue
      <3>3. ToSet(queue') \in (SUBSET Ids) \ {{}}
        <4>1. queue'[1] \in ToSet(queue')
          BY <3>2 DEF ToSet
        <4>2. QED
          <5>1. ToSet(queue') \subseteq Ids
            BY <3>2, Zenon DEF FreshIds
          <5>2. ToSet(queue') # {}
            BY <4>1
          <5>3. QED
            BY <5>1, <5>2
      <3>4. ServedWaiting' = ToSet(queue') /\ ServedRunning' = {} /\ ServedAnswers' = <<>>
        BY <3>1
      <3>5. Service!Open
        BY <2>0, <3>1, <3>3, <3>4 DEF Service!Open
      <3>6. QED
        BY <3>5 DEF Service!Next
    <2>2. CASE FetchPassThrough(w)
      <3>1. active' = "PassThrough" /\ ~ delivered' /\ passing' \in Ids
        BY <2>2 DEF FetchPassThrough, FreshIds
      <3>2. ServedWaiting' = {passing'} /\ ServedRunning' = {} /\ ServedAnswers' = <<>>
        BY <3>1
      <3>3. ServedWaiting' \in (SUBSET Ids) \ {{}}
        BY <3>1, <3>2
      <3>4. Service!Open
        BY <2>0, <3>1, <3>2, <3>3 DEF Service!Open
      <3>5. QED
        BY <3>4 DEF Service!Next
    <2>3. CASE FetchMalformed(w) \/ FetchFails(w)
      <3>1. UNCHANGED <<active, passing, delivered, queue, inflight, records>>
        BY <2>3, Zenon DEF FetchMalformed, FetchFails
      <3>2. QED
        BY <3>1, ServiceUnchanged
    <2>4. QED
      BY <1>2, <2>1, <2>2, <2>3, Zenon DEF Fetch
  <1>3. ASSUME NEW w \in Workers, Completion(w) PROVE [Service!Next]_(Service!serviceVars)
    <2>1. CASE CompleteItem(w)
      <3>1. /\ active = "KhoneBatch" /\ holds[w] \in inflight /\ queue' = queue
            /\ inflight' = inflight \ {holds[w]} /\ records' = Append(records, holds[w])
            /\ active' = (IF queue = <<>> /\ inflight' = {} THEN "KhoneFinalizing" ELSE active)
        BY <2>1 DEF CompleteItem
      <3>2. queue = <<>> => ToSet(queue) = {}
        BY DEF ToSet
      <3>3. /\ ServedWaiting' = ServedWaiting
            /\ ServedRunning' = ServedRunning \ {holds[w]}
            /\ ServedAnswers' = Append(ServedAnswers, holds[w])
            /\ active # "None" /\ active' # "None"
        BY <3>1, <3>2
      <3>4. holds[w] \in ServedRunning /\ holds[w] \in Ids
        BY <1>0, <3>1 DEF TypeOK
      <3>5. Service!Answer(holds[w])
        BY <3>3, <3>4 DEF Service!Answer
      <3>6. QED
        BY <3>4, <3>5 DEF Service!Next
    <2>2. CASE ForwardSucceeds(w)
      <3>1. active = "PassThrough" /\ delivered /\ active' = "None"
        BY <2>2 DEF ForwardSucceeds, ForwardInv
      <3>2. passing \in Ids
        BY <1>0, <3>1 DEF TypeOK
      <3>3. /\ ServedWaiting = {} /\ ServedRunning = {passing} /\ ServedAnswers = <<>>
            /\ ServedWaiting' = {} /\ ServedRunning' = {} /\ ServedAnswers' = <<>>
        BY <3>1
      <3>4. Service!AnswerWhole(passing)
        BY <3>1, <3>3 DEF Service!AnswerWhole
      <3>5. QED
        BY <3>2, <3>4 DEF Service!Next
    <2>3. CASE CompleteUnknown(w) \/ ForwardPassThrough(w) \/ ForwardFails(w)
      <3>1. UNCHANGED <<active, passing, delivered, queue, inflight, records>>
        BY <2>3, Zenon DEF CompleteUnknown, ForwardPassThrough, ForwardFails
      <3>2. QED
        BY <3>1, ServiceUnchanged
    <2>4. QED
      BY <1>3, <2>1, <2>2, <2>3, Zenon DEF Completion
  <1>4. CASE Finalize
    <2>1. active = "KhoneFinalizing" /\ active' = "None"
      BY <1>4 DEF Finalize
    <2>2. Service!Close
      BY <2>1 DEF Service!Close
    <2>3. QED
      BY <2>2 DEF Service!Next
  <1>5. CASE UNCHANGED vars
    <2>1. UNCHANGED <<active, passing, delivered, queue, inflight, records>>
      BY <1>5 DEF vars
    <2>2. QED
      BY <2>1, ServiceUnchanged
  <1>6. QED
    BY <1>1, <1>2, <1>3, <1>4, <1>5, Zenon DEF Next

\* The proxy implements BatchService for every number of workers and every
\* set of ids: an outer invocation is replaced only when it is over, and over
\* only when each of its items was handed out and answered, once.
THEOREM ProxyImplementsService == Spec => ServiceSpec
  <1>1. Init => Service!Init
    BY DEF Init, Service!Init, ServedWaiting, ServedRunning, ServedAnswers
  <1>2. ForwardInv /\ ProxyInv /\ [Next]_vars => ForwardInv'
    BY ForwardStep
  <1>3. ProxyInv /\ ForwardInv /\ [Next]_vars => [Service!Next]_(Service!serviceVars)
    BY ServiceStep
  <1>4. QED
    BY <1>1, <1>2, <1>3, ForwardInit, ProxyInvariant, PTL DEF Spec, ServiceSpec, Service!Spec

-----------------------------------------------------------------------------
(* The lost wake-up.                                                       *)

\* Where everybody sleeps, nothing is active and nobody fetches, no call and
\* no finalizer has a step left.
LEMMA WedgedStops == ASSUME [Next]_vars, ~ SomeoneAsksAgain PROVE UNCHANGED vars
  <1>1. active = "None" /\ \A w \in Workers : wpc[w] = "asleep"
    BY DEF SomeoneAsksAgain
  <1>2. ASSUME NEW w \in Workers, NextCall(w) \/ Fetch(w) \/ Completion(w) PROVE FALSE
    <2>1. wpc[w] = "asleep"
      BY <1>1
    <2>2. ~ NextCall(w)
      BY <2>1 DEF NextCall, TakeNothing, TakePassThrough, TakeItem, TakeBadItem, Check, Sleep,
                  RejectMalformed, NotifyFetched
    <2>3. ~ Fetch(w)
      BY <2>1 DEF Fetch, FetchBatch, FetchPassThrough, FetchMalformed, FetchFails
    <2>4. ~ Completion(w)
      BY <2>1 DEF Completion, CompleteItem, CompleteUnknown, ForwardPassThrough,
                  ForwardSucceeds, ForwardFails
    <2>5. QED
      BY <1>2, <2>2, <2>3, <2>4
  <1>3. ~ Finalize
    BY <1>1 DEF Finalize
  <1>4. QED
    BY <1>2, <1>3, Zenon DEF Next

\* A step after which everybody sleeps, though somebody asked before, is the
\* creation of a Notified future: a wake-up leaves nobody asleep.
LEMMA SleepLoses ==
    ASSUME Workers # {}, ProxyInv, [Next]_vars, SomeoneAsksAgain, ~ SomeoneAsksAgain'
    PROVE  \E w \in Workers : Sleep(w) /\ active = "None" /\ ~ fetching
  <1>0. /\ wpc \in [Workers -> WorkerStates] /\ fetching \in BOOLEAN
        /\ Woken(wpc) \in [Workers -> WorkerStates]
        /\ \A v \in Workers : Woken(wpc)[v] # "asleep"
    <2>1. wpc \in [Workers -> WorkerStates] /\ fetching \in BOOLEAN
      BY DEF ProxyInv, TypeOK
    <2>2. QED
      BY <2>1, WokenWorkers DEF Woken
  <1>1. active' = "None" /\ ~ fetching' /\ \A w \in Workers : wpc'[w] = "asleep"
    BY DEF SomeoneAsksAgain
  <1>2. ASSUME NEW w \in Workers, NextCall(w) \/ Fetch(w) \/ Completion(w) PROVE Sleep(w)
    <2>1. wpc'[w] = "asleep"
      BY <1>1
    <2>2. ASSUME NEW p, p # "asleep",
                 wpc' = [wpc EXCEPT ![w] = p] \/ wpc' = [Woken(wpc) EXCEPT ![w] = p]
          PROVE  FALSE
      BY <1>0, <2>1, <2>2
    <2>3. CASE TakeBadItem(w)
      BY <1>1, <2>3 DEF TakeBadItem
    <2>4. CASE NextCall(w) /\ ~ Sleep(w) /\ ~ TakeBadItem(w)
      <3>1. \E p : p # "asleep" /\ (wpc' = [wpc EXCEPT ![w] = p] \/ wpc' = [Woken(wpc) EXCEPT ![w] = p])
        BY <2>4 DEF NextCall, TakeNothing, TakePassThrough, TakeItem, Check, RejectMalformed, NotifyFetched
      <3>2. QED
        BY <2>2, <3>1
    <2>5. CASE Fetch(w)
      <3>1. \E p : p # "asleep" /\ (wpc' = [wpc EXCEPT ![w] = p] \/ wpc' = [Woken(wpc) EXCEPT ![w] = p])
        BY <2>5 DEF Fetch, FetchBatch, FetchPassThrough, FetchMalformed, FetchFails
      <3>2. QED
        BY <2>2, <3>1
    <2>6. CASE Completion(w)
      <3>1. \/ \E p : p # "asleep" /\ (wpc' = [wpc EXCEPT ![w] = p] \/ wpc' = [Woken(wpc) EXCEPT ![w] = p])
            \/ wpc[w] = "busy" /\ wpc' = wpc
        BY <2>6 DEF Completion, CompleteItem, CompleteUnknown, ForwardPassThrough,
                    ForwardSucceeds, ForwardFails
      <3>2. QED
        BY <2>1, <2>2, <3>1
    <2>7. QED
      BY <1>2, <2>3, <2>4, <2>5, <2>6
  <1>3. ~ Finalize
    BY <1>0, <1>1 DEF Finalize
  <1>4. PICK w \in Workers : Sleep(w)
    <2>1. ~ UNCHANGED vars
      BY DEF vars, SomeoneAsksAgain
    <2>2. QED
      BY <1>2, <1>3, <2>1, Zenon DEF Next
  <1>5. QED
    BY <1>1, <1>4 DEF Sleep

\* The handler of a worker that found something active (or a fetch under way)
\* and creates its Notified future after that has ended is the only way to
\* lose the last poller: the README's promise SomeoneAsksAgain, which the code
\* breaks, is broken nowhere else.
THEOREM OnlySleepLosesPoller ==
    ASSUME Workers # {}
    PROVE  Spec => [][SomeoneAsksAgain /\ ~ SomeoneAsksAgain'
                        => \E w \in Workers : Sleep(w) /\ active = "None" /\ ~ fetching]_vars
  <1>1. ProxyInv /\ [Next]_vars =>
          [SomeoneAsksAgain /\ ~ SomeoneAsksAgain'
             => \E w \in Workers : Sleep(w) /\ active = "None" /\ ~ fetching]_vars
    BY SleepLoses
  <1>2. QED
    BY <1>1, ProxyInvariant, PTL DEF Spec

\* Once the last poller sleeps, no step is left: every step of the proxy is
\* taken where SomeoneAsksAgain holds, so the execution environment takes no
\* further invocation.
THEOREM LostPollerIsForever == Spec => [][SomeoneAsksAgain]_vars
  <1>1. [Next]_vars => [SomeoneAsksAgain]_vars
    BY WedgedStops
  <1>2. QED
    BY <1>1, PTL DEF Spec
=============================================================================
