---------------------------- MODULE GatewayProofs ----------------------------
(***************************************************************************)
(* Safety of the gateway's buffered path for every set of requests, keys   *)
(* and tasks, and every value of the limits: types, bounds of the batches, *)
(* admission, and the contract of RequestReply.                            *)
(***************************************************************************)
EXTENDS Gateway, SequenceTheorems, FiniteSetTheorems, TLAPS

-----------------------------------------------------------------------------
(* Sequences.                                                              *)

\* Both halves of a sequence of at least two elements are non-empty
\* sequences over the same set, no longer than the sequence.
LEMMA HalvesType ==
    ASSUME NEW S, NEW s \in Seq(S), Len(s) > 1
    PROVE  /\ LeftHalf(s) \in Seq(S)
           /\ Len(LeftHalf(s)) \in 1..Len(s)
           /\ RightHalf(s) \in Seq(S)
           /\ Len(RightHalf(s)) \in 1..Len(s)
<1> DEFINE m == Len(s) \div 2
<1>1. /\ Len(s) \in Nat
      /\ m \in Nat
      /\ m \in 1..(Len(s) - 1)
  OBVIOUS
<1>2. \A i \in 1..Len(s) : s[i] \in S
  BY ElementOfSeq
<1> HIDE DEF m
<1>3. LeftHalf(s) \in Seq(S) /\ Len(LeftHalf(s)) = m
  <2>1. LeftHalf(s) = SubSeq(s, 1, m)
    BY DEF LeftHalf, m
  <2>2. \A i \in 1..m : s[i] \in S
    BY <1>1, <1>2
  <2>3. /\ SubSeq(s, 1, m) \in Seq(S)
        /\ Len(SubSeq(s, 1, m)) = IF 1 <= m THEN m - 1 + 1 ELSE 0
    BY <1>1, <2>2, SubSeqProperties
  <2> QED
    BY <1>1, <2>1, <2>3
<1>4. RightHalf(s) \in Seq(S) /\ Len(RightHalf(s)) = Len(s) - m
  <2>1. RightHalf(s) = SubSeq(s, m + 1, Len(s))
    BY DEF RightHalf, m
  <2>2. \A i \in m + 1 .. Len(s) : s[i] \in S
    BY <1>1, <1>2
  <2>3. /\ SubSeq(s, m + 1, Len(s)) \in Seq(S)
        /\ Len(SubSeq(s, m + 1, Len(s)))
             = IF m + 1 <= Len(s) THEN Len(s) - (m + 1) + 1 ELSE 0
    BY <1>1, <2>2, SubSeqProperties
  <2> QED
    BY <1>1, <2>1, <2>3
<1> QED
  BY <1>1, <1>3, <1>4

\* Cutting the head segment of a worklist in two keeps the worklist well
\* typed and its segments within the bound.
LEMMA SplitWorklist ==
    ASSUME NEW S, NEW n \in Nat, NEW w \in Seq(Seq(S)), w # <<>>,
           \A i \in DOMAIN w : Len(w[i]) \in 1..n,
           Len(Head(w)) > 1
    PROVE  LET v == <<LeftHalf(Head(w)), RightHalf(Head(w))>> \o Tail(w)
           IN  /\ v \in Seq(Seq(S))
               /\ v # <<>>
               /\ \A i \in DOMAIN v : Len(v[i]) \in 1..n
<1> DEFINE h == Head(w)
           p == <<LeftHalf(h), RightHalf(h)>>
           v == p \o Tail(w)
<1>1. h \in Seq(S) /\ Len(h) \in 1..n /\ h = w[1]
  OBVIOUS
<1>2. /\ LeftHalf(h) \in Seq(S) /\ Len(LeftHalf(h)) \in 1..n
      /\ RightHalf(h) \in Seq(S) /\ Len(RightHalf(h)) \in 1..n
  <2> HIDE DEF h
  <2>1. Len(h) > 1
    BY DEF h
  <2>2. /\ LeftHalf(h) \in Seq(S) /\ Len(LeftHalf(h)) \in 1..Len(h)
        /\ RightHalf(h) \in Seq(S) /\ Len(RightHalf(h)) \in 1..Len(h)
    BY <1>1, <2>1, HalvesType
  <2> QED
    BY <1>1, <2>2
<1>3. /\ p \in Seq(Seq(S)) /\ Len(p) = 2
      /\ \A i \in 1..2 : Len(p[i]) \in 1..n
  BY <1>2
<1>4. /\ Tail(w) \in Seq(Seq(S))
      /\ Len(Tail(w)) \in Nat
      /\ \A i \in 1..Len(Tail(w)) : Tail(w)[i] = w[i + 1] /\ i + 1 \in DOMAIN w
  BY HeadTailProperties
<1> HIDE DEF h, p
<1>5. /\ v \in Seq(Seq(S))
      /\ Len(v) = 2 + Len(Tail(w))
      /\ DOMAIN v = 1..(2 + Len(Tail(w)))
      /\ \A i \in 1..(2 + Len(Tail(w))) :
            v[i] = IF i <= 2 THEN p[i] ELSE Tail(w)[i - 2]
  <2>1. /\ v \in Seq(Seq(S))
        /\ Len(v) = Len(p) + Len(Tail(w))
        /\ \A i \in 1..(Len(p) + Len(Tail(w))) :
              v[i] = IF i <= Len(p) THEN p[i] ELSE Tail(w)[i - Len(p)]
    BY <1>3, <1>4, ConcatProperties
  <2>2. DOMAIN v = 1..Len(v)
    BY <2>1, LenProperties
  <2> QED
    BY <1>3, <2>1, <2>2
<1> HIDE DEF v
<1>6. \A i \in DOMAIN v : Len(v[i]) \in 1..n
  <2> SUFFICES ASSUME NEW i \in DOMAIN v PROVE Len(v[i]) \in 1..n
    OBVIOUS
  <2>1. i \in 1..(2 + Len(Tail(w)))
    BY <1>5
  <2>2. CASE i <= 2
    <3>1. v[i] = p[i]
      BY <1>5, <2>1, <2>2
    <3>2. i \in 1..2
      BY <1>4, <2>1, <2>2
    <3> QED
      BY <1>3, <3>1, <3>2
  <2>3. CASE i > 2
    <3>1. Len(Tail(w)) \in Nat
      BY <1>4
    <3>2. i - 2 \in 1..Len(Tail(w))
      BY <2>1, <2>3, <3>1
    <3>3. v[i] = Tail(w)[i - 2]
      <4>1. v[i] = IF i <= 2 THEN p[i] ELSE Tail(w)[i - 2]
        BY <1>5, <2>1, Zenon
      <4>2. ~ (i <= 2)
        BY <2>1, <2>3, <3>1
      <4> QED
        BY <4>1, <4>2, Zenon
    <3>4. i - 2 + 1 \in DOMAIN w /\ Tail(w)[i - 2] = w[i - 2 + 1]
      BY <1>4, <3>2
    <3> QED
      BY <3>3, <3>4
  <2> QED
    BY <2>1, <2>2, <2>3
<1>7. v # <<>>
  BY <1>4, <1>5
<1> QED
  BY <1>5, <1>6, <1>7 DEF h, p, v

\* Dropping the head segment keeps the worklist well typed.
LEMMA TailWorklist ==
    ASSUME NEW S, NEW n \in Nat, NEW w \in Seq(Seq(S)), w # <<>>,
           \A i \in DOMAIN w : Len(w[i]) \in 1..n
    PROVE  /\ Tail(w) \in Seq(Seq(S))
           /\ (Len(w) = 1) <=> (Tail(w) = <<>>)
           /\ \A i \in DOMAIN Tail(w) : Len(Tail(w)[i]) \in 1..n
           /\ Head(w) \in Seq(S)
           /\ Len(Head(w)) \in 1..n
           /\ ToSet(Head(w)) \in SUBSET S
           /\ ToSet(Head(w)) # {}
<1>1. /\ Tail(w) \in Seq(Seq(S))
      /\ Len(Tail(w)) = Len(w) - 1
      /\ \A i \in 1..Len(Tail(w)) : Tail(w)[i] = w[i + 1]
  BY HeadTailProperties
<1>2. Head(w) \in Seq(S) /\ Len(Head(w)) \in 1..n
  OBVIOUS
<1>3. ToSet(Head(w)) \in SUBSET S /\ ToSet(Head(w)) # {}
  BY <1>2 DEF ToSet
<1>4. (Len(w) = 1) <=> (Tail(w) = <<>>)
  <2>1. Len(w) \in Nat /\ Len(Tail(w)) \in Nat
    BY <1>1, LenProperties
  <2>2. (Len(w) = 1) <=> (Len(Tail(w)) = 0)
    BY <1>1, <2>1
  <2>3. (Tail(w) = <<>>) <=> (Len(Tail(w)) = 0)
    BY <1>1, <2>1, EmptySeq
  <2> QED
    BY <2>2, <2>3
<1>5. \A i \in DOMAIN Tail(w) : Len(Tail(w)[i]) \in 1..n
  <2>1. DOMAIN w = 1..Len(w) /\ DOMAIN Tail(w) = 1..Len(Tail(w))
    BY <1>1, LenProperties
  <2>2. \A i \in 1..Len(Tail(w)) : i + 1 \in DOMAIN w
    BY <1>1, <2>1
  <2> SUFFICES ASSUME NEW i \in 1..Len(Tail(w)) PROVE Len(Tail(w)[i]) \in 1..n
    BY <2>1
  <2>3. Tail(w)[i] = w[i + 1] /\ i + 1 \in DOMAIN w
    BY <1>1, <2>2
  <2> QED
    BY <2>3
<1> QED
  BY <1>1, <1>2, <1>3, <1>4, <1>5, Zenon

\* What Append, Tail and Head do to the set of a sequence's elements.
LEMMA ToSetFacts ==
    /\ ToSet(<<>>) = {}
    /\ \A x : ToSet(<<x>>) = {x}
    /\ \A S : \A s \in Seq(S) : \A x \in S : ToSet(Append(s, x)) = ToSet(s) \cup {x}
    /\ \A S : \A s \in Seq(S) : s # <<>> => Head(s) \in ToSet(s) /\ ToSet(Tail(s)) \subseteq ToSet(s)
<1>1. ToSet(<<>>) = {} /\ \A x : ToSet(<<x>>) = {x}
  BY DEF ToSet
<1>2. ASSUME NEW S, NEW s \in Seq(S), NEW x \in S
      PROVE  ToSet(Append(s, x)) = ToSet(s) \cup {x}
  <2>1. /\ DOMAIN s = 1..Len(s) /\ Len(s) \in Nat
        /\ DOMAIN Append(s, x) = 1..(Len(s) + 1)
        /\ \A i \in 1..Len(s) : Append(s, x)[i] = s[i]
        /\ Append(s, x)[Len(s) + 1] = x
    BY AppendProperties, LenProperties
  <2>2. \A i \in 1..(Len(s) + 1) : i \in 1..Len(s) \/ i = Len(s) + 1
    BY <2>1
  <2>3. \A i \in 1..Len(s) : i \in 1..(Len(s) + 1)
    BY <2>1
  <2>4. Len(s) + 1 \in 1..(Len(s) + 1)
    BY <2>1
  <2> QED
    BY <2>1, <2>2, <2>3, <2>4 DEF ToSet
<1>3. ASSUME NEW S, NEW s \in Seq(S), s # <<>>
      PROVE  Head(s) \in ToSet(s) /\ ToSet(Tail(s)) \subseteq ToSet(s)
  BY <1>3 DEF ToSet
<1> QED
  BY <1>1, <1>2, <1>3

\* The halves of a sequence have no other elements.
LEMMA HalvesElements ==
    ASSUME NEW S, NEW s \in Seq(S), Len(s) > 1
    PROVE  ToSet(LeftHalf(s)) \subseteq ToSet(s) /\ ToSet(RightHalf(s)) \subseteq ToSet(s)
<1> DEFINE m == Len(s) \div 2
<1>1. /\ Len(s) \in Nat /\ DOMAIN s = 1..Len(s)
      /\ m \in Nat
      /\ m \in 1..(Len(s) - 1)
  OBVIOUS
<1>2. \A i \in 1..Len(s) : s[i] \in ToSet(s)
  BY <1>1 DEF ToSet
<1> HIDE DEF m
<1>3. LeftHalf(s) \in Seq(ToSet(s))
  <2>1. \A i \in 1..m : s[i] \in ToSet(s)
    BY <1>1, <1>2
  <2>2. SubSeq(s, 1, m) \in Seq(ToSet(s))
    BY <1>1, <2>1, SubSeqProperties
  <2> QED
    BY <2>2 DEF LeftHalf, m
<1>4. RightHalf(s) \in Seq(ToSet(s))
  <2>1. \A i \in m + 1 .. Len(s) : s[i] \in ToSet(s)
    BY <1>1, <1>2
  <2>2. SubSeq(s, m + 1, Len(s)) \in Seq(ToSet(s))
    BY <1>1, <2>1, SubSeqProperties
  <2> QED
    BY <2>2 DEF RightHalf, m
<1> QED
  BY <1>3, <1>4 DEF ToSet

\* Worklists: a new one holds the flushed batch, and advancing or splitting
\* one brings in no request.
LEMMA ElementsFacts ==
    ASSUME NEW S
    PROVE  /\ Elements(<<>>) = {}
           /\ \A s \in Seq(S) : Elements(<<s>>) = ToSet(s)
           /\ \A w \in Seq(Seq(S)) : w # <<>> =>
                 /\ ToSet(Head(w)) \subseteq Elements(w)
                 /\ Elements(Tail(w)) \subseteq Elements(w)
                 /\ Len(Head(w)) > 1 =>
                      Elements(<<LeftHalf(Head(w)), RightHalf(Head(w))>> \o Tail(w))
                        \subseteq Elements(w)
<1>1. Elements(<<>>) = {} /\ \A s \in Seq(S) : Elements(<<s>>) = ToSet(s)
  BY DEF Elements
<1>2. ASSUME NEW w \in Seq(Seq(S)), w # <<>>
      PROVE  ToSet(Head(w)) \subseteq Elements(w) /\ Elements(Tail(w)) \subseteq Elements(w)
  <2>1. Head(w) = w[1] /\ 1 \in DOMAIN w
    BY <1>2
  <2>2. /\ DOMAIN Tail(w) = 1..Len(Tail(w)) /\ Len(Tail(w)) \in Nat
        /\ \A i \in 1..Len(Tail(w)) : Tail(w)[i] = w[i + 1] /\ i + 1 \in DOMAIN w
    BY <1>2
  <2> QED
    BY <2>1, <2>2 DEF Elements
<1>3. ASSUME NEW w \in Seq(Seq(S)), w # <<>>, Len(Head(w)) > 1
      PROVE  Elements(<<LeftHalf(Head(w)), RightHalf(Head(w))>> \o Tail(w)) \subseteq Elements(w)
  <2> DEFINE p == <<LeftHalf(Head(w)), RightHalf(Head(w))>>
             v == p \o Tail(w)
  <2>1. Head(w) \in Seq(S) /\ Tail(w) \in Seq(Seq(S))
    BY <1>3, HeadTailProperties
  <2>2. /\ p \in Seq(Seq(S)) /\ Len(p) = 2
        /\ \A i \in 1..2 : ToSet(p[i]) \subseteq ToSet(Head(w))
    <3>1. LeftHalf(Head(w)) \in Seq(S) /\ RightHalf(Head(w)) \in Seq(S)
      BY <1>3, <2>1, HalvesType
    <3>2. /\ ToSet(LeftHalf(Head(w))) \subseteq ToSet(Head(w))
          /\ ToSet(RightHalf(Head(w))) \subseteq ToSet(Head(w))
      BY <1>3, <2>1, HalvesElements
    <3> QED
      BY <3>1, <3>2
  <2> HIDE DEF p
  <2>3. /\ v \in Seq(Seq(S))
        /\ Len(v) = Len(p) + Len(Tail(w))
        /\ \A i \in 1..(Len(p) + Len(Tail(w))) :
              v[i] = IF i <= Len(p) THEN p[i] ELSE Tail(w)[i - Len(p)]
    BY <2>1, <2>2, ConcatProperties
  <2>4. DOMAIN v = 1..(2 + Len(Tail(w))) /\ Len(Tail(w)) \in Nat
    BY <2>1, <2>2, <2>3, LenProperties
  <2> HIDE DEF v
  <2>5. \A i \in DOMAIN v : ToSet(v[i]) \subseteq Elements(w)
    <3> SUFFICES ASSUME NEW i \in DOMAIN v PROVE ToSet(v[i]) \subseteq Elements(w)
      OBVIOUS
    <3>1. CASE i <= 2
      <4>1. v[i] = p[i]
        BY <2>2, <2>3, <2>4, <3>1
      <4>2. i \in 1..2
        BY <2>4, <3>1
      <4> QED
        BY <1>2, <1>3, <2>2, <4>1, <4>2
    <3>2. CASE i > 2
      <4>0. i \in 1..(Len(p) + Len(Tail(w))) /\ ~ (i <= Len(p)) /\ Len(p) = 2
        BY <2>2, <2>4, <3>2
      <4>1. v[i] = Tail(w)[i - 2]
        BY <2>3, <4>0
      <4>2. i - 2 \in 1..Len(Tail(w))
        BY <2>4, <3>2
      <4>3. DOMAIN Tail(w) = 1..Len(Tail(w))
        BY <2>1, LenProperties
      <4> QED
        BY <1>2, <1>3, <4>1, <4>2, <4>3 DEF Elements
    <3> QED
      BY <2>4, <3>1, <3>2
  <2> QED
    BY <2>5 DEF Elements, v, p
<1> QED
  BY <1>1, <1>2, <1>3

-----------------------------------------------------------------------------
(* Types.                                                                  *)

\* A handler looks for a batcher with at most one failed attempt behind it.
TriesBounded ==
    \A r \in Requests : pc[r] \in {"idle", "body", "entry", "try_send"} => tries[r] < 2

TypeInv == TypeOK /\ TriesBounded /\ BatchesBounded

LEMMA TypeInvInit == Init => TypeInv
BY BatchingAssumption, InvocationAssumption
   DEF Init, TypeInv, TypeOK, TriesBounded, BatchesBounded, SlotInit, SlotTypeOK, SlotValues,
       BatchingInit, BatchingTypeOK, InvocationInit, InvocationTypeOK, NoJob, Jobs

\* Handler steps, enqueue steps included, leave what tasks hold alone, except
\* that a request may be appended to a queue and a free task may start.
LEMMA HandlerStepType ==
    ASSUME TypeInv, NEW r \in Requests, HandlerStep(r), UNCHANGED invocationVars
    PROVE  TypeInv'
<1> USE DEF TypeInv, TypeOK, TriesBounded, BatchesBounded, SlotTypeOK, SlotValues, SentCodes,
            BatchingTypeOK, InvocationTypeOK, Admitted, Enqueueing, Replies,
            taskVars, handlerVars, invocationVars, Return
<1>1. CASE Admit(r)
  BY <1>1 DEF Admit
<1>2. CASE RefuseAdmission(r)
  BY <1>2 DEF RefuseAdmission
<1>3. CASE ReadBody(r)
  BY <1>3 DEF ReadBody
<1>4. CASE BodyTooLarge(r)
  BY <1>4 DEF BodyTooLarge
<1>5. CASE Disconnect(r)
  BY <1>5 DEF Disconnect
<1>6. CASE Receive(r)
  BY <1>6 DEF Receive
<1>7. CASE ReceiveDropped(r)
  BY <1>7 DEF ReceiveDropped
<1>8. CASE Timeout(r)
  BY <1>8 DEF Timeout
<1> QED
  BY <1>1, <1>2, <1>3, <1>4, <1>5, <1>6, <1>7, <1>8 DEF HandlerStep

LEMMA EnqueueStepType ==
    ASSUME TypeInv, NEW r \in Requests, EnqueueStep(r), UNCHANGED invocationVars
    PROVE  TypeInv'
<1> USE BatchingAssumption
    DEF TypeInv, TypeOK, TriesBounded, BatchesBounded, SlotTypeOK, SlotValues, SentCodes,
        BatchingTypeOK, InvocationTypeOK, Admitted, Enqueueing, Replies, Listening,
        taskVars, handlerVars, invocationVars, Return, DropAll, SendAll
<1>1. CASE FindBatcher(r)
  <2>1. target' \in [Requests -> Tasks \cup {NoTask}]
    BY <1>1 DEF FindBatcher
  <2> QED
    BY <1>1, <2>1 DEF FindBatcher
<1>2. ASSUME NEW t \in Tasks, SpawnBatcher(r, t)
      PROVE  TypeInv'
  BY <1>2 DEF SpawnBatcher
<1>3. CASE Enqueue(r)
  <2>1. queue' \in [Tasks -> Seq(Requests)]
    <3>1. Append(queue[target[r]], r) \in Seq(Requests) \/ target[r] \notin Tasks
      OBVIOUS
    <3> QED
      BY <1>3, <3>1 DEF Enqueue
  <2>2. target' \in [Requests -> Tasks \cup {NoTask}]
    BY <1>3 DEF Enqueue
  <2> QED
    BY <1>3, <2>1, <2>2 DEF Enqueue
<1>4. CASE QueueFull(r)
  <2>1. target' \in [Requests -> Tasks \cup {NoTask}]
    BY <1>4 DEF QueueFull
  <2>2. slot' \in [Requests -> SlotValues]
    BY <1>4 DEF QueueFull
  <2>3. pc' = [pc EXCEPT ![r] = "done"] /\ reply' = [reply EXCEPT ![r] = "429"] /\ permits' = permits + 1
    BY <1>4 DEF QueueFull
  <2> QED
    BY <1>4, <2>1, <2>2, <2>3 DEF QueueFull
<1>5. CASE FindClosed(r)
  <2>1. tries' \in [Requests -> 0..2]
    <3>1. pc[r] = "try_send" /\ tries[r] < 2 /\ tries[r] \in 0..2
      BY <1>5 DEF FindClosed
    <3> QED
      BY <1>5, <3>1 DEF FindClosed
  <2> QED
    BY <1>5, <2>1 DEF FindClosed
<1>6. CASE RemoveStale(r)
  <2>1. /\ batchers' \in [Keys -> Tasks \cup {NoTask}]
        /\ target' \in [Requests -> Tasks \cup {NoTask}]
        /\ UNCHANGED <<tries, taskVars>>
    BY <1>6 DEF RemoveStale
  <2>2. CASE tries[r] < 2
    <3>1. pc' = [pc EXCEPT ![r] = "entry"] /\ UNCHANGED <<slot, reply, permits>>
      BY <1>6, <2>2 DEF RemoveStale
    <3> QED
      BY <2>1, <2>2, <3>1
  <2>3. CASE tries[r] = 2
    <3>1. slot' \in [Requests -> SlotValues]
      BY <1>6, <2>3 DEF RemoveStale
    <3>2. pc' = [pc EXCEPT ![r] = "done"] /\ reply' = [reply EXCEPT ![r] = "429"]
          /\ permits' = permits + 1
      BY <1>6, <2>3 DEF RemoveStale
    <3> QED
      BY <2>1, <3>1, <3>2
  <2> QED
    BY <1>6, <2>2, <2>3 DEF RemoveStale
<1> QED
  BY <1>1, <1>2, <1>3, <1>4, <1>5, <1>6 DEF EnqueueStep

LEMMA TaskStepType ==
    ASSUME TypeInv, NEW t \in Tasks, TaskStep(t), UNCHANGED invocationVars
    PROVE  TypeInv'
<1> USE BatchingAssumption
    DEF TypeInv, TypeOK, TriesBounded, BatchesBounded, SlotTypeOK, SlotValues, SentCodes,
        BatchingTypeOK, InvocationTypeOK, Admitted, Enqueueing, Replies, Listening,
        taskVars, handlerVars, invocationVars, DropAll, SendAll
<1>1. CASE RecvFirst(t)
  BY <1>1 DEF RecvFirst
<1>2. CASE RecvMore(t)
  BY <1>2 DEF RecvMore
<1>3. CASE Flush(t)
  BY <1>3 DEF Flush
<1>4. CASE IdleTimeout(t)
  BY <1>4 DEF IdleTimeout
<1>5. CASE RecvNone(t)
  BY <1>5 DEF RecvNone
<1>6. CASE DropReceiver(t)
  BY <1>6 DEF DropReceiver
<1>7. CASE Unregister(t)
  BY <1>7 DEF Unregister
<1> QED
  BY <1>1, <1>2, <1>3, <1>4, <1>5, <1>6, <1>7 DEF TaskStep

LEMMA InvocationStepType ==
    ASSUME TypeInv, InvocationStep, UNCHANGED <<handlerVars, batchers, taskVars>>
    PROVE  TypeInv'
<1> USE InvocationAssumption
    DEF TypeInv, TypeOK, TriesBounded, BatchesBounded, SlotTypeOK, SlotValues, SentCodes,
        BatchingTypeOK, InvocationTypeOK, taskVars, handlerVars, Jobs, NoJob
<1>1. CASE DispatcherRecv
  BY <1>1 DEF DispatcherRecv
<1>2. CASE SpawnJob
  BY <1>2 DEF SpawnJob
<1>3. ASSUME NEW j \in running, JobResponds(j)
      PROVE  TypeInv'
  BY <1>3 DEF JobResponds, SendResponses
<1>4. ASSUME NEW j \in running, JobFails(j)
      PROVE  TypeInv'
  BY <1>4 DEF JobFails, SendAll
<1>5. \/ DispatcherRecv
      \/ SpawnJob
      \/ \E j \in running : JobResponds(j) \/ JobFails(j)
  BY Zenon DEF InvocationStep
<1> QED
  BY <1>1, <1>2, <1>3, <1>4, <1>5, Zenon

LEMMA FlushStepType ==
    ASSUME TypeInv, NEW t \in Tasks, FlushStep(t)
    PROVE  TypeInv'
<1> DEFINE w == work[t]
<1>1. stage[t] = "flush"
  BY DEF FlushStep, SplitSegment, FailOversized, SubmitSegment, RejectSegment, NextSegment
<1>2. /\ w \in Seq(Seq(Requests))
      /\ w # <<>>
      /\ MaxBatchSize \in Nat
      /\ \A i \in DOMAIN w : Len(w[i]) \in 1..MaxBatchSize
  BY <1>1, BatchingAssumption DEF TypeInv, TypeOK, BatchingTypeOK, BatchesBounded
<1> HIDE DEF w
<1>3. /\ Tail(w) \in Seq(Seq(Requests))
      /\ (Len(w) = 1) <=> (Tail(w) = <<>>)
      /\ \A i \in DOMAIN Tail(w) : Len(Tail(w)[i]) \in 1..MaxBatchSize
      /\ ToSet(Head(w)) \in Jobs
  BY <1>2, TailWorklist DEF Jobs, NoJob
<1>4. ASSUME NextSegment(t) PROVE BatchingTypeOK' /\ TriesBounded' /\ BatchesBounded'
  <2>1. /\ work' = [work EXCEPT ![t] = Tail(w)]
        /\ stage' = [stage EXCEPT ![t] = IF Len(w) = 1 THEN "idle" ELSE "flush"]
        /\ UNCHANGED <<handlerVars, batchers, owner, queue, batch>>
    BY <1>4 DEF NextSegment, w
  <2>2. BatchingTypeOK'
    BY <1>3, <2>1 DEF TypeInv, TypeOK, BatchingTypeOK, handlerVars, Listening
  <2>3. TriesBounded'
    BY <2>1 DEF TypeInv, TriesBounded, handlerVars
  <2>4. BatchesBounded'
    BY <1>1, <1>3, <2>1 DEF TypeInv, TypeOK, BatchingTypeOK, BatchesBounded
  <2> QED
    BY <2>2, <2>3, <2>4
<1>5. CASE SplitSegment(t)
  <2> DEFINE v == <<LeftHalf(Head(w)), RightHalf(Head(w))>> \o Tail(w)
  <2>1. /\ work' = [work EXCEPT ![t] = v]
        /\ Len(Head(w)) > 1
        /\ UNCHANGED <<slot, handlerVars, batchers, owner, stage, queue, batch, invocationVars>>
    BY <1>5 DEF SplitSegment, w
  <2>2. /\ v \in Seq(Seq(Requests))
        /\ v # <<>>
        /\ \A i \in DOMAIN v : Len(v[i]) \in 1..MaxBatchSize
    BY <1>2, <2>1, SplitWorklist
  <2> HIDE DEF v
  <2>3. BatchingTypeOK'
    BY <2>1, <2>2 DEF TypeInv, TypeOK, BatchingTypeOK, handlerVars
  <2>4. TriesBounded' /\ SlotTypeOK' /\ InvocationTypeOK'
    BY <2>1 DEF TypeInv, TypeOK, TriesBounded, handlerVars, SlotTypeOK, InvocationTypeOK, invocationVars
  <2>5. BatchesBounded'
    BY <1>1, <2>1, <2>2 DEF TypeInv, TypeOK, BatchingTypeOK, BatchesBounded
  <2> QED
    BY <2>3, <2>4, <2>5 DEF TypeInv, TypeOK
<1>6. CASE FailOversized(t)
  <2>1. SlotTypeOK' /\ InvocationTypeOK'
    BY <1>6 DEF FailOversized, SendAll, TypeInv, TypeOK, SlotTypeOK, SlotValues, SentCodes,
                InvocationTypeOK, invocationVars
  <2> QED
    BY <1>4, <1>6, <2>1 DEF FailOversized, TypeInv, TypeOK
<1>7. CASE SubmitSegment(t)
  <2>1. SubmitJob(ToSet(Head(w)))
    BY <1>7 DEF SubmitSegment, w
  <2>2. SlotTypeOK' /\ InvocationTypeOK'
    BY <1>3, <2>1 DEF SubmitJob, TypeInv, TypeOK, SlotTypeOK, InvocationTypeOK
  <2> QED
    BY <1>4, <1>7, <2>2 DEF SubmitSegment, TypeInv, TypeOK
<1>8. CASE RejectSegment(t)
  <2>1. SlotTypeOK' /\ InvocationTypeOK'
    BY <1>8 DEF RejectSegment, RejectJob, SendAll, TypeInv, TypeOK, SlotTypeOK, SlotValues,
                SentCodes, InvocationTypeOK, invocationVars
  <2> QED
    BY <1>4, <1>8, <2>1 DEF RejectSegment, TypeInv, TypeOK
<1> QED
  BY <1>5, <1>6, <1>7, <1>8 DEF FlushStep

\* A stuttering step, or Quiescent, changes nothing.
LEMMA StutterType ==
    ASSUME TypeInv, UNCHANGED vars
    PROVE  TypeInv'
BY DEF vars, handlerVars, taskVars, invocationVars, TypeInv, TypeOK, TriesBounded,
       BatchesBounded, SlotTypeOK, BatchingTypeOK, InvocationTypeOK

LEMMA TypeInvNext == TypeInv /\ [Next]_vars => TypeInv'
<1> SUFFICES ASSUME TypeInv, [Next]_vars PROVE TypeInv'
  OBVIOUS
<1>1. ASSUME NEW r \in Requests, HandlerStep(r) \/ EnqueueStep(r), UNCHANGED invocationVars
      PROVE  TypeInv'
  BY <1>1, HandlerStepType, EnqueueStepType
<1>2. ASSUME NEW t \in Tasks, TaskStep(t), UNCHANGED invocationVars
      PROVE  TypeInv'
  BY <1>2, TaskStepType
<1>3. ASSUME NEW t \in Tasks, FlushStep(t)
      PROVE  TypeInv'
  BY <1>3, FlushStepType
<1>4. CASE InvocationStep /\ UNCHANGED <<handlerVars, batchers, taskVars>>
  BY <1>4, InvocationStepType
<1>5. CASE Quiescent
  BY <1>5, StutterType DEF Quiescent
<1>6. CASE UNCHANGED vars
  BY <1>6, StutterType
<1> QED
  BY <1>1, <1>2, <1>3, <1>4, <1>5, <1>6 DEF Next

LEMMA TypeInvariant == Spec => []TypeInv
<1>1. Init => TypeInv
  BY TypeInvInit
<1>2. TypeInv /\ [Next]_vars => TypeInv'
  BY TypeInvNext
<1> QED
  BY <1>1, <1>2, PTL DEF Spec

\* Every variable keeps its type (handlers, registry, tasks, invocations).
THEOREM TypeCorrect == Spec => []TypeOK
<1>1. TypeInv => TypeOK
  BY DEF TypeInv
<1> QED
  BY <1>1, TypeInvariant, PTL

\* A collected batch has between one and maxBatchSize requests, and however
\* the planner splits it no segment, hence no invocation, is empty.
THEOREM BatchesStayBounded == Spec => []BatchesBounded
<1>1. TypeInv => BatchesBounded
  BY DEF TypeInv
<1> QED
  BY <1>1, TypeInvariant, PTL

-----------------------------------------------------------------------------
(* Admission.                                                              *)

AdmittedSet == {r \in Requests : pc[r] \in Admitted}

\* What a step may do to the admission semaphore: take a permit for a
\* request that arrives, give back that of a request that leaves, or neither.
LEMMA AdmissionEffect ==
    ASSUME TypeInv, [Next]_vars
    PROVE  \/ /\ permits' = permits /\ AdmittedSet' = AdmittedSet
           \/ \E r \in Requests \ AdmittedSet :
                permits' = permits - 1 /\ AdmittedSet' = AdmittedSet \cup {r}
           \/ \E r \in AdmittedSet :
                permits' = permits + 1 /\ AdmittedSet' = AdmittedSet \ {r}
<1> DEFINE Same  == permits' = permits /\ AdmittedSet' = AdmittedSet
           Take(r) == /\ r \notin AdmittedSet
                      /\ permits' = permits - 1
                      /\ AdmittedSet' = AdmittedSet \cup {r}
           Give(r) == /\ r \in AdmittedSet
                      /\ permits' = permits + 1
                      /\ AdmittedSet' = AdmittedSet \ {r}
<1>1. pc \in [Requests -> {"idle", "done"} \cup Admitted]
  BY DEF TypeInv, TypeOK, BatchingTypeOK
<1>2. ASSUME pc' = pc, permits' = permits PROVE Same
  BY <1>2 DEF AdmittedSet
<1>3. ASSUME NEW r \in Requests, Admit(r) PROVE Take(r)
  BY <1>1, <1>3 DEF Admit, AdmittedSet, Admitted, Enqueueing
<1>4. ASSUME NEW r \in Requests, pc[r] \in Admitted, permits' = permits + 1,
             pc' = [pc EXCEPT ![r] = "done"]
      PROVE  Give(r)
  BY <1>1, <1>4 DEF AdmittedSet, Admitted, Enqueueing
<1>5. ASSUME NEW r \in Requests, NEW p \in Admitted, pc[r] \in Admitted,
             permits' = permits, pc' = [pc EXCEPT ![r] = p]
      PROVE  Same
  BY <1>1, <1>5 DEF AdmittedSet
<1>6. ASSUME NEW r \in Requests, RefuseAdmission(r) PROVE Same
  BY <1>1, <1>6 DEF RefuseAdmission, AdmittedSet, Admitted, Enqueueing
<1> HIDE DEF Same, Take, Give
<1>7. ASSUME NEW r \in Requests, HandlerStep(r)
      PROVE  Same \/ Take(r) \/ Give(r)
  <2>1. CASE Admit(r) \/ RefuseAdmission(r)
    BY <1>3, <1>6, <2>1
  <2>2. CASE ReadBody(r)
    <3>1. "entry" \in Admitted /\ pc[r] \in Admitted
      BY <2>2 DEF ReadBody, Admitted, Enqueueing
    <3> QED
      BY <1>5, <2>2, <3>1 DEF ReadBody
  <2>3. CASE BodyTooLarge(r) \/ Disconnect(r) \/ Receive(r) \/ ReceiveDropped(r) \/ Timeout(r)
    <3>1. pc[r] \in Admitted /\ permits' = permits + 1 /\ pc' = [pc EXCEPT ![r] = "done"]
      BY <2>3 DEF BodyTooLarge, Disconnect, Receive, ReceiveDropped, Timeout, Return, Admitted
    <3> QED
      BY <1>4, <3>1
  <2> QED
    BY <1>7, <2>1, <2>2, <2>3 DEF HandlerStep
<1>8. ASSUME NEW r \in Requests, EnqueueStep(r)
      PROVE  Same \/ Give(r)
  <2>1. pc[r] \in Admitted
    BY <1>8 DEF EnqueueStep, FindBatcher, SpawnBatcher, Enqueue, QueueFull, FindClosed,
                RemoveStale, Admitted, Enqueueing
  <2>2. \/ permits' = permits /\ \E p \in Admitted : pc' = [pc EXCEPT ![r] = p]
        \/ permits' = permits + 1 /\ pc' = [pc EXCEPT ![r] = "done"]
    BY <1>8 DEF EnqueueStep, FindBatcher, SpawnBatcher, Enqueue, QueueFull, FindClosed,
                RemoveStale, Return, Admitted, Enqueueing
  <2> QED
    BY <1>4, <1>5, <2>1, <2>2
<1>9. ASSUME NEW t \in Tasks, TaskStep(t) \/ FlushStep(t)
      PROVE  Same
  <2>1. pc' = pc /\ permits' = permits
    BY <1>9 DEF TaskStep, RecvFirst, RecvMore, Flush, IdleTimeout, RecvNone, DropReceiver,
                Unregister, FlushStep, SplitSegment, FailOversized, SubmitSegment,
                RejectSegment, NextSegment, handlerVars
  <2> QED
    BY <1>2, <2>1
<1>10. ASSUME UNCHANGED handlerVars PROVE Same
  BY <1>2, <1>10 DEF handlerVars
<1>11. Same \/ \E r \in Requests : Take(r) \/ Give(r)
  <2>1. CASE \E r \in Requests : HandlerStep(r) \/ EnqueueStep(r)
    BY <1>7, <1>8, <2>1
  <2>2. CASE \E t \in Tasks : TaskStep(t) \/ FlushStep(t)
    BY <1>9, <2>2
  <2>3. CASE UNCHANGED handlerVars
    BY <1>10, <2>3
  <2> QED
    BY <2>1, <2>2, <2>3 DEF Next, Quiescent, vars
<1> QED
  BY <1>11 DEF Same, Take, Give, AdmittedSet

\* No permit of the admission semaphore is lost or released twice, so at
\* most MaxInflightRequests handlers are between admission and return.
THEOREM AdmissionIsConserved == Spec => []AdmissionConserved
<1> DEFINE Inv == /\ IsFiniteSet(AdmittedSet)
                  /\ permits \in Int
                  /\ permits + Cardinality(AdmittedSet) = MaxInflightRequests
<1>1. Init => Inv
  <2> SUFFICES ASSUME Init PROVE Inv
    OBVIOUS
  <2>1. AdmittedSet = {} /\ permits = MaxInflightRequests
    BY DEF Init, BatchingInit, AdmittedSet, Admitted, Enqueueing
  <2> QED
    BY <2>1, FS_EmptySet, BatchingAssumption
<1>2. TypeInv /\ Inv /\ [Next]_vars => Inv'
  <2> SUFFICES ASSUME TypeInv, Inv, [Next]_vars PROVE Inv'
    OBVIOUS
  <2>1. Cardinality(AdmittedSet) \in Nat
    BY FS_CardinalityType
  <2>2. CASE permits' = permits /\ AdmittedSet' = AdmittedSet
    BY <2>2
  <2>3. ASSUME NEW r \in Requests \ AdmittedSet, permits' = permits - 1,
               AdmittedSet' = AdmittedSet \cup {r}
        PROVE  Inv'
    <3>1. /\ IsFiniteSet(AdmittedSet \cup {r})
          /\ Cardinality(AdmittedSet \cup {r}) = Cardinality(AdmittedSet) + 1
      BY <2>3, FS_AddElement
    <3> QED
      BY <2>1, <2>3, <3>1
  <2>4. ASSUME NEW r \in AdmittedSet, permits' = permits + 1,
               AdmittedSet' = AdmittedSet \ {r}
        PROVE  Inv'
    <3>1. /\ IsFiniteSet(AdmittedSet \ {r})
          /\ Cardinality(AdmittedSet \ {r}) = Cardinality(AdmittedSet) - 1
      BY <2>4, FS_RemoveElement
    <3> QED
      BY <2>1, <2>4, <3>1
  <2> QED
    BY <2>2, <2>3, <2>4, AdmissionEffect
<1>3. Inv => AdmissionConserved
  BY DEF AdmissionConserved, AdmittedSet
<1> QED
  BY <1>1, <1>2, <1>3, TypeInvariant, PTL DEF Spec

-----------------------------------------------------------------------------
(* Sequences without repetition.                                           *)

NoRepeat(s) == \A i, j \in DOMAIN s : s[i] = s[j] => i = j

\* Appending a new element, and taking the first one.
LEMMA NoRepeatFacts ==
    ASSUME NEW S, NEW s \in Seq(S), NoRepeat(s)
    PROVE  /\ \A x \in S : x \notin ToSet(s) => NoRepeat(Append(s, x))
           /\ s # <<>> => /\ NoRepeat(Tail(s))
                          /\ Head(s) \in ToSet(s)
                          /\ ToSet(Tail(s)) = ToSet(s) \ {Head(s)}
<1>0. DOMAIN s = 1..Len(s) /\ Len(s) \in Nat
  OBVIOUS
<1>1. ASSUME NEW x \in S, x \notin ToSet(s) PROVE NoRepeat(Append(s, x))
  <2>1. /\ DOMAIN Append(s, x) = 1..(Len(s) + 1)
        /\ \A i \in 1..Len(s) : Append(s, x)[i] = s[i] /\ s[i] # x
        /\ Append(s, x)[Len(s) + 1] = x
    BY <1>0, <1>1, AppendProperties DEF ToSet
  <2>2. \A i \in 1..(Len(s) + 1) : i \in 1..Len(s) \/ i = Len(s) + 1
    BY <1>0
  <2> QED
    BY <1>0, <2>1, <2>2 DEF NoRepeat
<1>2. ASSUME s # <<>>
      PROVE  /\ NoRepeat(Tail(s)) /\ Head(s) \in ToSet(s)
             /\ ToSet(Tail(s)) = ToSet(s) \ {Head(s)}
  <2>1. /\ DOMAIN Tail(s) = 1..(Len(s) - 1) /\ Head(s) = s[1] /\ 1 \in DOMAIN s
        /\ \A i \in 1..(Len(s) - 1) : Tail(s)[i] = s[i + 1] /\ i + 1 \in DOMAIN s /\ i + 1 # 1
    BY <1>0, <1>2
  <2>2. \A i \in DOMAIN s : i = 1 \/ (i - 1 \in 1..(Len(s) - 1) /\ Tail(s)[i - 1] = s[i])
    BY <1>0, <2>1
  <2>3. NoRepeat(Tail(s))
    BY <1>0, <2>1 DEF NoRepeat
  <2>4. ASSUME NEW x \in ToSet(Tail(s)) PROVE x \in ToSet(s) \ {Head(s)}
    BY <2>1 DEF ToSet, NoRepeat
  <2>5. ASSUME NEW x \in ToSet(s) \ {Head(s)} PROVE x \in ToSet(Tail(s))
    <3>1. PICK i \in DOMAIN s : x = s[i]
      BY DEF ToSet
    <3>2. i # 1
      BY <2>1, <3>1
    <3>3. i - 1 \in DOMAIN Tail(s) /\ Tail(s)[i - 1] = x
      BY <2>1, <2>2, <3>1, <3>2
    <3> QED
      BY <3>3 DEF ToSet
  <2> QED
    BY <2>1, <2>3, <2>4, <2>5 DEF ToSet
<1> QED
  BY <1>1, <1>2

\* The halves of a sequence share its elements out.
LEMMA HalvesShare ==
    ASSUME NEW S, NEW s \in Seq(S), Len(s) > 1, NoRepeat(s)
    PROVE  /\ NoRepeat(LeftHalf(s)) /\ NoRepeat(RightHalf(s))
           /\ ToSet(LeftHalf(s)) \cap ToSet(RightHalf(s)) = {}
           /\ ToSet(LeftHalf(s)) \cup ToSet(RightHalf(s)) = ToSet(s)
<1> DEFINE m == Len(s) \div 2
           l == LeftHalf(s)
           r == RightHalf(s)
<1>1. /\ Len(s) \in Nat /\ DOMAIN s = 1..Len(s)
      /\ m \in Nat
      /\ m \in 1..(Len(s) - 1)
  OBVIOUS
<1>2. \A i \in 1..Len(s) : s[i] \in S
  BY ElementOfSeq
<1> HIDE DEF m
<1>3. DOMAIN l = 1..m /\ \A i \in 1..m : l[i] = s[i] /\ i \in 1..Len(s)
  <2>1. /\ SubSeq(s, 1, m) \in Seq(S) /\ Len(SubSeq(s, 1, m)) = IF 1 <= m THEN m - 1 + 1 ELSE 0
        /\ \A i \in 1 .. m - 1 + 1 : SubSeq(s, 1, m)[i] = s[1 + i - 1]
    BY <1>1, <1>2, SubSeqProperties
  <2>2. SubSeq(s, 1, m) = l
    BY DEF LeftHalf, m
  <2> QED
    BY <1>1, <2>1, <2>2
<1>4. /\ DOMAIN r = 1..(Len(s) - m)
      /\ \A i \in 1..(Len(s) - m) : r[i] = s[m + i] /\ m + i \in 1..Len(s)
  <2>1. /\ SubSeq(s, m + 1, Len(s)) \in Seq(S)
        /\ Len(SubSeq(s, m + 1, Len(s))) = IF m + 1 <= Len(s) THEN Len(s) - (m + 1) + 1 ELSE 0
        /\ \A i \in 1 .. Len(s) - (m + 1) + 1 : SubSeq(s, m + 1, Len(s))[i] = s[m + 1 + i - 1]
    BY <1>1, <1>2, SubSeqProperties
  <2>2. SubSeq(s, m + 1, Len(s)) = r
    BY DEF RightHalf, m
  <2>3. /\ Len(s) - (m + 1) + 1 = Len(s) - m /\ m + 1 <= Len(s)
        /\ \A i \in 1..(Len(s) - m) : m + 1 + i - 1 = m + i /\ m + i \in 1..Len(s)
    BY <1>1
  <2>4. r \in Seq(S) /\ Len(r) = Len(s) - m
    BY <2>1, <2>2, <2>3
  <2>5. DOMAIN r = 1..(Len(s) - m)
    BY <2>4, LenProperties
  <2>6. \A i \in 1..(Len(s) - m) : r[i] = s[m + i]
    BY <2>1, <2>2, <2>3
  <2> QED
    BY <2>3, <2>5, <2>6
<1>5. \A i \in DOMAIN s : i \in 1..m \/ (i - m \in 1..(Len(s) - m) /\ m + (i - m) = i)
  BY <1>1
<1> HIDE DEF l, r
<1>6. NoRepeat(l) /\ NoRepeat(r)
  <2>1. NoRepeat(l)
    BY <1>1, <1>3 DEF NoRepeat
  <2>2. ASSUME NEW i \in 1..(Len(s) - m), NEW j \in 1..(Len(s) - m), r[i] = r[j] PROVE i = j
    <3>1. s[m + i] = s[m + j] /\ m + i \in DOMAIN s /\ m + j \in DOMAIN s
      BY <1>1, <1>4, <2>2
    <3>2. m + i = m + j
      BY <3>1, Zenon DEF NoRepeat
    <3> QED
      BY <1>1, <3>2
  <2> QED
    BY <1>4, <2>1, <2>2 DEF NoRepeat
<1>7. ToSet(l) \cap ToSet(r) = {}
  <2> SUFFICES ASSUME NEW i \in 1..m, NEW j \in 1..(Len(s) - m), l[i] = r[j] PROVE FALSE
    BY <1>3, <1>4 DEF ToSet
  <2>1. i \in DOMAIN s /\ m + j \in DOMAIN s /\ s[i] = s[m + j]
    BY <1>1, <1>3, <1>4
  <2>2. i # m + j
    BY <1>1
  <2> QED
    BY <2>1, <2>2 DEF NoRepeat
<1>8. ToSet(l) \cup ToSet(r) = ToSet(s)
  <2>1. \A x \in ToSet(l) \cup ToSet(r) : x \in ToSet(s)
    BY <1>1, <1>3, <1>4 DEF ToSet
  <2>2. \A x \in ToSet(s) : x \in ToSet(l) \cup ToSet(r)
    BY <1>3, <1>4, <1>5 DEF ToSet
  <2> QED
    BY <2>1, <2>2
<1> QED
  BY <1>6, <1>7, <1>8 DEF l, r

\* No request is twice in the worklist w.
Flat(w) ==
    /\ \A n \in DOMAIN w : NoRepeat(w[n])
    /\ \A m, n \in DOMAIN w : m # n => ToSet(w[m]) \cap ToSet(w[n]) = {}

\* Advancing a worklist takes the first segment out; splitting it changes
\* nothing about who is in it.
LEMMA FlatFacts ==
    ASSUME NEW S, NEW w \in Seq(Seq(S)), w # <<>>, Flat(w)
    PROVE  /\ NoRepeat(Head(w)) /\ ToSet(Head(w)) \subseteq Elements(w)
           /\ Flat(Tail(w)) /\ Elements(Tail(w)) = Elements(w) \ ToSet(Head(w))
           /\ Len(Head(w)) > 1 =>
                LET v == <<LeftHalf(Head(w)), RightHalf(Head(w))>> \o Tail(w)
                IN  Flat(v) /\ Elements(v) = Elements(w)
<1> DEFINE h == Head(w)
           z == Tail(w)
           k == Len(w) - 1
<1>1. /\ h \in Seq(S) /\ h = w[1] /\ 1 \in DOMAIN w
      /\ z \in Seq(Seq(S)) /\ Len(z) = k /\ DOMAIN z = 1..k /\ k \in Nat
      /\ \A i \in 1..k : z[i] = w[i + 1] /\ i + 1 \in DOMAIN w /\ i + 1 # 1
  OBVIOUS
<1>2. \A i \in DOMAIN w : i = 1 \/ (i - 1 \in 1..k /\ z[i - 1] = w[i])
  OBVIOUS
<1> HIDE DEF h, z, k
<1>3. NoRepeat(h) /\ ToSet(h) \subseteq Elements(w)
  BY <1>1 DEF Flat, Elements
<1>4. Flat(z)
  <2>1. \A n \in DOMAIN z : NoRepeat(z[n])
    BY <1>1 DEF Flat
  <2>2. ASSUME NEW m \in 1..k, NEW n \in 1..k, m # n
        PROVE  ToSet(z[m]) \cap ToSet(z[n]) = {}
    <3>1. m + 1 \in DOMAIN w /\ n + 1 \in DOMAIN w /\ m + 1 # n + 1
      BY <1>1, <2>2
    <3>2. z[m] = w[m + 1] /\ z[n] = w[n + 1]
      BY <1>1
    <3> QED
      BY <3>1, <3>2, Zenon DEF Flat
  <2> QED
    BY <1>1, <2>1, <2>2 DEF Flat
<1>5. Elements(z) = Elements(w) \ ToSet(h)
  <2>1. ASSUME NEW x \in Elements(z) PROVE x \in Elements(w) /\ x \notin ToSet(h)
    <3>1. PICK i \in 1..k : x \in ToSet(z[i])
      BY <1>1 DEF Elements
    <3>2. x \in ToSet(w[i + 1]) /\ i + 1 \in DOMAIN w /\ i + 1 # 1
      BY <1>1, <3>1
    <3> QED
      BY <1>1, <3>2 DEF Elements, Flat
  <2>2. ASSUME NEW x \in Elements(w), x \notin ToSet(h) PROVE x \in Elements(z)
    <3>1. PICK i \in DOMAIN w : x \in ToSet(w[i])
      BY DEF Elements
    <3>2. i - 1 \in 1..k /\ z[i - 1] = w[i]
      BY <1>1, <1>2, <2>2, <3>1
    <3> QED
      BY <1>1, <3>1, <3>2 DEF Elements
  <2> QED
    BY <2>1, <2>2
<1>6. ASSUME Len(h) > 1
      PROVE  LET v == <<LeftHalf(h), RightHalf(h)>> \o z IN Flat(v) /\ Elements(v) = Elements(w)
  <2> DEFINE p == <<LeftHalf(h), RightHalf(h)>>
             v == p \o z
  <2>1. /\ NoRepeat(LeftHalf(h)) /\ NoRepeat(RightHalf(h))
        /\ ToSet(LeftHalf(h)) \cap ToSet(RightHalf(h)) = {}
        /\ ToSet(LeftHalf(h)) \cup ToSet(RightHalf(h)) = ToSet(h)
    BY <1>1, <1>3, <1>6, HalvesShare
  <2>2. /\ p \in Seq(Seq(S)) /\ Len(p) = 2
        /\ p[1] = LeftHalf(h) /\ p[2] = RightHalf(h)
    BY <1>1, <1>6, HalvesType
  <2> HIDE DEF p
  <2>3. /\ v \in Seq(Seq(S)) /\ Len(v) = 2 + k
        /\ \A i \in 1..(2 + k) : v[i] = IF i <= 2 THEN p[i] ELSE z[i - 2]
    <3>1. /\ v \in Seq(Seq(S))
          /\ Len(v) = Len(p) + Len(z)
          /\ \A i \in 1..(Len(p) + Len(z)) :
                v[i] = IF i <= Len(p) THEN p[i] ELSE z[i - Len(p)]
      BY <1>1, <2>2, ConcatProperties
    <3> QED
      BY <1>1, <2>2, <3>1
  <2>4. DOMAIN v = 1..(2 + k)
    BY <2>3, LenProperties
  <2> HIDE DEF v
  <2>5. /\ v[1] = p[1] /\ v[2] = p[2] /\ 1 \in DOMAIN v /\ 2 \in DOMAIN v
        /\ \A i \in 1..k : v[i + 2] = z[i] /\ i + 2 \in DOMAIN v
        /\ \A i \in DOMAIN v : i = 1 \/ i = 2 \/ (i - 2 \in 1..k /\ v[i] = z[i - 2])
    BY <1>1, <2>3, <2>4
  <2>6. \A i \in 1..k : ToSet(z[i]) \cap ToSet(h) = {}
    BY <1>1 DEF Flat
  <2>7. \A n \in DOMAIN v : NoRepeat(v[n])
    BY <1>1, <1>4, <2>1, <2>2, <2>5 DEF Flat
  <2>8. ASSUME NEW m \in DOMAIN v, NEW n \in DOMAIN v, m # n
        PROVE  ToSet(v[m]) \cap ToSet(v[n]) = {}
    <3>1. CASE m \in {1, 2} /\ n \in {1, 2}
      BY <2>1, <2>2, <2>5, <2>8, <3>1
    <3>2. ASSUME NEW a \in {1, 2}, NEW b \in 1..k
          PROVE  ToSet(v[a]) \cap ToSet(z[b]) = {}
      BY <2>1, <2>2, <2>5, <2>6
    <3>3. CASE m \notin {1, 2} /\ n \notin {1, 2}
      <4>1. /\ m - 2 \in 1..k /\ n - 2 \in 1..k /\ m - 2 # n - 2
            /\ v[m] = z[m - 2] /\ v[n] = z[n - 2]
        BY <2>4, <2>5, <2>8, <3>3
      <4> QED
        BY <1>1, <1>4, <4>1 DEF Flat
    <3> QED
      BY <2>5, <3>1, <3>2, <3>3
  <2>9. Elements(v) = Elements(w)
    <3>1. ASSUME NEW x \in Elements(v) PROVE x \in Elements(w)
      <4>1. PICK i \in DOMAIN v : x \in ToSet(v[i])
        BY DEF Elements
      <4>2. x \in ToSet(h) \/ x \in Elements(z)
        <5>1. CASE i = 1 \/ i = 2
          BY <2>1, <2>2, <2>5, <4>1, <5>1
        <5>2. CASE i - 2 \in 1..k /\ v[i] = z[i - 2]
          BY <1>1, <4>1, <5>2 DEF Elements
        <5> QED
          BY <2>5, <5>1, <5>2
      <4> QED
        BY <1>3, <1>5, <4>2
    <3>2. ASSUME NEW x \in Elements(w) PROVE x \in Elements(v)
      <4>1. CASE x \in ToSet(h)
        BY <2>1, <2>2, <2>5, <4>1 DEF Elements
      <4>2. CASE x \in Elements(z)
        <5>1. PICK i \in 1..k : x \in ToSet(z[i])
          BY <1>1, <4>2 DEF Elements
        <5> QED
          BY <2>5, <5>1 DEF Elements
      <4> QED
        BY <1>5, <3>2, <4>1, <4>2
    <3> QED
      BY <3>1, <3>2
  <2> QED
    BY <2>7, <2>8, <2>9 DEF Flat, v, p
<1> QED
  BY <1>3, <1>4, <1>5, <1>6 DEF h, z

-----------------------------------------------------------------------------
(* The contract.                                                           *)

\* What a step may do to the handler of r, as its client sees it.
Arrives(r) ==
    /\ pc[r] = "idle" /\ permits > 0
    /\ pc' = [pc EXCEPT ![r] = "body"] /\ reply' = reply

IsRefused(r) ==
    /\ pc[r] = "idle" /\ permits = 0
    /\ pc' = [pc EXCEPT ![r] = "done"] /\ reply' = [reply EXCEPT ![r] = "429"]

Proceeds(r) ==
    /\ pc[r] \in Admitted
    /\ \E p \in Admitted : pc' = [pc EXCEPT ![r] = p]
    /\ reply' = reply

IsAnswered(r) ==
    /\ pc[r] \in Admitted
    /\ pc' = [pc EXCEPT ![r] = "done"]
    /\ \E code \in Replies : reply' = [reply EXCEPT ![r] = code]

Leaves(r) ==
    /\ pc[r] \in Admitted
    /\ pc' = [pc EXCEPT ![r] = "done"] /\ reply' = reply

LEMMA StepKinds ==
    ASSUME TypeInv, [Next]_vars
    PROVE  \/ pc' = pc /\ reply' = reply
           \/ \E r \in Requests :
                \/ Arrives(r) \/ IsRefused(r) \/ Proceeds(r) \/ IsAnswered(r) \/ Leaves(r)
<1>1. ASSUME NEW r \in Requests, HandlerStep(r)
      PROVE  Arrives(r) \/ IsRefused(r) \/ Proceeds(r) \/ IsAnswered(r) \/ Leaves(r)
  <2>1. CASE Admit(r) \/ RefuseAdmission(r)
    BY <2>1 DEF Admit, RefuseAdmission, Arrives, IsRefused
  <2>2. CASE ReadBody(r)
    BY <2>2 DEF ReadBody, Proceeds, Admitted, Enqueueing
  <2>3. CASE Disconnect(r)
    BY <2>3 DEF Disconnect, Leaves, Admitted
  <2>4. CASE BodyTooLarge(r) \/ Receive(r) \/ ReceiveDropped(r) \/ Timeout(r)
    <3>1. pc[r] \in Admitted /\ \E code \in Replies : Return(r, code)
      BY <2>4 DEF BodyTooLarge, Receive, ReceiveDropped, Timeout, Admitted, Replies, SentCodes
    <3> QED
      BY <3>1 DEF Return, IsAnswered
  <2> QED
    BY <1>1, <2>1, <2>2, <2>3, <2>4 DEF HandlerStep
<1>2. ASSUME NEW r \in Requests, EnqueueStep(r) PROVE Proceeds(r) \/ IsAnswered(r)
  <2>1. CASE FindBatcher(r) \/ (\E t \in Tasks : SpawnBatcher(r, t)) \/ Enqueue(r) \/ FindClosed(r)
    BY <2>1 DEF FindBatcher, SpawnBatcher, Enqueue, FindClosed, Proceeds, Admitted, Enqueueing
  <2>2. CASE QueueFull(r)
    BY <2>2 DEF QueueFull, Return, IsAnswered, Admitted, Enqueueing, Replies
  <2>3. CASE RemoveStale(r)
    BY <2>3 DEF RemoveStale, Return, Proceeds, IsAnswered, Admitted, Enqueueing, Replies
  <2> QED
    BY <1>2, <2>1, <2>2, <2>3 DEF EnqueueStep
<1>3. ASSUME NEW t \in Tasks, TaskStep(t) \/ FlushStep(t) PROVE UNCHANGED handlerVars
  BY <1>3, Zenon DEF TaskStep, RecvFirst, RecvMore, Flush, IdleTimeout, RecvNone, DropReceiver,
                     Unregister, FlushStep, SplitSegment, FailOversized, SubmitSegment,
                     RejectSegment, NextSegment
<1>4. (UNCHANGED handlerVars) => pc' = pc /\ reply' = reply
  BY DEF handlerVars
<1> QED
  BY <1>1, <1>2, <1>3, <1>4 DEF Next, Quiescent, vars

\* A handler that has not returned has not answered, and the free permits
\* are those that no handler holds.
HandlerInv ==
    /\ \A r \in Requests : pc[r] # "done" => reply[r] = "none"
    /\ AdmissionConserved

LEMMA HandlerInvariant == Spec => []HandlerInv
<1> DEFINE Early == \A r \in Requests : pc[r] # "done" => reply[r] = "none"
<1>1. Init => Early
  BY DEF Init, BatchingInit
<1>2. TypeInv /\ Early /\ [Next]_vars => Early'
  <2> SUFFICES ASSUME TypeInv, Early, [Next]_vars PROVE Early'
    OBVIOUS
  <2>1. pc \in [Requests -> {"idle", "done"} \cup Admitted] /\ DOMAIN reply = Requests
    BY DEF TypeInv, TypeOK, BatchingTypeOK
  <2>2. ASSUME NEW r \in Requests, Arrives(r) \/ Proceeds(r) PROVE Early'
    BY <2>1, <2>2 DEF Arrives, Proceeds, Admitted, Enqueueing
  <2>3. ASSUME NEW r \in Requests, IsRefused(r) \/ IsAnswered(r) \/ Leaves(r) PROVE Early'
    BY <2>1, <2>3 DEF IsRefused, IsAnswered, Leaves
  <2>4. CASE pc' = pc /\ reply' = reply
    BY <2>4
  <2> QED
    BY <2>2, <2>3, <2>4, StepKinds
<1>3. Early /\ AdmissionConserved => HandlerInv
  BY DEF HandlerInv
<1> QED
  BY <1>1, <1>2, <1>3, TypeInvariant, AdmissionIsConserved, PTL DEF Spec

LEMMA ContractStep ==
    ASSUME TypeInv, HandlerInv, [Next]_vars
    PROVE  [Contract!Next]_(Contract!contractVars)
<1> DEFINE phase == [r \in Requests |-> Phase(r)]
<1>0. /\ pc \in [Requests -> {"idle", "done"} \cup Admitted] /\ DOMAIN reply = Requests
      /\ permits \in Nat /\ "idle" \notin Admitted /\ "done" \notin Admitted /\ "body" \in Admitted
  BY DEF TypeInv, TypeOK, BatchingTypeOK, Admitted, Enqueueing
<1>1. \A r \in Requests :
         /\ pc[r] = "idle" => Phase(r) = "new"
         /\ pc[r] \in Admitted => Phase(r) = "admitted"
         /\ pc[r] = "done" /\ reply[r] # "none" => Phase(r) = "replied"
         /\ pc[r] = "done" /\ reply[r] = "none" => Phase(r) = "left"
  BY <1>0 DEF Phase
<1>2. \A r \in Requests :
         /\ pc'[r] = "idle" => Phase(r)' = "new"
         /\ pc'[r] \in Admitted => Phase(r)' = "admitted"
         /\ pc'[r] = "done" /\ reply'[r] # "none" => Phase(r)' = "replied"
         /\ pc'[r] = "done" /\ reply'[r] = "none" => Phase(r)' = "left"
  BY <1>0 DEF Phase
<1>3. /\ permits + Contract!Cardinality(Contract!Served) = MaxInflightRequests
      /\ Contract!Cardinality(Contract!Served) \in Nat /\ MaxInflightRequests \in Nat
  <2>1. Contract!Served = AdmittedSet
    BY <1>0, <1>1 DEF Contract!Served, AdmittedSet
  <2>2. Contract!Cardinality(AdmittedSet) = Cardinality(AdmittedSet)
    BY DEF Contract!Cardinality, Cardinality
  <2>3. IsFiniteSet(AdmittedSet)
    BY BatchingAssumption, FS_Subset DEF AdmittedSet
  <2> QED
    BY <2>1, <2>2, <2>3, FS_CardinalityType, BatchingAssumption
       DEF HandlerInv, AdmissionConserved, AdmittedSet
<1>4. ASSUME NEW r \in Requests, \A s \in Requests \ {r} : Phase(s)' = Phase(s)
      PROVE  phase' = [phase EXCEPT ![r] = Phase(r)']
  BY <1>4
<1>5. ASSUME NEW r \in Requests, NEW p, pc' = [pc EXCEPT ![r] = p],
             reply' = reply \/ \E code : reply' = [reply EXCEPT ![r] = code]
      PROVE  \A s \in Requests \ {r} : Phase(s)' = Phase(s)
  BY <1>0, <1>5 DEF Phase
<1>6. ASSUME NEW r \in Requests, Arrives(r) PROVE Contract!Arrive(r)
  <2>1. phase[r] = "new" /\ Phase(r)' = "admitted"
    BY <1>0, <1>1, <1>2, <1>6 DEF Arrives
  <2>2. phase' = [phase EXCEPT ![r] = "admitted"] /\ reply' = reply
    BY <1>4, <1>5, <1>6, <2>1 DEF Arrives
  <2>3. Contract!Cardinality(Contract!Served) < MaxInflightRequests
    BY <1>0, <1>3, <1>6 DEF Arrives
  <2> QED
    BY <2>1, <2>2, <2>3 DEF Contract!Arrive
<1>7. ASSUME NEW r \in Requests, IsRefused(r) PROVE Contract!Refuse(r)
  <2>1. phase[r] = "new" /\ Phase(r)' = "replied"
    BY <1>0, <1>1, <1>2, <1>7 DEF IsRefused
  <2>2. phase' = [phase EXCEPT ![r] = "replied"] /\ reply' = [reply EXCEPT ![r] = "429"]
    BY <1>4, <1>5, <1>7, <2>1 DEF IsRefused
  <2>3. Contract!Cardinality(Contract!Served) = MaxInflightRequests
    BY <1>0, <1>3, <1>7 DEF IsRefused
  <2> QED
    BY <2>1, <2>2, <2>3 DEF Contract!Refuse
<1>8. ASSUME NEW r \in Requests, IsAnswered(r) PROVE Contract!Answer(r)
  <2>1. phase[r] = "admitted" /\ Phase(r)' = "replied"
    BY <1>0, <1>1, <1>2, <1>8 DEF IsAnswered, Replies
  <2>2. phase' = [phase EXCEPT ![r] = "replied"]
    BY <1>4, <1>5, <1>8, <2>1 DEF IsAnswered
  <2> QED
    BY <1>8, <2>1, <2>2 DEF Contract!Answer, IsAnswered
<1>9. ASSUME NEW r \in Requests, Leaves(r) PROVE Contract!Leave(r)
  <2>1. phase[r] = "admitted" /\ Phase(r)' = "left"
    BY <1>0, <1>1, <1>2, <1>9 DEF Leaves, HandlerInv
  <2>2. phase' = [phase EXCEPT ![r] = "left"] /\ reply' = reply
    BY <1>4, <1>5, <1>9, <2>1 DEF Leaves
  <2> QED
    BY <2>1, <2>2 DEF Contract!Leave
<1>10. ASSUME NEW r \in Requests, Proceeds(r) PROVE phase' = phase /\ reply' = reply
  <2>1. Phase(r) = "admitted" /\ Phase(r)' = "admitted"
    BY <1>0, <1>1, <1>2, <1>10 DEF Proceeds
  <2>2. phase' = [phase EXCEPT ![r] = "admitted"] /\ reply' = reply
    BY <1>4, <1>5, <1>10, <2>1 DEF Proceeds
  <2> QED
    BY <2>1, <2>2
<1>11. CASE pc' = pc /\ reply' = reply
  BY <1>11 DEF Phase, Contract!contractVars
<1> QED
  <2>1. ASSUME NEW r \in Requests, Proceeds(r) PROVE UNCHANGED Contract!contractVars
    BY <1>10, <2>1 DEF Contract!contractVars
  <2> QED
    BY <1>6, <1>7, <1>8, <1>9, <1>11, <2>1, StepKinds DEF Contract!Next

\* The buffered path keeps the safety of the contract with the clients (the
\* safety part of ContractSpec) whatever tasks, queues and invocations do:
\* a request is refused on arrival only at the limit, and gets one answer.
THEOREM GatewayImplementsContract == Spec => Contract!Spec
<1>1. Init => Contract!Init
  <2> SUFFICES ASSUME Init PROVE Contract!Init
    OBVIOUS
  <2>1. pc = [r \in Requests |-> "idle"] /\ reply = [r \in Requests |-> "none"]
    BY DEF Init, BatchingInit
  <2>2. \A r \in Requests : Phase(r) = "new"
    BY <2>1 DEF Phase, Admitted, Enqueueing
  <2> QED
    BY <2>1, <2>2 DEF Contract!Init
<1>2. TypeInv /\ HandlerInv /\ [Next]_vars => [Contract!Next]_(Contract!contractVars)
  BY ContractStep
<1> QED
  BY <1>1, <1>2, TypeInvariant, HandlerInvariant, PTL DEF Spec, Contract!Spec

=============================================================================
