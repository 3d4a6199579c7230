---------------------------- MODULE AdapterProofs ----------------------------
(***************************************************************************)
(* Theorems about Adapter: the types, backpressure, and the answers of the *)
(* items, for every size of the batch, pool and buffer.                    *)
(***************************************************************************)
EXTENDS Adapter, FiniteSetTheorems, TLAPS

\* An item is taken when the index has passed it.
TakenInOrder == \A i \in Items : stage[i] = "new" <=> i >= next

\* A response that is over without a failure was ended by the last item.
EndsLast == over /\ dead = {} => next > BatchSize /\ Running = {}

\* The pool is never larger than the concurrency.
PoolBounded == Cardinality(Running) <= Limit

\* Each worker that waits wrote at most one line past the mark.
OneLineEach == buffered <= HighWater - 1 + Cardinality(waits)

PoolInv == TypeOK /\ PoolBounded /\ OneLineEach

USE AdapterAssumption DEF AdapterAssumption

LEMMA ItemsFinite == IsFiniteSet(Items) /\ \A S \in SUBSET Items : IsFiniteSet(S)
  <1>1. IsFiniteSet(Items)
    BY FS_Interval DEF Items
  <1>2. QED
    BY <1>1, FS_Subset

\* The types, flags and data apart.
Flags == needDrain \in BOOLEAN /\ parked \in BOOLEAN /\ over \in BOOLEAN

Data ==
    /\ next \in 1..(BatchSize + 1)
    /\ stage \in [Items -> {"new", "handler", "body", "done"}]
    /\ lines \in [Items -> Seq(Records)]
    /\ waits \subseteq Items
    /\ dead \subseteq Items
    /\ lapsed \subseteq Items
    /\ buffered \in Nat

LEMMA FlagsStep == ASSUME Flags, [Next]_vars PROVE Flags'
  <1> USE DEF Flags
  <1>1. ASSUME NEW i \in Items, NEW type, Emit(i, type) PROVE needDrain' \in BOOLEAN /\ parked' \in BOOLEAN
    BY <1>1, Zenon DEF Emit, Keep, Yield, WriteLine, WriteRefused, select
  <1>2. CASE NodeTake \/ RustTake
    BY <1>2, Zenon DEF NodeTake, RustTake, Take
  <1>3. ASSUME NEW i \in Items, HandlerEnds(i) \/ Chunk(i) \/ BodyCloses(i)
        PROVE Flags'
    BY <1>1, <1>3, Zenon DEF HandlerEnds, Answer, HandlerReturns, HandlerFails, MappingThrows,
                             Chunk, BodyCloses, BodyEnds, BodyFails, Step
  <1>4. CASE Sent
    BY <1>4, Zenon DEF Sent
  <1>5. CASE End
    BY <1>5, Zenon DEF End
  <1>6. CASE PollPending \/ Wake
    <2>1. (Running # {}) \in BOOLEAN
      OBVIOUS
    <2>2. QED
      BY <1>6, <2>1, Zenon DEF PollPending, Wake
  <1>7. CASE UNCHANGED vars
    BY <1>7, Zenon DEF vars
  <1>8. QED
    BY <1>2, <1>3, <1>4, <1>5, <1>6, <1>7, Zenon DEF Next

LEMMA DataStep == ASSUME Data, [Next]_vars PROVE Data'
  <1> USE DEF Data
  <1>1. ASSUME NEW i \in Items, NEW type \in Records, Emit(i, type)
        PROVE  /\ lines' \in [Items -> Seq(Records)]
               /\ waits' \subseteq Items
               /\ lapsed' \subseteq Items
               /\ buffered' \in Nat
    <2>1. CASE Keep(i, type)
      BY <2>1 DEF Keep
    <2>2. CASE Yield(i, type)
      BY <2>2 DEF Yield
    <2>3. CASE WriteLine(i, type)
      BY <2>3 DEF WriteLine, select
    <2>4. CASE WriteRefused(i)
      BY <2>4 DEF WriteRefused
    <2>5. QED
      BY <1>1, <2>1, <2>2, <2>3, <2>4 DEF Emit
  <1>2. CASE NodeTake \/ RustTake
    <2>1. /\ next <= BatchSize /\ next' = next + 1
          /\ stage' = [stage EXCEPT ![next] = "handler"]
          /\ UNCHANGED <<lines, waits, dead, buffered, lapsed>>
      BY <1>2, Zenon DEF NodeTake, RustTake, Take
    <2>2. next' \in 1..(BatchSize + 1)
      BY <2>1
    <2>3. QED
      BY <2>1, <2>2
  <1>3. ASSUME NEW i \in Items, HandlerEnds(i) \/ Chunk(i) \/ BodyCloses(i)
        PROVE Data'
    <2>1. CASE MappingThrows(i)
      BY <2>1 DEF MappingThrows
    <2>2. CASE ~ MappingThrows(i)
      <3>1. PICK type \in Records, from \in {"handler", "body"}, to \in {"body", "done"} :
              Step(i, from, to) /\ Emit(i, type)
        BY <1>3, <2>2 DEF HandlerEnds, Answer, HandlerReturns, HandlerFails, Chunk,
                          BodyCloses, BodyEnds, BodyFails, Records
      <3>2. QED
        BY <3>1, <1>1 DEF Step
    <2>3. QED
      BY <2>1, <2>2
  <1>4. CASE Sent
    <2>1. waits' \subseteq Items
      BY <1>4, Zenon DEF Sent
    <2>2. buffered > 0 /\ buffered' = buffered - 1
          /\ UNCHANGED <<next, stage, lines, dead, lapsed>>
      BY <1>4, Zenon DEF Sent
    <2>3. QED
      BY <2>1, <2>2
  <1>5. CASE End
    BY <1>5 DEF End
  <1>6. CASE PollPending \/ Wake
    BY <1>6 DEF PollPending, Wake
  <1>7. CASE UNCHANGED vars
    BY <1>7 DEF vars
  <1>8. QED
    BY <1>2, <1>3, <1>4, <1>5, <1>6, <1>7 DEF Next

\* kit and mode never change.
LEMMA OptionsStep == [Next]_vars => UNCHANGED <<kit, mode>>
  BY Zenon DEF Next, NodeTake, RustTake, Take, PollPending, Wake, HandlerEnds, Answer,
     HandlerReturns, HandlerFails,
     MappingThrows, Chunk, BodyCloses, BodyEnds, BodyFails, Step, Sent, End, vars

LEMMA TypeStep == ASSUME TypeOK, [Next]_vars PROVE TypeOK'
  <1>1. Flags' /\ Data' /\ UNCHANGED <<kit, mode>>
    BY FlagsStep, DataStep, OptionsStep, Zenon DEF TypeOK, Flags, Data
  <1>2. QED
    BY <1>1, Zenon DEF TypeOK, Flags, Data

LEMMA TypeInit == Init => TypeOK
  <1> SUFFICES ASSUME Init PROVE TypeOK
    OBVIOUS
  <1>1. Flags
    BY Zenon DEF Init, Flags
  <1>2. next = 1 /\ lines = [i \in Items |-> <<>>] /\ buffered = 0
        /\ stage = [i \in Items |-> "new"] /\ waits = {} /\ dead = {} /\ lapsed = {}
    BY Zenon DEF Init
  <1>3. Data
    BY <1>2 DEF Data, Items
  <1>4. kit \in {"node", "rust"} /\ mode \in {"buffered", "records", "interleaved"}
    BY Zenon DEF Init
  <1>5. QED
    BY <1>1, <1>3, <1>4, Zenon DEF TypeOK, Flags, Data

\* Every variable of the adapter keeps its type.
THEOREM TypeCorrect == Spec => []TypeOK
  BY TypeInit, TypeStep, PTL DEF Spec

-----------------------------------------------------------------------------
(* Backpressure.                                                           *)

\* What a step of an item does to the pool and the buffer.
LEMMA ItemStep ==
    ASSUME TypeOK, NEW i \in Items, HandlerEnds(i) \/ Chunk(i) \/ BodyCloses(i)
    PROVE  /\ i \in Running
           /\ stage' \in [Items -> {"new", "handler", "body", "done"}]
           /\ \A j \in Items : j # i => stage'[j] = stage[j]
           /\ \/ waits' = waits /\ buffered' = buffered
              \/ waits' = waits \cup {i} /\ buffered' = buffered
              \/ waits' = waits /\ buffered' = buffered + 1 /\ buffered + 1 < HighWater
              \/ i \notin waits /\ waits' = waits \cup {i} /\ buffered' = buffered + 1
  <1> DEFINE Effect ==
        \/ waits' = waits /\ buffered' = buffered
        \/ waits' = waits \cup {i} /\ buffered' = buffered
        \/ waits' = waits /\ buffered' = buffered + 1 /\ ~ (buffered + 1 >= HighWater)
        \/ i \notin waits /\ waits' = waits \cup {i} /\ buffered' = buffered + 1
  <1>1. stage \in [Items -> {"new", "handler", "body", "done"}] /\ buffered \in Nat
    BY Zenon DEF TypeOK
  <1>2. /\ stage[i] \in {"handler", "body"}
        /\ \E to \in {"body", "done"} : stage' = [stage EXCEPT ![i] = to]
    BY Zenon DEF HandlerEnds, Answer, HandlerReturns, HandlerFails, MappingThrows, Chunk,
                 BodyCloses, BodyEnds, BodyFails, Step
  <1>3. ASSUME NEW type, Emit(i, type), i \notin waits PROVE Effect
    BY <1>3, Zenon DEF Emit, Keep, Yield, WriteLine, WriteRefused, select
  <1>4. Effect
    BY <1>3, Zenon DEF HandlerEnds, Answer, HandlerReturns, HandlerFails, MappingThrows, Chunk,
                       BodyCloses, BodyEnds, BodyFails, Step
  <1>5. i \in Running
    BY <1>2, Zenon DEF Running
  <1>6. /\ stage' \in [Items -> {"new", "handler", "body", "done"}]
        /\ \A j \in Items : j # i => stage'[j] = stage[j]
    BY <1>1, <1>2
  <1>7. ~ (buffered + 1 >= HighWater) => buffered + 1 < HighWater
    BY <1>1
  <1>8. QED
    BY <1>4, <1>5, <1>6, <1>7, Zenon

\* The pool grows by Take alone, and only when there is room.
LEMMA PoolStep ==
    ASSUME TypeOK, TypeOK', PoolBounded, [Next]_vars PROVE PoolBounded'
  <1> USE DEF PoolBounded
  <1>1. /\ stage \in [Items -> {"new", "handler", "body", "done"}]
        /\ waits \subseteq Items /\ waits' \subseteq Items
        /\ dead \subseteq Items /\ lapsed \subseteq Items
    BY Zenon DEF TypeOK
  <1>2. /\ Running \subseteq Items /\ IsFiniteSet(Running) /\ Cardinality(Running) \in Nat
        /\ Running' \subseteq Items /\ IsFiniteSet(Running') /\ Cardinality(Running') \in Nat
    <2>1. Running \subseteq Items /\ Running' \subseteq Items
      BY <1>1 DEF Running
    <2>2. QED
      BY <2>1, ItemsFinite, FS_CardinalityType
  <1>3. ASSUME Running' \subseteq Running PROVE Cardinality(Running') <= Limit
    <2>1. Cardinality(Running') <= Cardinality(Running)
      BY <1>2, <1>3, FS_Subset
    <2>2. QED
      BY <1>2, <2>1
  <1>4. CASE NodeTake \/ RustTake
    <2>1. waits' = waits /\ stage' = [stage EXCEPT ![next] = "handler"]
      BY <1>4, Zenon DEF NodeTake, RustTake, Take
    <2>2. Running' \subseteq Running \cup {next}
      BY <1>1, <2>1 DEF Running
    <2>3. Cardinality(Running) < Limit
      <3>1. PICK others \in {dead, lapsed} : Cardinality(Running \cup others) < Limit
        BY <1>4, Zenon DEF NodeTake, RustTake
      <3>2. IsFiniteSet(Running \cup others) /\ Running \subseteq Running \cup others
        BY <1>1, <1>2, <3>1, ItemsFinite
      <3>3. /\ Cardinality(Running \cup others) \in Nat
            /\ Cardinality(Running) <= Cardinality(Running \cup others)
        BY <3>2, FS_Subset, FS_CardinalityType
      <3>4. QED
        BY <1>2, <3>1, <3>3
    <2>4. /\ IsFiniteSet(Running \cup {next})
          /\ Cardinality(Running \cup {next}) \in {Cardinality(Running), Cardinality(Running) + 1}
      BY <1>2, FS_AddElement, Zenon
    <2>5. Cardinality(Running') <= Cardinality(Running \cup {next})
      BY <2>2, <2>4, FS_Subset
    <2>6. QED
      BY <1>2, <2>3, <2>4, <2>5
  <1>5. ASSUME NEW i \in Items, HandlerEnds(i) \/ Chunk(i) \/ BodyCloses(i)
        PROVE Cardinality(Running') <= Limit
    <2>1. /\ i \in Running
          /\ \A j \in Items : j # i => stage'[j] = stage[j]
          /\ waits' \subseteq waits \cup {i}
      BY <1>5, ItemStep, Zenon
    <2>2. Running' \subseteq Running
      BY <1>1, <2>1 DEF Running
    <2>3. QED
      BY <1>3, <2>2
  <1>6. CASE Sent
    <2>1. waits' \subseteq waits /\ stage' = stage
      BY <1>6, Zenon DEF Sent
    <2>2. QED
      BY <1>3, <2>1 DEF Running
  <1>7. CASE PollPending \/ Wake \/ End \/ UNCHANGED vars
    <2>1. waits' = waits /\ stage' = stage
      BY <1>7, Zenon DEF PollPending, Wake, End, vars
    <2>2. QED
      BY <1>3, <2>1 DEF Running
  <1>8. QED
    BY <1>4, <1>5, <1>6, <1>7 DEF Next

\* A worker writes past the mark once and then waits.
LEMMA OneLineStep ==
    ASSUME TypeOK, TypeOK', OneLineEach, [Next]_vars PROVE OneLineEach'
  <1> USE DEF OneLineEach
  <1>1. buffered \in Nat /\ buffered' \in Nat /\ waits \subseteq Items /\ waits' \subseteq Items
    BY Zenon DEF TypeOK
  <1>2. /\ IsFiniteSet(waits) /\ Cardinality(waits) \in Nat
        /\ IsFiniteSet(waits') /\ Cardinality(waits') \in Nat
    BY <1>1, ItemsFinite, FS_CardinalityType
  <1>3. CASE NodeTake \/ RustTake \/ PollPending \/ Wake \/ End \/ UNCHANGED vars
    <2>1. waits' = waits /\ buffered' = buffered
      BY <1>3, Zenon DEF NodeTake, RustTake, Take, PollPending, Wake, End, vars
    <2>2. QED
      BY <2>1
  <1>4. ASSUME NEW i \in Items, HandlerEnds(i) \/ Chunk(i) \/ BodyCloses(i)
        PROVE OneLineEach'
    <2>1. Cardinality(waits \cup {i}) = IF i \in waits THEN Cardinality(waits)
                                        ELSE Cardinality(waits) + 1
      BY <1>2, FS_AddElement, Zenon
    <2>2. \/ waits' = waits /\ buffered' = buffered
          \/ waits' = waits \cup {i} /\ buffered' = buffered
          \/ waits' = waits /\ buffered' = buffered + 1 /\ buffered + 1 < HighWater
          \/ i \notin waits /\ waits' = waits \cup {i} /\ buffered' = buffered + 1
      BY <1>4, ItemStep, Zenon
    <2>3. CASE waits' = waits /\ (buffered' = buffered \/ buffered + 1 < HighWater)
               /\ buffered' \in {buffered, buffered + 1}
      BY <1>1, <1>2, <2>3
    <2>4. CASE waits' = waits \cup {i} /\ buffered' = buffered
      <3>1. Cardinality(waits') >= Cardinality(waits)
        BY <1>2, <2>1, <2>4
      <3>2. QED
        BY <1>1, <1>2, <2>4, <3>1
    <2>5. CASE i \notin waits /\ waits' = waits \cup {i} /\ buffered' = buffered + 1
      <3>1. Cardinality(waits') = Cardinality(waits) + 1
        BY <2>1, <2>5
      <3>2. QED
        BY <1>1, <1>2, <2>5, <3>1
    <2>6. QED
      BY <2>2, <2>3, <2>4, <2>5
  <1>5. CASE Sent
    <2>1. /\ buffered > 0 /\ buffered' = buffered - 1
          /\ waits' = waits \/ (waits' = {} /\ buffered = 1)
      BY <1>5, Zenon DEF Sent
    <2>2. Cardinality({}) = 0
      BY FS_EmptySet
    <2>3. QED
      BY <1>1, <1>2, <2>1, <2>2
  <1>6. QED
    BY <1>3, <1>4, <1>5, Zenon DEF Next

LEMMA PoolInvInit == Init => PoolInv
  <1> SUFFICES ASSUME Init PROVE PoolInv
    OBVIOUS
  <1>1. waits = {} /\ stage = [i \in Items |-> "new"] /\ buffered = 0
    BY Zenon DEF Init
  <1>2. Running = {}
    BY <1>1 DEF Running
  <1>3. Cardinality({}) = 0
    BY FS_EmptySet
  <1>4. PoolBounded /\ OneLineEach
    BY <1>1, <1>2, <1>3 DEF PoolBounded, OneLineEach
  <1>5. QED
    BY <1>4, TypeInit, Zenon DEF PoolInv

\* The stream's buffer never holds more lines than the mark and the pool
\* account for, however many workers write.
THEOREM BackpressureHolds == Spec => []BufferBounded
  <1>1. PoolInv /\ [Next]_vars => PoolInv'
    BY TypeStep, PoolStep, OneLineStep, Zenon DEF PoolInv
  <1>2. PoolInv => BufferBounded
    <2> SUFFICES ASSUME PoolInv PROVE BufferBounded
      OBVIOUS
    <2>1. buffered \in Nat /\ waits \subseteq Items /\ waits \subseteq Running
      BY Zenon DEF PoolInv, TypeOK, Running
    <2>2. Running \subseteq Items
      BY <2>1, Zenon DEF Running
    <2>3. IsFiniteSet(Running)
      BY <2>2, ItemsFinite
    <2>4. /\ Cardinality(waits) <= Cardinality(Running)
          /\ Cardinality(waits) \in Nat /\ Cardinality(Running) \in Nat
      BY <2>1, <2>3, FS_Subset, FS_CardinalityType
    <2>5. buffered <= HighWater - 1 + Cardinality(waits) /\ Cardinality(Running) <= Limit
      BY Zenon DEF PoolInv, PoolBounded, OneLineEach
    <2>6. QED
      BY <2>1, <2>4, <2>5 DEF BufferBounded
  <1>3. QED
    BY PoolInvInit, <1>1, <1>2, PTL DEF Spec

-----------------------------------------------------------------------------
(* The answers of the items.                                               *)

\* Only a Node worker throws, and only when it maps an interleaved response.
OnlyNodeThrows == dead # {} => kit = "node" /\ mode = "interleaved"

\* What is written for an item follows from where it is.  A line is missing
\* only where the stream was ended after a worker had thrown.
ItemLines(i) ==
    /\ stage[i] \in {"new", "handler"} => lines[i] = <<>>
    /\ stage[i] = "body" => mode = "interleaved" /\ Begun(lines[i]) /\ (lines[i] # <<>> \/ over)
    /\ stage[i] = "done" => Whole(lines[i]) \/ (dead # {} /\ Begun(lines[i]))

AnswersInv ==
    TypeOK /\ TakenInOrder /\ EndsLast /\ OnlyNodeThrows /\ \A i \in Items : ItemLines(i)

\* The protocol, one record at a time.
LEMMA Appending ==
    ASSUME NEW s \in Seq(Records)
    PROVE  /\ mode # "interleaved" => Whole(Append(<<>>, "record"))
           /\ mode = "interleaved" => Whole(Append(<<>>, "error"))
           /\ mode = "interleaved" => Begun(Append(<<>>, "head")) /\ Append(<<>>, "head") # <<>>
           /\ Begun(s) /\ s # <<>> =>
                /\ Begun(Append(s, "chunk")) /\ Append(s, "chunk") # <<>>
                /\ Whole(Append(s, "end")) /\ Whole(Append(s, "error"))
  <1>1. mode # "interleaved" => Whole(Append(<<>>, "record"))
    BY DEF Whole
  <1>2. mode = "interleaved" => Whole(Append(<<>>, "error"))
    BY DEF Whole
  <1>3. mode = "interleaved" => Begun(Append(<<>>, "head")) /\ Append(<<>>, "head") # <<>>
    BY DEF Begun, Chunks
  <1>4. ASSUME Begun(s), s # <<>>
        PROVE  /\ Begun(Append(s, "chunk")) /\ Append(s, "chunk") # <<>>
               /\ Whole(Append(s, "end")) /\ Whole(Append(s, "error"))
    <2>1. mode = "interleaved" /\ s[1] = "head" /\ Len(s) \in Nat /\ Len(s) >= 1
      BY <1>4 DEF Begun
    <2>2. \A n \in 2..Len(s) : s[n] = "chunk"
      BY <1>4, <2>1 DEF Begun, Chunks, Records
    <2>3. ASSUME NEW type \in Records
          PROVE  /\ Append(s, type) \in Seq(Records) /\ Len(Append(s, type)) = Len(s) + 1
                 /\ Append(s, type)[1] = "head" /\ Append(s, type)[Len(s) + 1] = type
                 /\ \A n \in 2..Len(s) : Append(s, type)[n] = "chunk"
      BY <2>1, <2>2
    <2>4. ASSUME NEW type \in {"end", "error"} PROVE Whole(Append(s, type))
      <3>1. type \in Records
        BY DEF Records
      <3>2. QED
        BY <2>1, <2>3, <3>1 DEF Whole, Chunks
    <2>5. Begun(Append(s, "chunk"))
      <3> DEFINE c == Append(s, "chunk")
      <3>1. /\ c \in Seq(Records) /\ Len(c) = Len(s) + 1 /\ c[1] = "head"
            /\ \A n \in 2..(Len(s) + 1) : c[n] = "chunk"
        BY <2>1, <2>3 DEF Records
      <3> HIDE DEF c
      <3>2. Chunks(Append(c, "end"))
        BY <2>1, <3>1 DEF Chunks, Records
      <3>3. QED
        BY <2>1, <3>1, <3>2 DEF Begun, c
    <2>6. Append(s, "chunk") # <<>>
      BY <2>1, <2>3 DEF Records
    <2>7. QED
      BY <2>4, <2>5, <2>6
  <1>5. QED
    BY <1>1, <1>2, <1>3, <1>4

\* A record of a running item is added to its lines, unless a worker threw
\* and the stream is ended.
LEMMA EmitAdds ==
    ASSUME AnswersInv, NEW i \in Items, i \in Running, NEW type, Emit(i, type)
    PROVE  \/ ~ over /\ lines' = [lines EXCEPT ![i] = Append(@, type)]
           \/ over /\ dead # {} /\ lines' = lines
  <1>1. over => dead # {}
    BY Zenon DEF AnswersInv, EndsLast
  <1>2. over => kit = "node" /\ mode = "interleaved"
    BY <1>1, Zenon DEF AnswersInv, OnlyNodeThrows
  <1>3. kit # "rust" \/ kit # "node"
    OBVIOUS
  <1>4. mode # "buffered" \/ mode # "interleaved"
    OBVIOUS
  <1>5. QED
    BY <1>1, <1>2, <1>3, <1>4, Zenon DEF Emit, Keep, Yield, WriteLine, WriteRefused, select

\* The lines of the item that makes a step.
LEMMA OwnLines ==
    ASSUME AnswersInv, TypeOK', NEW i \in Items, HandlerEnds(i) \/ Chunk(i) \/ BodyCloses(i)
    PROVE  ItemLines(i)'
  <1>1. lines \in [Items -> Seq(Records)] /\ stage \in [Items -> {"new", "handler", "body", "done"}]
    BY Zenon DEF AnswersInv, TypeOK
  <1>2. i \in Running /\ ItemLines(i)
    BY ItemStep, Zenon DEF AnswersInv
  <1>3. mode' = mode /\ lines[i] \in Seq(Records)
    BY <1>1, Zenon DEF HandlerEnds, Answer, HandlerReturns, HandlerFails, MappingThrows, Chunk,
                       BodyCloses, BodyEnds, BodyFails, Step
  <1>4. ASSUME NEW s PROVE (Whole(s)' <=> Whole(s)) /\ (Begun(s)' <=> Begun(s))
    BY <1>3, Zenon DEF Whole, Begun, Chunks
  <1>5. ASSUME NEW type, NEW from, NEW to, Step(i, from, to), Emit(i, type)
        PROVE  /\ stage[i] = from /\ stage'[i] = to /\ dead' = dead /\ over' = over
               /\ \/ ~ over /\ lines'[i] = Append(lines[i], type)
                  \/ over /\ dead # {} /\ lines'[i] = lines[i]
    <2>1. stage[i] = from /\ stage' = [stage EXCEPT ![i] = to] /\ dead' = dead /\ over' = over
      BY <1>5, Zenon DEF Step
    <2>2. stage'[i] = to
      BY <1>1, <2>1
    <2>3. \/ ~ over /\ lines' = [lines EXCEPT ![i] = Append(@, type)]
          \/ over /\ dead # {} /\ lines' = lines
      BY <1>2, <1>5, EmitAdds, Zenon
    <2>4. \/ ~ over /\ lines'[i] = Append(lines[i], type)
          \/ over /\ dead # {} /\ lines'[i] = lines[i]
      BY <1>1, <2>3, Zenon
    <2>5. QED
      BY <2>1, <2>2, <2>4, Zenon
  <1>6. Begun(<<>>)
    BY Zenon DEF Begun
  <1>7. CASE Answer(i)
    <2>1. /\ mode # "interleaved" /\ stage[i] = "handler" /\ stage'[i] = "done"
          /\ dead' = dead /\ over' = over
          /\ \/ ~ over /\ lines'[i] = Append(lines[i], "record")
             \/ over /\ dead # {} /\ lines'[i] = lines[i]
      BY <1>5, <1>7, Zenon DEF Answer
    <2>2. lines[i] = <<>>
      BY <1>2, <2>1, Zenon DEF ItemLines
    <2>3. Whole(lines'[i]) \/ (dead' # {} /\ Begun(lines'[i]))
      BY <1>3, <1>6, <2>1, <2>2, Appending, Zenon
    <2>4. QED
      BY <1>4, <2>1, <2>3 DEF ItemLines
  <1>8. CASE HandlerReturns(i)
    <2>1. /\ mode = "interleaved" /\ stage[i] = "handler" /\ stage'[i] = "body"
          /\ dead' = dead /\ over' = over
          /\ \/ ~ over /\ lines'[i] = Append(lines[i], "head")
             \/ over /\ dead # {} /\ lines'[i] = lines[i]
      BY <1>5, <1>8, Zenon DEF HandlerReturns
    <2>2. lines[i] = <<>>
      BY <1>2, <2>1, Zenon DEF ItemLines
    <2>3. Begun(lines'[i]) /\ (lines'[i] # <<>> \/ over')
      BY <1>3, <1>6, <2>1, <2>2, Appending, Zenon
    <2>4. QED
      BY <1>3, <1>4, <2>1, <2>3 DEF ItemLines
  <1>9. CASE HandlerFails(i)
    <2>1. /\ mode = "interleaved" /\ stage[i] = "handler" /\ stage'[i] = "done"
          /\ dead' = dead /\ over' = over
          /\ \/ ~ over /\ lines'[i] = Append(lines[i], "error")
             \/ over /\ dead # {} /\ lines'[i] = lines[i]
      BY <1>5, <1>9, Zenon DEF HandlerFails
    <2>2. lines[i] = <<>>
      BY <1>2, <2>1, Zenon DEF ItemLines
    <2>3. Whole(lines'[i]) \/ (dead' # {} /\ Begun(lines'[i]))
      BY <1>3, <1>6, <2>1, <2>2, Appending, Zenon
    <2>4. QED
      BY <1>4, <2>1, <2>3 DEF ItemLines
  <1>10. CASE MappingThrows(i)
    <2>1. stage[i] = "handler" /\ stage' = [stage EXCEPT ![i] = "done"]
          /\ dead' = dead \cup {i} /\ lines' = lines
      BY <1>10, Zenon DEF MappingThrows
    <2>2. stage'[i] = "done" /\ dead' # {} /\ lines'[i] = <<>>
      BY <1>1, <1>2, <2>1 DEF ItemLines
    <2>3. Begun(lines'[i])
      BY <1>6, <2>2
    <2>4. QED
      BY <1>4, <2>2, <2>3 DEF ItemLines
  <1>11. CASE Chunk(i)
    <2>1. /\ stage[i] = "body" /\ stage'[i] = "body" /\ dead' = dead /\ over' = over
          /\ \/ ~ over /\ lines'[i] = Append(lines[i], "chunk")
             \/ over /\ dead # {} /\ lines'[i] = lines[i]
      BY <1>5, <1>11, Zenon DEF Chunk
    <2>2. mode = "interleaved" /\ Begun(lines[i]) /\ (lines[i] # <<>> \/ over)
      BY <1>2, <2>1, Zenon DEF ItemLines
    <2>3. Begun(lines'[i]) /\ (lines'[i] # <<>> \/ over')
      BY <1>3, <2>1, <2>2, Appending, Zenon
    <2>4. QED
      BY <1>3, <1>4, <2>1, <2>2, <2>3 DEF ItemLines
  <1>12. CASE BodyCloses(i)
    <2>1. /\ stage[i] = "body" /\ stage'[i] = "done" /\ dead' = dead /\ over' = over
          /\ \/ ~ over /\ lines'[i] \in {Append(lines[i], "end"), Append(lines[i], "error")}
             \/ over /\ dead # {} /\ lines'[i] = lines[i]
      BY <1>5, <1>12, Zenon DEF BodyCloses, BodyEnds, BodyFails
    <2>2. Begun(lines[i]) /\ (lines[i] # <<>> \/ over)
      BY <1>2, <2>1, Zenon DEF ItemLines
    <2>3. Whole(lines'[i]) \/ (dead' # {} /\ Begun(lines'[i]))
      BY <1>3, <2>1, <2>2, Appending, Zenon
    <2>4. QED
      BY <1>4, <2>1, <2>3 DEF ItemLines
  <1>13. QED
    BY <1>7, <1>8, <1>9, <1>10, <1>11, <1>12, Zenon DEF HandlerEnds, BodyCloses

LEMMA AnswersInit == Init => AnswersInv
  <1> SUFFICES ASSUME Init PROVE AnswersInv
    OBVIOUS
  <1>1. /\ stage = [i \in Items |-> "new"] /\ lines = [i \in Items |-> <<>>]
        /\ dead = {} /\ next = 1 /\ ~ over
    BY Zenon DEF Init
  <1>2. TypeOK
    BY TypeInit
  <1>3. TakenInOrder
    BY <1>1 DEF TakenInOrder, Items
  <1>4. EndsLast /\ OnlyNodeThrows
    BY <1>1, Zenon DEF EndsLast, OnlyNodeThrows
  <1>5. \A i \in Items : ItemLines(i)
    BY <1>1 DEF ItemLines
  <1>6. QED
    BY <1>2, <1>3, <1>4, <1>5, Zenon DEF AnswersInv

LEMMA AnswersStep == ASSUME AnswersInv, [Next]_vars PROVE AnswersInv'
  <1>1. TypeOK /\ TypeOK'
    BY TypeStep, Zenon DEF AnswersInv
  <1>2. /\ lines \in [Items -> Seq(Records)] /\ next \in 1..(BatchSize + 1)
        /\ stage \in [Items -> {"new", "handler", "body", "done"}]
    BY <1>1, Zenon DEF TypeOK
  <1>3. OnlyNodeThrows'
    <2>1. dead' = dead \/ (kit = "node" /\ mode = "interleaved")
      BY Zenon DEF Next, NodeTake, RustTake, Take, PollPending, Wake, HandlerEnds, Answer,
     HandlerReturns,
         HandlerFails, MappingThrows, Chunk, BodyCloses, BodyEnds, BodyFails, Step, Sent, End, vars
    <2>2. QED
      BY <2>1, OptionsStep, Zenon DEF AnswersInv, OnlyNodeThrows
  <1>4. mode' = mode
    BY OptionsStep, Zenon
  <1>5. ASSUME NEW i \in Items, stage'[i] = stage[i], lines'[i] = lines[i],
               over => over', dead \subseteq dead'
        PROVE  ItemLines(i)'
    <2>1. ItemLines(i)
      BY Zenon DEF AnswersInv
    <2>2. Whole(lines[i])' <=> Whole(lines'[i])
      BY <1>4, Zenon DEF Whole, Chunks
    <2>3. Begun(lines[i])' <=> Begun(lines'[i])
      BY <1>4, Zenon DEF Begun, Chunks
    <2>4. dead # {} => dead' # {}
      BY <1>5, Zenon
    <2>5. QED
      BY <1>4, <1>5, <2>1, <2>2, <2>3, <2>4, Zenon DEF ItemLines, Whole, Begun, Chunks
  <1>6. CASE NodeTake \/ RustTake
    <2>1. /\ next <= BatchSize /\ next' = next + 1
          /\ stage' = [stage EXCEPT ![next] = "handler"]
          /\ UNCHANGED <<mode, lines, waits, dead, over>>
      BY <1>6, Zenon DEF NodeTake, RustTake, Take
    <2>2. TakenInOrder /\ EndsLast /\ next \in Items
      BY <1>2, <2>1 DEF AnswersInv, Items
    <2>3. TakenInOrder'
      BY <1>2, <2>1, <2>2 DEF TakenInOrder, Items
    <2>4. EndsLast'
      <3>1. ~ (next > BatchSize)
        BY <1>2, <2>1
      <3>2. ~ (over /\ dead = {})
        BY <2>2, <3>1, Zenon DEF EndsLast
      <3>3. QED
        BY <2>1, <3>2, Zenon DEF EndsLast
    <2>5. ASSUME NEW i \in Items PROVE ItemLines(i)'
      <3>1. CASE i = next
        <4>1. lines[i] = <<>>
          <5>1. stage[i] = "new"
            BY <1>2, <2>2, <3>1 DEF TakenInOrder
          <5>2. QED
            BY <5>1, Zenon DEF AnswersInv, ItemLines
        <4>2. stage'[i] = "handler"
          BY <1>2, <2>1, <3>1
        <4>3. lines' = lines
          BY <2>1
        <4>4. QED
          BY <4>1, <4>2, <4>3 DEF ItemLines
      <3>2. CASE i # next
        <4>1. stage'[i] = stage[i]
          BY <1>2, <2>1, <3>2
        <4>2. QED
          BY <1>5, <2>1, <4>1, Zenon
      <3>3. QED
        BY <3>1, <3>2
    <2>6. QED
      BY <1>1, <1>3, <2>3, <2>4, <2>5, Zenon DEF AnswersInv
  <1>7. ASSUME NEW i \in Items, HandlerEnds(i) \/ Chunk(i) \/ BodyCloses(i)
        PROVE  AnswersInv'
    <2>1. /\ next' = next /\ over' = over /\ dead \subseteq dead'
          /\ \E to \in {"body", "done"} : stage' = [stage EXCEPT ![i] = to]
      BY <1>7, Zenon DEF HandlerEnds, Answer, HandlerReturns, HandlerFails, MappingThrows, Chunk,
                         BodyCloses, BodyEnds, BodyFails, Step
    <2>2. i \in Running
      BY <1>1, <1>7, ItemStep, Zenon
    <2>3. stage[i] # "new" /\ stage'[i] # "new" /\ \A j \in Items : j # i => stage'[j] = stage[j]
      <3>1. stage[i] \in {"handler", "body"}
        BY <1>7, Zenon DEF HandlerEnds, Answer, HandlerReturns, HandlerFails, MappingThrows, Chunk,
                           BodyCloses, BodyEnds, BodyFails, Step
      <3>2. QED
        BY <1>2, <2>1, <3>1
    <2>4. TakenInOrder'
      BY <2>1, <2>3, Zenon DEF AnswersInv, TakenInOrder
    <2>5. EndsLast'
      BY <2>1, <2>2, Zenon DEF AnswersInv, EndsLast
    <2>6. \A j \in Items : j # i => lines'[j] = lines[j]
      <3>1. ASSUME NEW type, Emit(i, type)
            PROVE  lines' = lines \/ lines' = [lines EXCEPT ![i] = Append(@, type)]
        BY <2>2, <3>1, EmitAdds, Zenon
      <3>2. lines' = lines \/ \E s : lines' = [lines EXCEPT ![i] = s]
        BY <1>7, <3>1, Zenon DEF HandlerEnds, Answer, HandlerReturns, HandlerFails, MappingThrows,
                                 Chunk, BodyCloses, BodyEnds, BodyFails, Step
      <3>3. QED
        BY <1>2, <3>2
    <2>7. ASSUME NEW j \in Items PROVE ItemLines(j)'
      <3>1. CASE j = i
        BY <1>1, <1>7, <3>1, OwnLines, Zenon
      <3>2. CASE j # i
        BY <1>5, <2>1, <2>3, <2>6, <3>2, Zenon
      <3>3. QED
        BY <3>1, <3>2
    <2>8. QED
      BY <1>1, <1>3, <2>4, <2>5, <2>7, Zenon DEF AnswersInv
  <1>8. CASE Sent \/ End \/ PollPending \/ Wake \/ UNCHANGED vars
    <2>1. /\ UNCHANGED <<next, stage, lines, dead>>
          /\ waits' \subseteq waits /\ (over => over')
      <3>1. CASE Sent
        BY <3>1, Zenon DEF Sent
      <3>2. CASE End
        BY <3>2, Zenon DEF End
      <3>3. CASE PollPending \/ Wake
        <4>1. UNCHANGED <<next, stage, lines, dead, waits, over>>
          BY <3>3, Zenon DEF PollPending, Wake
        <4>2. QED
          BY <4>1, Zenon
      <3>4. CASE UNCHANGED vars
        BY <3>4, Zenon DEF vars
      <3>5. QED
        BY <1>8, <3>1, <3>2, <3>3, <3>4, Zenon
    <2>2. TakenInOrder'
      BY <2>1, Zenon DEF AnswersInv, TakenInOrder
    <2>3. Running' \subseteq Running
      BY <2>1, Zenon DEF Running
    <2>4. EndsLast'
      <3>1. over' => over \/ dead # {} \/ (next > BatchSize /\ Running \cup lapsed = {})
        <4>1. CASE Sent
          BY <4>1, Zenon DEF Sent
        <4>2. CASE End
          BY <4>2, Zenon DEF End
        <4>3. CASE PollPending \/ Wake
          BY <4>3, Zenon DEF PollPending, Wake
        <4>4. CASE UNCHANGED vars
          BY <4>4, Zenon DEF vars
        <4>5. QED
          BY <1>8, <4>1, <4>2, <4>3, <4>4, Zenon
      <3>2. Running = {} \/ Running \cup lapsed = {} => Running' = {}
        BY <2>3
      <3>3. QED
        BY <2>1, <3>1, <3>2, Zenon DEF AnswersInv, EndsLast
    <2>5. \A i \in Items : ItemLines(i)'
      BY <1>5, <2>1, Zenon
    <2>6. QED
      BY <1>1, <1>3, <2>2, <2>4, <2>5, Zenon DEF AnswersInv
  <1>9. QED
    BY <1>6, <1>7, <1>8, Zenon DEF Next

\* The lines of every item are what the gateway's stream dispatcher expects
\* of it, whatever the other items do.
THEOREM ProtocolIsFollowed == Spec => []ItemsFollowProtocol
  <1>1. AnswersInv => ItemsFollowProtocol
    <2> SUFFICES ASSUME AnswersInv, NEW i \in Items
                 PROVE  IF stage[i] = "done" /\ dead = {} THEN Whole(lines[i])
                        ELSE Whole(lines[i]) \/ Begun(lines[i])
      BY Zenon DEF ItemsFollowProtocol
    <2>1. ItemLines(i) /\ stage[i] \in {"new", "handler", "body", "done"}
      BY Zenon DEF AnswersInv, TypeOK
    <2>2. Begun(<<>>)
      BY Zenon DEF Begun
    <2>3. QED
      BY <2>1, <2>2 DEF ItemLines
  <1>2. QED
    BY AnswersInit, AnswersStep, <1>1, PTL DEF Spec

\* No item is skipped, taken twice or cut off: a response that is over has
\* the whole answer of each, unless a Node worker threw.
THEOREM ItemsAreAnswered == Spec => []EveryItemAnswered
  <1>1. AnswersInv => EveryItemAnswered
    <2> SUFFICES ASSUME AnswersInv, over, dead = {}, NEW i \in Items
                 PROVE  stage[i] = "done" /\ Whole(lines[i])
      BY Zenon DEF EveryItemAnswered
    <2>1. next > BatchSize /\ Running = {} /\ TakenInOrder /\ ItemLines(i)
      BY Zenon DEF AnswersInv, EndsLast
    <2>2. stage[i] \in {"new", "handler", "body", "done"} /\ next \in 1..(BatchSize + 1)
      BY Zenon DEF AnswersInv, TypeOK
    <2>3. ~ (i >= next)
      BY <2>1, <2>2 DEF Items
    <2>4. stage[i] # "new"
      BY <2>1, <2>3, Zenon DEF TakenInOrder
    <2>5. stage[i] \notin {"handler", "body"}
      BY <2>1, Zenon DEF Running
    <2>6. stage[i] = "done"
      BY <2>2, <2>4, <2>5
    <2>7. QED
      BY <2>1, <2>6, Zenon DEF ItemLines
  <1>2. QED
    BY AnswersInit, AnswersStep, <1>1, PTL DEF Spec

\* The Rust adapter always gives every item its whole answer, and so does the
\* Node adapter unless it maps interleaved heads, the one place outside a try
\* block.
THEOREM WholeUnlessMapped ==
    Spec => [](over /\ (kit = "rust" \/ mode # "interleaved") =>
                   \A i \in Items : stage[i] = "done" /\ Whole(lines[i]))
  <1>1. AnswersInv => (kit = "rust" \/ mode # "interleaved" => dead = {})
    BY Zenon DEF AnswersInv, OnlyNodeThrows
  <1>2. EveryItemAnswered =>
            (over /\ dead = {} => \A i \in Items : stage[i] = "done" /\ Whole(lines[i]))
    BY Zenon DEF EveryItemAnswered
  <1>3. QED
    BY AnswersInit, AnswersStep, ItemsAreAnswered, <1>1, <1>2, PTL DEF Spec

\* The pool and the set of item streams never hold more items than the
\* concurrency, although workers that wait for the stream still occupy it.
THEOREM ConcurrencyIsKept == Spec => []PoolBounded
  <1>1. PoolInv /\ [Next]_vars => PoolInv'
    BY TypeStep, PoolStep, OneLineStep, Zenon DEF PoolInv
  <1>2. PoolInv => PoolBounded
    BY Zenon DEF PoolInv
  <1>3. QED
    BY PoolInvInit, <1>1, <1>2, PTL DEF Spec

-----------------------------------------------------------------------------
(* Nobody waits in vain.                                                   *)

\* A worker that waits is going to be told: the buffer has lines to send, and
\* the stream has promised to say when it is empty.
DrainComes == waits # {} /\ ~ over => needDrain /\ buffered > 0

\* Pending was returned with somebody left to wake the consumer.
PendingIsWoken == parked => kit = "rust" /\ mode # "buffered" /\ Running # {}

WaitInv == DrainComes /\ PendingIsWoken /\ (kit = "rust" => buffered = 0)

LEMMA WaitInvInit == Init => WaitInv
  BY Zenon DEF Init, WaitInv, DrainComes, PendingIsWoken

LEMMA WaitInvStep == ASSUME TypeOK, WaitInv, [Next]_vars PROVE WaitInv'
  <1> USE DEF WaitInv
  <1>0. buffered \in Nat /\ kit' = kit /\ mode' = mode
    <2>1. buffered \in Nat
      BY Zenon DEF TypeOK
    <2>2. kit' = kit /\ mode' = mode
      BY Zenon DEF Next, vars, NodeTake, RustTake, Take, PollPending, Wake, HandlerEnds, Answer,
         HandlerReturns, HandlerFails, MappingThrows, Chunk, BodyCloses, BodyEnds, BodyFails, Step, Sent, End
    <2>3. QED
      BY <2>1, <2>2
  <1>1. CASE NodeTake \/ RustTake
    <2>1. ~ parked
      BY <1>1 DEF NodeTake, RustTake, PendingIsWoken
    <2>2. UNCHANGED <<waits, over, needDrain, buffered, parked>>
      BY <1>1, Zenon DEF NodeTake, RustTake, Take
    <2>3. QED
      BY <1>0, <2>1, <2>2 DEF DrainComes, PendingIsWoken
  <1>2. CASE PollPending
    <2>1. /\ UNCHANGED <<waits, over, needDrain, buffered, stage>>
          /\ kit = "rust" /\ mode # "buffered" /\ parked' => Running # {}
      BY <1>2 DEF PollPending
    <2>2. Running' = Running
      BY <2>1 DEF Running
    <2>3. QED
      BY <1>0, <1>2, <2>1, <2>2 DEF DrainComes, PendingIsWoken, PollPending
  <1>3. CASE Wake
    BY <1>0, <1>3 DEF Wake, DrainComes, PendingIsWoken
  <1>4. ASSUME NEW i \in Items, HandlerEnds(i) \/ Chunk(i) \/ BodyCloses(i) PROVE WaitInv'
    <2>1. \/ MappingThrows(i)
          \/ \E type : Emit(i, type)
      BY <1>4, Zenon DEF HandlerEnds, Answer, HandlerReturns, HandlerFails, Chunk, BodyCloses,
                         BodyEnds, BodyFails
    <2>2. ~ parked /\ parked' = parked /\ over' = over
      <3>1. over' = over
        BY <1>4, Zenon DEF HandlerEnds, Answer, HandlerReturns, HandlerFails, MappingThrows, Chunk,
                           BodyCloses, BodyEnds, BodyFails, Step
      <3>2. CASE MappingThrows(i)
        BY <3>1, <3>2 DEF MappingThrows, PendingIsWoken
      <3>3. ASSUME NEW type, Emit(i, type) PROVE ~ parked /\ parked' = parked
        BY <3>3 DEF Emit, Keep, Yield, WriteLine, WriteRefused, select, PendingIsWoken
      <3>4. QED
        BY <2>1, <3>1, <3>2, <3>3
    <2>3. \/ UNCHANGED <<waits, needDrain, buffered>>
          \/ /\ kit = "node" /\ buffered' = buffered + 1
             /\ (waits' = waits /\ needDrain' = needDrain) \/ needDrain'
          \/ kit = "node" /\ over /\ buffered' = buffered
      <3>1. CASE MappingThrows(i)
        BY <3>1, Zenon DEF MappingThrows
      <3>2. ASSUME NEW type, Emit(i, type)
            PROVE  \/ UNCHANGED <<waits, needDrain, buffered>>
                   \/ /\ kit = "node" /\ buffered' = buffered + 1
                      /\ (waits' = waits /\ needDrain' = needDrain) \/ needDrain'
                   \/ kit = "node" /\ over /\ buffered' = buffered
        BY <3>2, Zenon DEF Emit, Keep, Yield, WriteLine, WriteRefused
      <3>3. QED
        BY <2>1, <3>1, <3>2
    <2>4. DrainComes'
      BY <1>0, <2>2, <2>3 DEF DrainComes
    <2>5. kit' = "rust" => buffered' = 0
      BY <1>0, <2>3
    <2>6. QED
      BY <2>2, <2>4, <2>5 DEF PendingIsWoken
  <1>5. CASE Sent
    <2>1. /\ buffered > 0 /\ buffered' = buffered - 1
          /\ IF buffered = 1 /\ needDrain /\ ~ over THEN waits' = {} ELSE UNCHANGED <<waits, needDrain>>
          /\ UNCHANGED <<parked, over>>
      BY <1>5, Zenon DEF Sent
    <2>2. kit # "rust" /\ ~ parked
      BY <1>0, <2>1 DEF PendingIsWoken
    <2>3. QED
      BY <1>0, <2>1, <2>2 DEF DrainComes, PendingIsWoken
  <1>6. CASE End
    <2>1. over' /\ UNCHANGED <<waits, stage, parked, buffered>>
      BY <1>6 DEF End
    <2>2. Running' = Running
      BY <2>1 DEF Running
    <2>3. QED
      BY <1>0, <2>1, <2>2 DEF DrainComes, PendingIsWoken
  <1>7. CASE UNCHANGED vars
    <2>1. UNCHANGED <<waits, stage, parked, buffered, needDrain, over>>
      BY <1>7 DEF vars
    <2>2. Running' = Running
      BY <2>1 DEF Running
    <2>3. QED
      BY <1>0, <2>1, <2>2 DEF DrainComes, PendingIsWoken
  <1>8. QED
    BY <1>1, <1>2, <1>3, <1>4, <1>5, <1>6, <1>7, Zenon DEF Next

\* The safety at the heart of ResponseEnds, for every pool, mark and batch:
\* while the response is open no Node worker waits for a "drain" that is not
\* coming, and the Rust stream is never Pending with nobody to wake it.
THEOREM NobodyWaitsInVain == Spec => [](DrainComes /\ PendingIsWoken)
  <1>1. WaitInv => DrainComes /\ PendingIsWoken
    BY Zenon DEF WaitInv
  <1>2. QED
    BY <1>1, WaitInvInit, WaitInvStep, TypeCorrect, PTL DEF Spec
=============================================================================
