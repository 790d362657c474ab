-------------------------- MODULE CsvPipelineProofs --------------------------
(***************************************************************************)
(* Proofs about the CSV pipeline, for every number of chunks, workers and  *)
(* faults and every set of modes: nobody is added or paid for twice but    *)
(* for a hand-over that was itself repeated, and an upload that is called  *)
(* completed was imported.                                                 *)
(***************************************************************************)
EXTENDS CsvPipeline, SumTheorems

WorkRec == [task: Tasks \cup {None}, at: Stages \cup {None}, todo: [Chunks -> Nat], n: Nat,
            made: [Chunks -> Nat]]
StreamOK(s) == s = [msgs |-> s.msgs, read |-> s.read]
               /\ s.msgs \in Seq(Message) /\ s.read \in 0 .. Len(s.msgs)

\* What each task may be at; only the single task holds the row, and keeps it.
AtOK(r) ==
    \/ r = Free
    \/ r.task = "process" /\ r.at = "publish"
    \/ r.task = "parse" /\ r.at \in {"publish", "write", "route"}
    \/ r.task = "clean" /\ r.at \in {"collect", "counted", "dispatch"}
    \/ r.task = "poll" /\ r.at \in {"answer", "written"}
    \/ r.task = "import" /\ r.at \in {"publish", "read", "blocked", "mark"}
HoldsRow == \A w \in Workers: work[w].task = "process" => lock = w
Kinds == HoldsRow /\ \A w \in Workers: AtOK(work[w])
-----------------------------------------------------------------------------
\* The chunks in their order are all the chunks, each once.
LEMMA OrderedAll ==
  /\ Ordered \in [1 .. Cardinality(Chunks) -> Chunks]
  /\ Cardinality(Chunks) \in Nat
  /\ \A c \in Chunks: \E i \in 1 .. Cardinality(Chunks): Ordered[i] = c
  /\ \A i, j \in 1 .. Cardinality(Chunks): Ordered[i] = Ordered[j] => i = j
  <1> DEFINE n == Cardinality(Chunks)
  <1>1. IsFiniteSet(Chunks) /\ n \in Nat BY CsvPipelineAssumption, FS_CardinalityType
  <1>2. ExistsBijection(1..n, Chunks) BY <1>1, FS_CardinalityType
  <1>3. PICK b \in Bijection(1..n, Chunks): TRUE BY <1>2 DEF ExistsBijection
  <1>4. b \in [1..n -> Chunks] /\ IsInjective(b)
    BY <1>3 DEF Bijection, Injection, IsInjective
  <1>5. Ordered \in [1..n -> Chunks] /\ IsInjective(Ordered) BY <1>4 DEF Ordered
  <1>6. Ordered \in Injection(1..n, Chunks) BY <1>5 DEF Injection
  <1>7. Cardinality(1..n) = n BY <1>1, FS_Interval
  <1>8. Ordered \in Surjection(1..n, Chunks) BY <1>1, <1>6, <1>7, FS_Injection
  <1> QED BY <1>1, <1>5, <1>8 DEF Surjection, IsInjective

\* A worker with no task has a record of the type.
LEMMA Blank == Free \in WorkRec /\ Nothing \in [Chunks -> Nat] /\ AtOK(Free)
  BY DEF Free, WorkRec, Nothing, AtOK

\* What the tasks write are messages.
LEMMA Messages ==
  /\ Sentinel \in Seq(Message) /\ Len(Sentinel) = 1 /\ Sentinel[1].kind = "sentinel"
  /\ \A c \in Chunks: Batch(c) \in Seq(Message) /\ Len(Batch(c)) = 1
                      /\ Batch(c)[1] = [kind |-> "batch", chunk |-> c]
  /\ Batches \in Seq(Message) /\ Len(Batches) = Cardinality(Chunks)
  /\ \A m \in Message: m.kind # "sentinel" => m.kind \in {"batch", "empty"} /\ m.chunk \in Chunks
  <1>1. /\ [kind |-> "sentinel"] \in Message
        /\ \A c \in Chunks: [kind |-> "batch", chunk |-> c] \in Message
    BY DEF Message
  <1>2. Batches = [i \in 1 .. Cardinality(Chunks) |-> [kind |-> "batch", chunk |-> Ordered[i]]]
    BY OrderedAll DEF Batches
  <1>3. Batches \in Seq(Message) /\ Len(Batches) = Cardinality(Chunks)
    BY <1>1, <1>2, OrderedAll
  <1>4. \A m \in Message: m.kind # "sentinel" => m.kind \in {"batch", "empty"} /\ m.chunk \in Chunks
    BY DEF Message
  <1> QED BY <1>1, <1>3, <1>4 DEF Sentinel, Batch

\* Writing and handing out keep a stream a stream.
LEMMA StreamSteps ==
  ASSUME NEW s, StreamOK(s)
  PROVE  /\ \A m \in Seq(Message): /\ StreamOK(Write(s, m)) /\ Write(s, m).read = s.read
                                   /\ Write(s, m).msgs = s.msgs \o m
         /\ Unread(s) => /\ StreamOK(HandOut(s)) /\ NextMessage(s) \in Message
                         /\ HandOut(s).read = s.read + 1 /\ HandOut(s).msgs = s.msgs
         /\ StreamOK(NewStream)
  <1>1. s.msgs \in Seq(Message) /\ s.read \in 0 .. Len(s.msgs) /\ Len(s.msgs) \in Nat
        /\ s = [msgs |-> s.msgs, read |-> s.read]
    BY DEF StreamOK
  <1>2. ASSUME NEW m \in Seq(Message)
        PROVE  /\ StreamOK(Write(s, m)) /\ Write(s, m).read = s.read
               /\ Write(s, m).msgs = s.msgs \o m
    <2> DEFINE longer == s.msgs \o m
    <2>1. Write(s, m) = [s EXCEPT !.msgs = longer] BY DEF Write
    <2> HIDE DEF longer
    <2>3. Write(s, m) = [msgs |-> longer, read |-> s.read] BY <1>1, <2>1
    <2> USE DEF longer
    <2>2. s.msgs \o m \in Seq(Message) /\ Len(s.msgs \o m) = Len(s.msgs) + Len(m)
          /\ Len(m) \in Nat
      BY <1>1
    <2> QED BY <1>1, <2>2, <2>3 DEF StreamOK
  <1>3. ASSUME Unread(s)
        PROVE  /\ StreamOK(HandOut(s)) /\ NextMessage(s) \in Message
               /\ HandOut(s).read = s.read + 1 /\ HandOut(s).msgs = s.msgs
    <2>1. HandOut(s) = [msgs |-> s.msgs, read |-> s.read + 1] BY <1>1 DEF HandOut
    <2> QED BY <1>1, <1>3, <2>1 DEF StreamOK, Unread, NextMessage
  <1>4. StreamOK(NewStream) BY DEF StreamOK, NewStream
  <1> QED BY <1>2, <1>3, <1>4
-----------------------------------------------------------------------------
\* Types of the workers and the lock.
WorkOK ==
    /\ work \in [Workers -> WorkRec] /\ lock \in Workers \cup {None}
    /\ lock # None => Does(lock, "process", "publish")
    /\ Kinds

\* A worker that does not hold the row goes on, or stops.
LEMMA WorkGoesOn ==
  ASSUME WorkOK, NEW w \in Workers, NEW r \in WorkRec, work' = [work EXCEPT ![w] = r], AtOK(r),
         \/ lock' = lock /\ work[w].task # "process" /\ r.task # "process"
         \/ Released(w) /\ r = Free
         \/ lock = None /\ lock' = w /\ r.task = "process" /\ r.at = "publish"
  PROVE  WorkOK'
  <1>1. work' \in [Workers -> WorkRec] /\ work'[w] = r
        /\ \A v \in Workers \ {w}: work'[v] = work[v]
    BY DEF WorkOK
  <1>2. \A v \in Workers: AtOK(work'[v]) BY <1>1 DEF WorkOK, Kinds
  <1>3. w # None /\ \A v \in Workers: v # None BY CsvPipelineAssumption
  <1>4. CASE lock' = lock /\ work[w].task # "process" /\ r.task # "process"
    BY <1>1, <1>2, <1>3, <1>4 DEF WorkOK, Kinds, HoldsRow, Does
  <1>5. CASE Released(w) /\ r = Free
    <2>1. r.task # "process" BY <1>5, CsvPipelineAssumption DEF Free, Tasks
    <2> QED BY <1>1, <1>2, <1>3, <1>5, <2>1 DEF WorkOK, Kinds, HoldsRow, Does, Released
  <1>6. CASE lock = None /\ lock' = w /\ r.task = "process" /\ r.at = "publish"
    BY <1>1, <1>2, <1>3, <1>6 DEF WorkOK, Kinds, HoldsRow, Does
  <1> QED BY <1>4, <1>5, <1>6

\* The record of a worker after each kind of move.
LEMMA Records ==
  ASSUME NEW r \in WorkRec, NEW a \in Stages
  PROVE  LET m == [r EXCEPT !.at = a]
         IN  /\ m \in WorkRec /\ m.task = r.task /\ m.at = a
             /\ m.todo = r.todo /\ m.n = r.n /\ m.made = r.made
  BY DEF WorkRec

\* The record of a worker that takes a message.
LEMMA TakenRecord ==
  ASSUME NEW t \in Tasks, NEW a \in Stages
  PROVE  LET m == [Free EXCEPT !.task = t, !.at = a]
         IN  /\ m \in WorkRec /\ m.task = t /\ m.at = a /\ m.todo = Nothing
             /\ m.made = Nothing /\ m.n = 0
  BY Blank DEF WorkRec, Free

\* The types of everything but the workers and the lock.
RestOK ==
    /\ mode \in Modes
    /\ row \in [status: Active \cup {"completed", "failed"}, done: BOOLEAN, job: BOOLEAN]
    /\ queue \in [Tasks -> Nat]
    /\ StreamOK(parsed) /\ StreamOK(cleaned)
    /\ originals \in BOOLEAN /\ lost \subseteq Chunks \X Losses /\ stale \in BOOLEAN
    /\ contacts \in [Chunks -> Nat] /\ awarded \in Nat
    /\ faults \in 0 .. MaxFaults /\ doubled \in 0 .. faults

\* The queues after a message is sent or taken.
LEMMA QueueTypes ==
  ASSUME queue \in [Tasks -> Nat]
  PROVE  \A t \in Tasks:
            /\ Enqueue(t) => /\ queue' \in [Tasks -> Nat] /\ queue'[t] = queue[t] + 1
                             /\ \A u \in Tasks \ {t}: queue'[u] = queue[u]
            /\ queue[t] > 0 /\ queue' = [queue EXCEPT ![t] = @ - 1] =>
                  /\ queue' \in [Tasks -> Nat] /\ queue'[t] = queue[t] - 1
                  /\ \A u \in Tasks \ {t}: queue'[u] = queue[u]
  BY DEF Enqueue

\* The row after an update.
LEMMA RowTypes ==
  ASSUME RestOK
  PROVE  /\ \A s \in Active \cup {"completed", "failed"}:
               /\ [row EXCEPT !.status = s] \in [status: Active \cup {"completed", "failed"},
                                                 done: BOOLEAN, job: BOOLEAN]
               /\ [row EXCEPT !.status = s, !.done = TRUE]
                    \in [status: Active \cup {"completed", "failed"}, done: BOOLEAN, job: BOOLEAN]
         /\ \A b \in BOOLEAN: [row EXCEPT !.job = b] 
                    \in [status: Active \cup {"completed", "failed"}, done: BOOLEAN, job: BOOLEAN]
  BY DEF RestOK, Active

\* The chunks that get lost, and the failures of Redis.
LEMMA LossTypes ==
  ASSUME RestOK
  PROVE  /\ \A S \in SUBSET Chunks: \A how \in Losses:
               Lose(S, how) => lost' \subseteq Chunks \X Losses
         /\ \A s: LeftIn(s) \in SUBSET Chunks
         /\ \A m: ChunkOf(m) \in SUBSET Chunks
         /\ \A w: Taken(w) \in SUBSET Chunks
         /\ Outage \/ UNCHANGED faultVars =>
               faults' \in 0 .. MaxFaults /\ doubled' \in 0 .. faults'
  <1>1. ASSUME NEW S \in SUBSET Chunks, NEW how \in Losses, Lose(S, how)
        PROVE  lost' \subseteq Chunks \X Losses
    BY <1>1 DEF Lose, RestOK
  <1>2. Outage \/ UNCHANGED faultVars =>
           faults' \in 0 .. MaxFaults /\ doubled' \in 0 .. faults'
    BY CsvPipelineAssumption DEF Outage, faultVars, RestOK
  <1> QED BY <1>1, <1>2 DEF LeftIn, ChunkOf, Taken

\* Each task a worker takes.
Starts == {<<"process", "publish">>, <<"parse", "publish">>, <<"clean", "collect">>,
           <<"poll", "answer">>, <<"import", "publish">>}

\* Taking a message keeps the types.
LEMMA TakeTypes ==
  ASSUME RestOK, WorkOK, NEW w \in Workers, NEW t, NEW a, <<t, a>> \in Starts,
         Takes(w, t, a),
         \/ lock' = lock /\ t # "process"
         \/ lock = None /\ lock' = w /\ t = "process",
         UNCHANGED <<mode, row, streams, originals, lost, books, stale, faultVars>>
  PROVE  RestOK' /\ WorkOK'
  <1> DEFINE r == [Free EXCEPT !.task = t, !.at = a]
  <1>0. t \in Tasks /\ a \in Stages BY DEF Starts, Tasks, Stages
  <1>1. r \in WorkRec /\ r.task = t /\ r.at = a BY <1>0, TakenRecord
  <1>2. work' = [work EXCEPT ![w] = r] /\ work[w] = Free BY DEF Takes
  <1>3. Free.task # "process" BY CsvPipelineAssumption DEF Free, Tasks
  <1> HIDE DEF r
  <1>4. AtOK(r) BY <1>1 DEF AtOK, Starts
  <1>5. WorkOK' BY <1>1, <1>2, <1>3, <1>4, WorkGoesOn DEF Starts
  <1>6. queue' \in [Tasks -> Nat] BY <1>0, QueueTypes DEF Takes, RestOK
  <1> QED BY <1>5, <1>6 DEF RestOK, streams, books, faultVars

\* The moves of a worker that has a task.
LEMMA GoTypes ==
  ASSUME WorkOK, NEW w \in Workers, lock' = lock, work[w].task # "process",
         \/ Ends(w)
         \/ \E a \in Stages: Goes(w, a) /\ AtOK([work[w] EXCEPT !.at = a])
  PROVE  WorkOK'
  <1>1. work[w] \in WorkRec BY DEF WorkOK
  <1>2. CASE Ends(w)
    <2>1. Free.task # "process" BY CsvPipelineAssumption DEF Free, Tasks
    <2> QED BY <1>2, <2>1, Blank, WorkGoesOn DEF Ends
  <1>3. ASSUME NEW a \in Stages, Goes(w, a), AtOK([work[w] EXCEPT !.at = a]) PROVE WorkOK'
    <2> DEFINE r == [work[w] EXCEPT !.at = a]
    <2>1. r \in WorkRec /\ r.task = work[w].task /\ AtOK(r) BY <1>1, <1>3, Records
    <2>2. work' = [work EXCEPT ![w] = r] BY <1>3 DEF Goes
    <2> HIDE DEF r
    <2> QED BY <2>1, <2>2, WorkGoesOn
  <1> QED BY <1>2, <1>3

\* The types hold initially.
LEMMA TypeInitial == Init => RestOK /\ WorkOK
  <1> SUFFICES ASSUME Init PROVE RestOK /\ WorkOK OBVIOUS
  <1>1. WorkOK
    <2>1. work = [w \in Workers |-> Free] /\ lock = None BY DEF Init
    <2>2. Free.task # "process" BY CsvPipelineAssumption DEF Free, Tasks
    <2> QED BY <2>1, <2>2, Blank DEF WorkOK, Kinds, HoldsRow
  <1>2. queue \in [Tasks -> Nat] BY DEF Init
  <1>3. StreamOK(parsed) /\ StreamOK(cleaned) BY DEF Init, StreamOK, NewStream
  <1>4. faults \in 0 .. MaxFaults /\ doubled \in 0 .. faults
    BY CsvPipelineAssumption DEF Init
  <1> QED BY <1>1, <1>2, <1>3, <1>4, Blank DEF Init, RestOK, Active

\* Routing and parsing.
LEMMA ParseTypes ==
  ASSUME RestOK, WorkOK, NEW w \in Workers,
         \/ Route(w) \/ SingleStart(w) \/ Publish(w) \/ ParseStart(w) \/ ParseFails(w)
         \/ ParseWrite(w) \/ ParseRoute(w)
  PROVE  RestOK' /\ WorkOK'
  <1>w. work[w] \in WorkRec /\ AtOK(work[w]) BY DEF WorkOK, Kinds
  <1>f. Free.task = None /\ Free.at = None /\ None \notin Tasks \cup Stages
    BY CsvPipelineAssumption DEF Free
  <1>1. CASE Route(w)
    <2>1. WorkOK' BY <1>1 DEF Route, WorkOK, Kinds, HoldsRow, Does
    <2>2. queue' \in [Tasks -> Nat] BY <1>1 DEF Route, RestOK, Tasks
    <2>3. faults' \in 0 .. MaxFaults /\ doubled' \in 0 .. faults'
      BY <1>1, CsvPipelineAssumption DEF Route, RestOK, faultVars
    <2> QED BY <1>1, <2>1, <2>2, <2>3 DEF Route, RestOK, streams, books
  <1>2. CASE SingleStart(w)
    <2>1. <<"process", "publish">> \in Starts BY DEF Starts
    <2> QED BY <1>2, <2>1, TakeTypes DEF SingleStart
  <1>3. CASE Publish(w)
    <2>1. work[w].task \in {"parse", "import"}
      <3>1. work[w] # Free BY <1>3, <1>f DEF Publish, Stages
      <3>2. w # None BY CsvPipelineAssumption
      <3> QED BY <1>3, <1>w, <3>1, <3>2 DEF AtOK, Publish, WorkOK, Kinds, HoldsRow
    <2>2. row' \in [status: Active \cup {"completed", "failed"}, done: BOOLEAN, job: BOOLEAN]
      BY <1>3, RowTypes DEF Publish, RestOK, Active
    <2>3. WorkOK'
      <3>1. CASE work[w].task = "import"
        <4>1. AtOK([work[w] EXCEPT !.at = "read"]) BY <1>w, <3>1, Records DEF AtOK, Stages
        <4> QED BY <1>3, <3>1, <4>1, GoTypes DEF Publish, Stages
      <3>2. CASE work[w].task = "parse"
        <4>1. AtOK([work[w] EXCEPT !.at = "write"]) BY <1>w, <3>2, Records DEF AtOK, Stages
        <4> QED BY <1>3, <3>2, <4>1, GoTypes DEF Publish, Stages
      <3> QED BY <2>1, <3>1, <3>2
    <2> QED BY <1>3, <2>2, <2>3 DEF Publish, RestOK, streams, books, faultVars
  <1>4. CASE ParseStart(w)
    <2>1. <<"parse", "publish">> \in Starts BY DEF Starts
    <2>2. /\ Takes(w, "parse", "publish") /\ lock' = lock
          /\ UNCHANGED <<mode, row, streams, originals, lost, books, stale, faultVars>>
      BY <1>4 DEF ParseStart
    <2> QED BY <2>1, <2>2, TakeTypes
  <1>5. CASE ParseFails(w)
    <2>1. WorkOK' BY <1>5 DEF ParseFails, WorkOK, Kinds, HoldsRow, Does
    <2>2. queue' \in [Tasks -> Nat] BY <1>5, QueueTypes DEF ParseFails, RestOK, Tasks
    <2>3. row' \in [status: Active \cup {"completed", "failed"}, done: BOOLEAN, job: BOOLEAN]
      BY <1>5, RowTypes DEF ParseFails
    <2> QED BY <1>5, <2>1, <2>2, <2>3 DEF ParseFails, RestOK, streams, books, faultVars
  <1>6. CASE ParseWrite(w)
    <2>1. work[w].task = "parse" BY <1>6 DEF ParseWrite, Does
    <2>2. AtOK([work[w] EXCEPT !.at = "route"]) BY <1>w, <2>1, Records DEF AtOK, Stages
    <2>3. WorkOK' BY <1>6, <2>1, <2>2, GoTypes DEF ParseWrite, Stages
    <2>4. StreamOK(parsed')
      <3>1. Batches \o Sentinel \in Seq(Message) BY Messages
      <3> QED BY <1>6, <3>1, StreamSteps DEF ParseWrite, RestOK
    <2> QED BY <1>6, <2>3, <2>4 DEF ParseWrite, RestOK, books, faultVars, StreamOK
  <1>7. CASE ParseRoute(w)
    <2>1. work[w].task = "parse" /\ Ends(w) /\ lock' = lock BY <1>7 DEF ParseRoute, Does
    <2>2. WorkOK' BY <2>1, GoTypes
    <2>3. queue' \in [Tasks -> Nat] BY <1>7, QueueTypes DEF ParseRoute, RestOK, Tasks
    <2>4. /\ originals' \in BOOLEAN
          /\ row' \in [status: Active \cup {"completed", "failed"}, done: BOOLEAN, job: BOOLEAN]
      <3>1. CASE UNCHANGED <<row, originals>> BY <3>1 DEF RestOK
      <3>2. CASE originals' \in BOOLEAN /\ row' = [row EXCEPT !.job = TRUE]
        BY <3>2, RowTypes
      <3> QED BY <1>7, <3>1, <3>2 DEF ParseRoute
    <2> QED BY <1>7, <2>2, <2>3, <2>4 DEF ParseRoute, RestOK, streams, books, faultVars
  <1> QED BY <1>1, <1>2, <1>3, <1>4, <1>5, <1>6, <1>7

\* Cleaning.
LEMMA CleanTypes ==
  ASSUME RestOK, WorkOK, NEW w \in Workers,
         \/ CleanStart(w) \/ CleanRead(w) \/ CleanDispatch(w) \/ CleanDone(w)
         \/ \E c \in Chunks: CleanOne(w, c)
  PROVE  RestOK' /\ WorkOK'
  <1>w. work[w] \in WorkRec /\ work \in [Workers -> WorkRec] BY DEF WorkOK
  <1>1. CASE CleanStart(w)
    <2>1. <<"clean", "collect">> \in Starts BY DEF Starts
    <2>2. /\ Takes(w, "clean", "collect") /\ lock' = lock
          /\ UNCHANGED <<mode, row, streams, originals, lost, books, stale, faultVars>>
      BY <1>1 DEF CleanStart
    <2> QED BY <2>1, <2>2, TakeTypes
  <1>2. ASSUME NEW r \in WorkRec, work' = [work EXCEPT ![w] = r], lock' = lock,
               work[w].task = "clean", r.task = "clean",
               r.at \in {"collect", "counted", "dispatch"}
        PROVE  WorkOK'
    BY <1>2, WorkGoesOn DEF AtOK
  <1>3. CASE CleanRead(w)
    <2> DEFINE m == NextMessage(parsed)
    <2>1. /\ work[w].task = "clean" /\ work[w].at \in {"collect", "counted"}
          /\ Unread(parsed) /\ lock' = lock /\ parsed' = HandOut(parsed)
          /\ UNCHANGED <<mode, row, queue, originals, lost, books, stale, faultVars>>
          /\ \/ /\ m.kind = "sentinel" /\ cleaned' = Write(cleaned, Sentinel)
                /\ Goes(w, "counted")
             \/ /\ m.kind = "batch"
                /\ work' = [work EXCEPT ![w].todo[m.chunk] = @ + 1, ![w].n = @ + 1]
                /\ UNCHANGED cleaned
      BY <1>3 DEF CleanRead
    <2>2. StreamOK(parsed') /\ m \in Message BY <2>1, StreamSteps DEF RestOK
    <2>3. StreamOK(cleaned')
      <3>1. CASE cleaned' = Write(cleaned, Sentinel)
        <4>1. StreamOK(cleaned) /\ Sentinel \in Seq(Message) BY Messages DEF RestOK
        <4> QED BY <3>1, <4>1, StreamSteps
      <3>2. CASE cleaned' = cleaned BY <3>2 DEF RestOK
      <3> QED BY <2>1, <3>1, <3>2
    <2>4. WorkOK'
      <3>1. CASE Goes(w, "counted")
        <4> DEFINE r == [work[w] EXCEPT !.at = "counted"]
        <4>1. r \in WorkRec /\ r.task = "clean" /\ r.at = "counted"
          BY <1>w, <2>1, Records DEF Stages
        <4>2. work' = [work EXCEPT ![w] = r] BY <3>1 DEF Goes
        <4> HIDE DEF r
        <4> QED BY <1>2, <2>1, <4>1, <4>2
      <3>2. ASSUME m.kind = "batch",
                   work' = [work EXCEPT ![w].todo[m.chunk] = @ + 1, ![w].n = @ + 1]
            PROVE  WorkOK'
        <4> DEFINE bag == [work[w].todo EXCEPT ![m.chunk] = @ + 1]
                   k == work[w].n + 1
                   r == [work[w] EXCEPT !.todo = bag, !.n = k]
        <4>1. m.chunk \in Chunks BY <2>2, <3>2, Messages
        <4>2. bag \in [Chunks -> Nat] /\ k \in Nat BY <1>w, <4>1 DEF WorkRec
        <4>3. work' = [work EXCEPT ![w] = r] BY <1>w, <3>2
        <4> HIDE DEF bag, k
        <4>4. r \in WorkRec /\ r.task = work[w].task /\ r.at = work[w].at
          BY <1>w, <4>2 DEF WorkRec
        <4> HIDE DEF r
        <4> QED BY <1>2, <2>1, <4>3, <4>4
      <3> QED BY <2>1, <3>1, <3>2
    <2> QED BY <2>1, <2>2, <2>3, <2>4 DEF RestOK, books, faultVars
  <1>4. CASE CleanDispatch(w)
    <2> DEFINE r == [work[w] EXCEPT !.at = "dispatch"]
    <2>1. r \in WorkRec /\ r.task = work[w].task /\ r.at = "dispatch"
      BY <1>w, Records DEF Stages
    <2>2. work' = [work EXCEPT ![w] = r] BY <1>4 DEF CleanDispatch, Goes
    <2> HIDE DEF r
    <2>3. work[w].task = "clean" /\ lock' = lock BY <1>4 DEF CleanDispatch
    <2>4. WorkOK' BY <1>2, <2>1, <2>2, <2>3
    <2>5. lost' \subseteq Chunks \X Losses
      BY <1>4, LossTypes DEF CleanDispatch, Losses
    <2>6. faults' \in 0 .. MaxFaults /\ doubled' \in 0 .. faults'
      BY <1>4, LossTypes DEF CleanDispatch
    <2> QED BY <1>4, <2>4, <2>5, <2>6 DEF CleanDispatch, RestOK, streams, books
  <1>5. CASE CleanDone(w)
    <2>1. work[w].task = "clean" /\ Ends(w) /\ lock' = lock /\ Enqueue("import")
      BY <1>5 DEF CleanDone, Does
    <2>2. WorkOK' BY <2>1, GoTypes
    <2>3. queue' \in [Tasks -> Nat] BY <2>1, QueueTypes DEF RestOK, Tasks
    <2> QED BY <1>5, <2>2, <2>3 DEF CleanDone, RestOK, streams, books, faultVars
  <1>6. ASSUME NEW c \in Chunks, CleanOne(w, c) PROVE RestOK' /\ WorkOK'
    <2> DEFINE bag == [work[w].todo EXCEPT ![c] = @ - 1]
               r == [work[w] EXCEPT !.todo = bag]
    <2>1. work[w].task = "clean" /\ work[w].at = "dispatch" /\ work[w].todo[c] > 0
      BY <1>6 DEF CleanOne, Does
    <2>8. bag \in [Chunks -> Nat] BY <1>w, <2>1 DEF WorkRec
    <2>3. work' = [work EXCEPT ![w] = r] BY <1>w, <1>6 DEF CleanOne
    <2> HIDE DEF bag
    <2>2. r \in WorkRec /\ r.task = "clean" /\ r.at = "dispatch"
      BY <1>w, <2>1, <2>8 DEF WorkRec
    <2> HIDE DEF r
    <2>4. WorkOK' BY <1>2, <1>6, <2>1, <2>2, <2>3 DEF CleanOne
    <2>9. Batch(c) \in Seq(Message) BY Messages
    <2>5. Batch(c) \o Batch(c) \in Seq(Message) BY <2>9
    <2>6. StreamOK(cleaned')
      <3>1. StreamOK(cleaned) BY DEF RestOK
      <3>2. \/ cleaned' = Write(cleaned, Batch(c)) \/ cleaned' = cleaned
            \/ cleaned' = Write(cleaned, Batch(c) \o Batch(c))
        BY <1>6 DEF CleanOne
      <3> QED BY <2>9, <2>5, <3>1, <3>2, StreamSteps
    <2>7. faults' \in 0 .. MaxFaults /\ doubled' \in 0 .. faults'
      BY <1>6, CsvPipelineAssumption DEF CleanOne, RestOK, faultVars, Outage
    <2>10. lost' \subseteq Chunks \X Losses
      <3>1. lost' = lost \/ Lose({c}, "refused") BY <1>6 DEF CleanOne
      <3>2. {c} \in SUBSET Chunks /\ "refused" \in Losses BY DEF Losses
      <3> QED BY <3>1, <3>2, LossTypes DEF RestOK
    <2> QED BY <1>6, <2>4, <2>6, <2>7, <2>10 DEF CleanOne, RestOK, books
  <1> QED BY <1>1, <1>3, <1>4, <1>5, <1>6

\* Polling.
LEMMA PollTypes ==
  ASSUME RestOK, WorkOK, NEW w \in Workers,
         PollStart(w) \/ PollWrites(w) \/ PollDone(w) \/ PollFallsBack(w) \/ PollAgain(w)
  PROVE  RestOK' /\ WorkOK'
  <1>w. work[w] \in WorkRec /\ work \in [Workers -> WorkRec] BY DEF WorkOK
  <1>1. CASE PollStart(w)
    <2>1. CASE Takes(w, "poll", "answer")
      <3>1. <<"poll", "answer">> \in Starts BY DEF Starts
      <3>2. /\ lock' = lock
            /\ UNCHANGED <<mode, row, streams, originals, lost, books, stale, faultVars>>
        BY <1>1 DEF PollStart
      <3> QED BY <2>1, <3>1, <3>2, TakeTypes
    <2>2. CASE UNCHANGED work /\ queue["poll"] > 0 /\ queue' = [queue EXCEPT !["poll"] = @ - 1]
      <3>1. WorkOK' BY <1>1, <2>2 DEF PollStart, WorkOK, Kinds, HoldsRow, Does
      <3>2. queue' \in [Tasks -> Nat] BY <2>2, QueueTypes DEF RestOK, Tasks
      <3> QED BY <1>1, <3>1, <3>2 DEF PollStart, RestOK, streams, books, faultVars
    <2> QED BY <1>1, <2>1, <2>2 DEF PollStart
  <1>2. CASE PollWrites(w)
    <2>1. work[w].task = "poll" /\ lock' = lock /\ Goes(w, "written")
      BY <1>2 DEF PollWrites, Does
    <2>2. WorkOK'
      <3>1. AtOK([work[w] EXCEPT !.at = "written"]) BY <1>w, <2>1, Records DEF AtOK, Stages
      <3> QED BY <2>1, <3>1, GoTypes DEF Stages
    <2>3. PICK bad \in SUBSET Chunks:
            /\ Lose(bad, "batch")
            /\ cleaned' = Write(cleaned,
                 [i \in DOMAIN Ordered |->
                    [kind |-> IF Ordered[i] \in bad THEN "empty" ELSE "batch",
                     chunk |-> Ordered[i]]] \o Sentinel)
      BY <1>2 DEF PollWrites
    <2>7. lost' \subseteq Chunks \X Losses
      <3>1. "batch" \in Losses BY DEF Losses
      <3> QED BY <2>3, <3>1, LossTypes
    <2> DEFINE answers == [i \in DOMAIN Ordered |->
                             [kind |-> IF Ordered[i] \in bad THEN "empty" ELSE "batch",
                              chunk |-> Ordered[i]]]
    <2>4. answers \in Seq(Message)
      <3>1. DOMAIN Ordered = 1 .. Cardinality(Chunks) BY OrderedAll
      <3>2. \A i \in DOMAIN Ordered: answers[i] \in Message BY OrderedAll DEF Message
      <3> QED BY <3>1, <3>2, OrderedAll
    <2> HIDE DEF answers
    <2>5. answers \o Sentinel \in Seq(Message) BY <2>4, Messages
    <2>6. StreamOK(cleaned')
      <3>1. cleaned' = Write(cleaned, answers \o Sentinel) BY <2>3 DEF answers
      <3>2. StreamOK(cleaned) BY DEF RestOK
      <3> QED BY <2>5, <3>1, <3>2, StreamSteps
    <2> QED BY <1>2, <2>2, <2>6, <2>7 DEF PollWrites, RestOK, books, faultVars
  <1>3. CASE PollDone(w) \/ PollFallsBack(w) \/ PollAgain(w)
    <2>1. work[w].task = "poll" /\ Ends(w) /\ lock' = lock
          /\ (Enqueue("import") \/ Enqueue("clean") \/ Enqueue("poll"))
      BY <1>3 DEF PollDone, PollFallsBack, PollAgain, Does
    <2>2. WorkOK' BY <2>1, GoTypes
    <2>3. queue' \in [Tasks -> Nat] BY <2>1, QueueTypes DEF RestOK, Tasks
    <2>4. row' = row \/ row' = [row EXCEPT !.job = FALSE]
      BY <1>3 DEF PollDone, PollFallsBack, PollAgain
    <2>5. row' \in [status: Active \cup {"completed", "failed"}, done: BOOLEAN, job: BOOLEAN]
      <3>1. CASE row' = row BY <3>1 DEF RestOK
      <3>2. CASE row' = [row EXCEPT !.job = FALSE] BY <3>2, RowTypes
      <3> QED BY <2>4, <3>1, <3>2
    <2>6. originals' \in BOOLEAN /\ UNCHANGED <<mode, streams, lost, books, stale, faultVars>>
      BY <1>3 DEF PollDone, PollFallsBack, PollAgain, RestOK
    <2> QED BY <2>2, <2>3, <2>5, <2>6 DEF RestOK, streams, books, faultVars
  <1> QED BY <1>1, <1>2, <1>3

\* Importing.
LEMMA ImportTypes ==
  ASSUME RestOK, WorkOK, NEW w \in Workers,
         \/ ImportStart(w) \/ ImportRead(w) \/ ImportCommit(w) \/ ImportMark(w)
         \/ ImportFails(w) \/ \E c \in Chunks: ImportWakes(w, c)
  PROVE  RestOK' /\ WorkOK'
  <1>w. work[w] \in WorkRec /\ work \in [Workers -> WorkRec] BY DEF WorkOK
  <1>1. CASE ImportStart(w)
    <2>1. <<"import", "publish">> \in Starts BY DEF Starts
    <2>2. /\ Takes(w, "import", "publish") /\ lock' = lock
          /\ UNCHANGED <<mode, row, streams, originals, lost, books, stale, faultVars>>
      BY <1>1 DEF ImportStart
    <2> QED BY <2>1, <2>2, TakeTypes
  <1>2. ASSUME NEW r \in WorkRec, work' = [work EXCEPT ![w] = r], lock' = lock,
               work[w].task = "import", r.task = "import",
               r.at \in {"read", "blocked", "mark"}
        PROVE  WorkOK'
    BY <1>2, WorkGoesOn DEF AtOK
  <1>3. CASE ImportRead(w)
    <2> DEFINE m == NextMessage(cleaned)
    <2>1. /\ work[w].task = "import" /\ work[w].at = "read"
          /\ Unread(cleaned) /\ lock' = lock /\ cleaned' = HandOut(cleaned)
          /\ UNCHANGED <<mode, row, queue, parsed, originals, lost, books, stale, faultVars>>
          /\ \/ UNCHANGED work
             \/ /\ m.kind = "batch"
                /\ work' = [work EXCEPT ![w].made[m.chunk] = @ + 1]
             \/ /\ m.kind = "batch"
                /\ work' = [work EXCEPT ![w].at = "blocked", ![w].todo[m.chunk] = 1]
      BY <1>3 DEF ImportRead, Does
    <2>2. StreamOK(cleaned') /\ m \in Message BY <2>1, StreamSteps DEF RestOK
    <2>3. m.kind = "batch" => m.chunk \in Chunks BY <2>2, Messages
    <2>4. WorkOK'
      <3>1. ASSUME m.kind = "batch", work' = [work EXCEPT ![w].made[m.chunk] = @ + 1]
            PROVE  WorkOK'
        <4> DEFINE bag == [work[w].made EXCEPT ![m.chunk] = @ + 1]
                   r == [work[w] EXCEPT !.made = bag]
        <4>1. bag \in [Chunks -> Nat] BY <1>w, <2>3, <3>1 DEF WorkRec
        <4>2. work' = [work EXCEPT ![w] = r] BY <1>w, <3>1
        <4> HIDE DEF bag
        <4>3. r \in WorkRec /\ r.task = work[w].task /\ r.at = work[w].at
          BY <1>w, <4>1 DEF WorkRec
        <4> HIDE DEF r
        <4> QED BY <1>2, <2>1, <4>2, <4>3
      <3>2. ASSUME m.kind = "batch",
                   work' = [work EXCEPT ![w].at = "blocked", ![w].todo[m.chunk] = 1]
            PROVE  WorkOK'
        <4> DEFINE bag == [work[w].todo EXCEPT ![m.chunk] = 1]
                   r == [work[w] EXCEPT !.at = "blocked", !.todo = bag]
        <4>1. bag \in [Chunks -> Nat] BY <1>w, <2>3, <3>2 DEF WorkRec
        <4>2. work' = [work EXCEPT ![w] = r] BY <1>w, <3>2
        <4> HIDE DEF bag
        <4>3. r \in WorkRec /\ r.task = work[w].task /\ r.at = "blocked"
          BY <1>w, <4>1 DEF WorkRec, Stages
        <4> HIDE DEF r
        <4> QED BY <1>2, <2>1, <4>2, <4>3
      <3>3. CASE UNCHANGED work BY <2>1, <3>3 DEF WorkOK, Kinds, HoldsRow, Does
      <3> QED BY <2>1, <3>1, <3>2, <3>3
    <2> QED BY <2>1, <2>2, <2>4 DEF RestOK, books, faultVars
  <1>4. CASE ImportCommit(w)
    <2>1. work[w].task = "import" /\ lock' = lock
          /\ work' = [work EXCEPT ![w].at = "mark", ![w].made = Nothing]
      BY <1>4 DEF ImportCommit, Does
    <2>0. /\ contacts' = [c \in Chunks |-> contacts[c] + work[w].made[c]]
          /\ awarded' = awarded + Paid(w)
          /\ UNCHANGED <<mode, row, queue, streams, originals, stale>>
      BY <1>4 DEF ImportCommit
    <2>2. WorkOK'
      <3> DEFINE r == [work[w] EXCEPT !.at = "mark", !.made = Nothing]
      <3>1. r \in WorkRec /\ r.task = work[w].task /\ r.at = "mark"
        BY <1>w, Blank DEF WorkRec, Stages
      <3>2. work' = [work EXCEPT ![w] = r]
        <4>1. work' = [work EXCEPT ![w].at = "mark", ![w].made = Nothing] BY <2>1
        <4> QED BY <1>w, <4>1 DEF WorkRec
      <3> HIDE DEF r
      <3> QED BY <1>2, <2>1, <3>1, <3>2
    <2>5. lost' \subseteq Chunks \X Losses
      BY <1>4, LossTypes DEF ImportCommit, Losses
    <2>6. faults' \in 0 .. MaxFaults /\ doubled' \in 0 .. faults'
      BY <1>4, LossTypes DEF ImportCommit
    <2>3. contacts' \in [Chunks -> Nat]
      <3>1. contacts \in [Chunks -> Nat] /\ work[w].made \in [Chunks -> Nat]
        BY <1>w DEF RestOK, WorkRec
      <3> QED BY <2>0, <3>1
    <2>4. awarded' \in Nat BY <2>0 DEF Paid, RestOK
    <2> QED BY <2>0, <2>2, <2>3, <2>4, <2>5, <2>6 DEF RestOK, streams
  <1>5. CASE ImportMark(w) \/ ImportFails(w)
    <2>1. work[w].task = "import" /\ Ends(w) /\ lock' = lock
      BY <1>5 DEF ImportMark, ImportFails, Does
    <2>2. WorkOK' BY <2>1, GoTypes
    <2>3. row' \in [status: Active \cup {"completed", "failed"}, done: BOOLEAN, job: BOOLEAN]
      BY <1>5, RowTypes DEF ImportMark, ImportFails
    <2>4. StreamOK(parsed') /\ StreamOK(cleaned')
      <3>1. StreamOK(parsed) /\ StreamOK(cleaned) BY DEF RestOK
      <3> QED BY <1>5, <3>1, StreamSteps DEF ImportMark, ImportFails
    <2> QED BY <1>5, <2>2, <2>3, <2>4 DEF ImportMark, ImportFails, RestOK, books, faultVars
  <1>6. ASSUME NEW c \in Chunks, ImportWakes(w, c) PROVE RestOK' /\ WorkOK'
    <2> DEFINE bag == [work[w].made EXCEPT ![c] = @ + 1]
               r == [work[w] EXCEPT !.at = "read", !.todo = Nothing, !.made = bag]
    <2>1. work[w].task = "import" /\ lock' = lock BY <1>6 DEF ImportWakes, Does
    <2>2. bag \in [Chunks -> Nat] BY <1>w DEF WorkRec
    <2>3. work' = [work EXCEPT ![w] = r]
      <3>1. work' = [work EXCEPT ![w].at = "read", ![w].todo = Nothing, ![w].made[c] = @ + 1]
        BY <1>6 DEF ImportWakes
      <3> QED BY <1>w, <3>1 DEF WorkRec
    <2> HIDE DEF bag
    <2>4. r \in WorkRec /\ r.task = work[w].task /\ r.at = "read"
      BY <1>w, <2>2, Blank DEF WorkRec, Stages
    <2> HIDE DEF r
    <2>5. WorkOK' BY <1>2, <2>1, <2>3, <2>4
    <2> QED BY <1>6, <2>5 DEF ImportWakes, RestOK, streams, books, faultVars
  <1> QED BY <1>1, <1>3, <1>4, <1>5, <1>6

\* A lost answer, dead and overdue workers, the watchdogs, and idle steps.
LEMMA OtherTypes ==
  ASSUME RestOK, WorkOK,
         \/ \E w \in Workers: ReplyLost(w) \/ Crash(w) \/ TimeLimit(w)
         \/ WatchdogRead \/ StatusPollRead \/ FailStale
         \/ UNCHANGED vars
  PROVE  RestOK' /\ WorkOK'
  <1>1. ASSUME NEW w \in Workers, Crash(w) \/ TimeLimit(w) PROVE RestOK' /\ WorkOK'
    <2>1. Ends(w) /\ Released(w) BY <1>1 DEF Crash, TimeLimit
    <2>2. WorkOK' BY <2>1, Blank, WorkGoesOn DEF Ends
    <2>3. queue' \in [Tasks -> Nat]
      BY <1>1, QueueTypes DEF Crash, TimeLimit, RestOK, Tasks, AcksLate
    <2>4. faults' \in 0 .. MaxFaults /\ doubled' \in 0 .. faults'
      BY <1>1, CsvPipelineAssumption DEF Crash, TimeLimit, RestOK, faultVars
    <2>5. lost' \subseteq Chunks \X Losses
      <3>1. lost' = lost \/ Lose(Taken(w), "died") BY <1>1 DEF Crash, TimeLimit
      <3> QED BY <3>1, LossTypes DEF RestOK, Losses
    <2> QED BY <1>1, <2>2, <2>3, <2>4, <2>5 DEF Crash, TimeLimit, RestOK, streams, books
  <1>2. CASE WatchdogRead \/ StatusPollRead
    BY <1>2 DEF WatchdogRead, StatusPollRead, RestOK, WorkOK, Kinds, HoldsRow, Does, streams,
                books, faultVars
  <1>3. CASE FailStale
    <2>1. row' \in [status: Active \cup {"completed", "failed"}, done: BOOLEAN, job: BOOLEAN]
      BY <1>3, RowTypes DEF FailStale
    <2> QED BY <1>3, <2>1 DEF FailStale, RestOK, WorkOK, Kinds, HoldsRow, Does, streams, books,
                              faultVars
  <1>4. CASE UNCHANGED vars
    BY <1>4 DEF vars, RestOK, WorkOK, Kinds, HoldsRow, Does, streams, books, faultVars
  <1>5. ASSUME NEW w \in Workers, ReplyLost(w) PROVE RestOK' /\ WorkOK'
    <2>1. WorkOK' BY <1>5 DEF ReplyLost, WorkOK, Kinds, HoldsRow, Does
    <2>2. faults' \in 0 .. MaxFaults /\ doubled' \in 0 .. faults'
      BY <1>5, LossTypes DEF ReplyLost
    <2>3. lost' \subseteq Chunks \X Losses BY <1>5, LossTypes DEF ReplyLost, Losses
    <2>4. StreamOK(parsed') /\ StreamOK(cleaned')
      <3>1. StreamOK(parsed) /\ StreamOK(cleaned) BY DEF RestOK
      <3>2. \/ Unread(parsed) /\ parsed' = HandOut(parsed) /\ cleaned' = cleaned
            \/ Unread(cleaned) /\ cleaned' = HandOut(cleaned) /\ parsed' = parsed
        BY <1>5 DEF ReplyLost
      <3> QED BY <3>1, <3>2, StreamSteps
    <2> QED BY <1>5, <2>1, <2>2, <2>3, <2>4 DEF ReplyLost, RestOK, books
  <1> QED BY <1>1, <1>2, <1>3, <1>4, <1>5

\* Every step keeps the types.
LEMMA TypeStep == RestOK /\ WorkOK /\ [Next]_vars => RestOK' /\ WorkOK'
  <1> SUFFICES ASSUME RestOK, WorkOK, [Next]_vars PROVE RestOK' /\ WorkOK' OBVIOUS
  <1>1. ASSUME NEW w \in Workers, Step(w) PROVE RestOK' /\ WorkOK'
    BY <1>1, ParseTypes, CleanTypes, PollTypes, ImportTypes DEF Step
  <1> QED BY <1>1, OtherTypes DEF Next

\* Whatever the workers do, die of or repeat, the variables keep their types, and only
\* a single task that waits to publish holds the row (TypeOK).
THEOREM UploadTypes == Spec => []TypeOK
  <1>1. RestOK /\ WorkOK => TypeOK BY DEF TypeOK, RestOK, WorkOK, WorkRec, StreamOK
  <1> QED BY <1>1, TypeInitial, TypeStep, PTL DEF Spec
-----------------------------------------------------------------------------
\* What a move leaves in the worker's record.
Others(w) == \A v \in Workers \ {w}: work'[v] = work[v]
Moves(w, at, todo, made) ==
    /\ Others(w)
    /\ work'[w].task = work[w].task /\ work'[w].at = at
    /\ work'[w].todo = todo /\ work'[w].made = made
Stops(w) == Others(w) /\ work'[w] = Free

\* The record after each helper that moves a worker.
LEMMA MovesOf ==
  ASSUME RestOK, WorkOK, NEW w \in Workers
  PROVE  /\ \A a \in Stages: Goes(w, a) => Moves(w, a, work[w].todo, work[w].made)
         /\ Ends(w) => Stops(w)
         /\ \A t \in Tasks, a \in Stages: Takes(w, t, a) =>
               /\ Others(w) /\ work[w] = Free /\ queue[t] > 0
               /\ queue' = [queue EXCEPT ![t] = @ - 1]
               /\ work'[w].task = t /\ work'[w].at = a
               /\ work'[w].todo = Nothing /\ work'[w].made = Nothing
  <1>1. work \in [Workers -> WorkRec] /\ work[w] \in WorkRec BY DEF WorkOK
  <1>2. ASSUME NEW a \in Stages, Goes(w, a) PROVE Moves(w, a, work[w].todo, work[w].made)
    <2> DEFINE r == [work[w] EXCEPT !.at = a]
    <2>1. /\ r.task = work[w].task /\ r.at = a /\ r.todo = work[w].todo
          /\ r.made = work[w].made
      BY <1>1, Records
    <2>2. work' = [work EXCEPT ![w] = r] BY <1>2 DEF Goes
    <2> HIDE DEF r
    <2> QED BY <1>1, <2>1, <2>2 DEF Moves, Others
  <1>3. Ends(w) => Stops(w) BY <1>1 DEF Ends, Stops, Others
  <1>4. ASSUME NEW t \in Tasks, NEW a \in Stages, Takes(w, t, a)
        PROVE  /\ Others(w) /\ work[w] = Free /\ queue[t] > 0
               /\ queue' = [queue EXCEPT ![t] = @ - 1]
               /\ work'[w].task = t /\ work'[w].at = a
               /\ work'[w].todo = Nothing /\ work'[w].made = Nothing
    <2> DEFINE r == [Free EXCEPT !.task = t, !.at = a]
    <2>1. r.task = t /\ r.at = a /\ r.todo = Nothing /\ r.made = Nothing BY TakenRecord
    <2>2. work' = [work EXCEPT ![w] = r] BY <1>4 DEF Takes
    <2> HIDE DEF r
    <2> QED BY <1>1, <1>4, <2>1, <2>2 DEF Takes, Others
  <1> QED BY <1>2, <1>3, <1>4

\* The reads and writes.
LEMMA ReadMoves ==
  ASSUME RestOK, WorkOK, NEW w \in Workers
  PROVE  /\ CleanRead(w) =>
              LET m == NextMessage(parsed) IN
              \/ /\ m.kind = "sentinel" /\ cleaned' = Write(cleaned, Sentinel)
                 /\ Moves(w, "counted", work[w].todo, work[w].made)
              \/ /\ m.kind = "batch" /\ m.chunk \in Chunks /\ cleaned' = cleaned
                 /\ Moves(w, work[w].at, [work[w].todo EXCEPT ![m.chunk] = @ + 1], work[w].made)
         /\ \A c \in Chunks: CleanOne(w, c) =>
              Moves(w, "dispatch", [work[w].todo EXCEPT ![c] = @ - 1], work[w].made)
         /\ ImportRead(w) =>
              LET m == NextMessage(cleaned) IN
              \/ /\ m.kind = "batch" => contacts[m.chunk] > 0
                 /\ UNCHANGED work
              \/ /\ m.kind = "batch" /\ m.chunk \in Chunks
                 /\ Moves(w, "read", work[w].todo, [work[w].made EXCEPT ![m.chunk] = @ + 1])
              \/ /\ m.kind = "batch" /\ m.chunk \in Chunks /\ Rivals(w, m.chunk) # {}
                 /\ Moves(w, "blocked", [work[w].todo EXCEPT ![m.chunk] = 1], work[w].made)
         /\ \A c \in Chunks: ImportWakes(w, c) =>
              Moves(w, "read", Nothing, [work[w].made EXCEPT ![c] = @ + 1])
         /\ ImportCommit(w) => Moves(w, "mark", work[w].todo, Nothing)
  <1>1. work \in [Workers -> WorkRec] /\ work[w] \in WorkRec BY DEF WorkOK
  <1>2. /\ Unread(parsed) => NextMessage(parsed) \in Message
        /\ Unread(cleaned) => NextMessage(cleaned) \in Message
    BY StreamSteps DEF RestOK
  <1>3. ASSUME CleanRead(w)
        PROVE  LET m == NextMessage(parsed) IN
              \/ /\ m.kind = "sentinel" /\ cleaned' = Write(cleaned, Sentinel)
                 /\ Moves(w, "counted", work[w].todo, work[w].made)
              \/ /\ m.kind = "batch" /\ m.chunk \in Chunks /\ cleaned' = cleaned
                 /\ Moves(w, work[w].at, [work[w].todo EXCEPT ![m.chunk] = @ + 1], work[w].made)
    <2> DEFINE m == NextMessage(parsed)
    <2>1. /\ Unread(parsed)
          /\ \/ m.kind = "sentinel" /\ Goes(w, "counted") /\ cleaned' = Write(cleaned, Sentinel)
             \/ /\ m.kind = "batch" /\ cleaned' = cleaned
                /\ work' = [work EXCEPT ![w].todo[m.chunk] = @ + 1, ![w].n = @ + 1]
      BY <1>3 DEF CleanRead
    <2>2. m \in Message BY <1>2, <2>1
    <2> HIDE DEF m
    <2>3. CASE m.kind = "sentinel" /\ Goes(w, "counted") /\ cleaned' = Write(cleaned, Sentinel)
      <3>1. Moves(w, "counted", work[w].todo, work[w].made) BY <2>3, MovesOf DEF Stages
      <3> QED BY <2>3, <3>1 DEF m
    <2>4. CASE /\ m.kind = "batch" /\ cleaned' = cleaned
               /\ work' = [work EXCEPT ![w].todo[m.chunk] = @ + 1, ![w].n = @ + 1]
      <3>1. m.chunk \in Chunks BY <2>2, <2>4, Messages
      <3>2. Moves(w, work[w].at, [work[w].todo EXCEPT ![m.chunk] = @ + 1], work[w].made)
        BY <1>1, <2>4, <3>1 DEF WorkRec, Moves, Others
      <3> QED BY <2>4, <3>1, <3>2 DEF m
    <2> QED BY <2>1, <2>3, <2>4
  <1>4. ASSUME NEW c \in Chunks, CleanOne(w, c)
        PROVE  Moves(w, "dispatch", [work[w].todo EXCEPT ![c] = @ - 1], work[w].made)
    <2>1. work' = [work EXCEPT ![w].todo[c] = @ - 1] /\ work[w].at = "dispatch"
      BY <1>4 DEF CleanOne, Does
    <2> QED BY <1>1, <2>1 DEF WorkRec, Moves, Others
  <1>5. ASSUME ImportRead(w)
        PROVE  LET m == NextMessage(cleaned) IN
              \/ /\ m.kind = "batch" => contacts[m.chunk] > 0
                 /\ UNCHANGED work
              \/ /\ m.kind = "batch" /\ m.chunk \in Chunks
                 /\ Moves(w, "read", work[w].todo, [work[w].made EXCEPT ![m.chunk] = @ + 1])
              \/ /\ m.kind = "batch" /\ m.chunk \in Chunks /\ Rivals(w, m.chunk) # {}
                 /\ Moves(w, "blocked", [work[w].todo EXCEPT ![m.chunk] = 1], work[w].made)
    <2> DEFINE m == NextMessage(cleaned)
    <2>1. /\ Unread(cleaned) /\ work[w].at = "read"
          /\ \/ /\ m.kind = "batch" => contacts[m.chunk] > 0
                /\ UNCHANGED work
             \/ /\ m.kind = "batch"
                /\ work' = [work EXCEPT ![w].made[m.chunk] = @ + 1]
             \/ /\ m.kind = "batch" /\ Rivals(w, m.chunk) # {}
                /\ work' = [work EXCEPT ![w].at = "blocked", ![w].todo[m.chunk] = 1]
      BY <1>5 DEF ImportRead, Does
    <2>2. m.kind = "batch" => m.chunk \in Chunks BY <1>2, <2>1, Messages
    <2> HIDE DEF m
    <2>3. ASSUME m.kind = "batch", work' = [work EXCEPT ![w].made[m.chunk] = @ + 1]
          PROVE  Moves(w, "read", work[w].todo, [work[w].made EXCEPT ![m.chunk] = @ + 1])
      BY <1>1, <2>1, <2>2, <2>3 DEF WorkRec, Moves, Others
    <2>4. ASSUME m.kind = "batch",
                 work' = [work EXCEPT ![w].at = "blocked", ![w].todo[m.chunk] = 1]
          PROVE  Moves(w, "blocked", [work[w].todo EXCEPT ![m.chunk] = 1], work[w].made)
      BY <1>1, <2>1, <2>2, <2>4 DEF WorkRec, Moves, Others
    <2> QED BY <2>1, <2>2, <2>3, <2>4 DEF m
  <1>6. ASSUME NEW c \in Chunks, ImportWakes(w, c)
        PROVE  Moves(w, "read", Nothing, [work[w].made EXCEPT ![c] = @ + 1])
    <2>1. work' = [work EXCEPT ![w].at = "read", ![w].todo = Nothing, ![w].made[c] = @ + 1]
      BY <1>6 DEF ImportWakes
    <2> QED BY <1>1, <2>1 DEF WorkRec, Moves, Others
  <1>7. ASSUME ImportCommit(w) PROVE Moves(w, "mark", work[w].todo, Nothing)
    <2>1. work' = [work EXCEPT ![w].at = "mark", ![w].made = Nothing]
      BY <1>7 DEF ImportCommit
    <2> QED BY <1>1, <2>1 DEF WorkRec, Moves, Others
  <1> QED BY <1>3, <1>4, <1>5, <1>6, <1>7
-----------------------------------------------------------------------------
\* Tokens: messages in a queue and workers with a task.  A fault that hands something
\* over twice adds one; every award uses one up.
Live == {w \in Workers: work[w] # Free}
Unpaid == {w \in Workers: work[w] # Free /\ work[w].at # "mark"}
Queued == SumFunctionOnSet(queue, Tasks)
TokenInv == Queued + Cardinality(Live) <= 1 + doubled
BudgetInv == awarded + Queued + Cardinality(Unpaid) <= 1 + faults

\* There are finitely many tasks.
LEMMA TasksFinite == IsFiniteSet(Tasks)
  <1>1. Tasks = ((({"process"} \cup {"parse"}) \cup {"clean"}) \cup {"import"}) \cup {"poll"}
    BY DEF Tasks
  <1>2. IsFiniteSet({"process"}) BY FS_Singleton
  <1>3. IsFiniteSet({"process"} \cup {"parse"}) BY <1>2, FS_AddElement
  <1>4. IsFiniteSet(({"process"} \cup {"parse"}) \cup {"clean"}) BY <1>3, FS_AddElement
  <1>5. IsFiniteSet((({"process"} \cup {"parse"}) \cup {"clean"}) \cup {"import"})
    BY <1>4, FS_AddElement
  <1>6. IsFiniteSet(((({"process"} \cup {"parse"}) \cup {"clean"}) \cup {"import"}) \cup {"poll"})
    BY <1>5, FS_AddElement
  <1> QED BY <1>1, <1>6

\* The number of messages in all queues, before and after one is sent or taken.
LEMMA QueueSum ==
  ASSUME queue \in [Tasks -> Nat]
  PROVE  /\ Queued \in Nat
         /\ queue' = queue => Queued' = Queued
         /\ \A t \in Tasks: queue[t] <= Queued
         /\ \A t \in Tasks, n \in Int: queue' = [queue EXCEPT ![t] = @ + n]
                                         => Queued' = Queued + n
         /\ \A t \in Tasks: queue' = [queue EXCEPT ![t] = @ - 1] => Queued' = Queued - 1
         /\ \A t, u \in Tasks: t # u => queue[t] + queue[u] <= Queued
  <1>1. Queued \in Nat BY TasksFinite, SumNatural DEF Queued
  <1>2. queue' = queue => Queued' = Queued BY DEF Queued
  <1>3. ASSUME NEW t \in Tasks
        PROVE  /\ queue[t] <= Queued
               /\ \A u \in Tasks \ {t}: queue[t] + queue[u] <= Queued
    <2>1. Queued = queue[t] + SumFunctionOnSet(queue, Tasks \ {t})
      BY TasksFinite, SumElements DEF Queued
    <2>2. IsFiniteSet(Tasks \ {t}) BY TasksFinite, FS_RemoveElement
    <2>3. SumFunctionOnSet(queue, Tasks \ {t}) \in Nat BY <2>2, SumNatural
    <2>4. ASSUME NEW u \in Tasks \ {t} PROVE queue[t] + queue[u] <= Queued
      <3>1. SumFunctionOnSet(queue, Tasks \ {t})
              = queue[u] + SumFunctionOnSet(queue, (Tasks \ {t}) \ {u})
        BY <2>2, SumElements
      <3>2. IsFiniteSet((Tasks \ {t}) \ {u}) BY <2>2, FS_RemoveElement
      <3>3. SumFunctionOnSet(queue, (Tasks \ {t}) \ {u}) \in Nat BY <3>2, SumNatural
      <3> QED BY <2>1, <2>3, <3>1, <3>3
    <2> DEFINE rest == SumFunctionOnSet(queue, Tasks \ {t})
    <2>5. queue[t] \in Nat /\ rest \in Nat /\ Queued = queue[t] + rest BY <2>1, <2>3
    <2> HIDE DEF rest
    <2>6. queue[t] <= Queued BY <2>5
    <2> QED BY <2>4, <2>6
  <1>4. ASSUME NEW t \in Tasks, NEW m \in Int, queue' = [queue EXCEPT ![t] = m]
        PROVE  Queued' = Queued - queue[t] + m
    <2>1. \A y \in Tasks: queue[y] \in Int OBVIOUS
    <2>2. queue'[t] = m /\ \A y \in Tasks \ {t}: queue'[y] = queue[y] BY <1>4
    <2>3. SumFunctionOnSet(queue', Tasks)
            = SumFunctionOnSet(queue, Tasks) - queue[t] + queue'[t]
      BY <2>1, <2>2, TasksFinite, SumExcept
    <2> QED BY <2>2, <2>3 DEF Queued
  <1>5. ASSUME NEW t \in Tasks, NEW n \in Int, queue' = [queue EXCEPT ![t] = queue[t] + n]
        PROVE  Queued' = Queued + n
    <2> DEFINE m == queue[t] + n
    <2>1. m \in Int /\ queue' = [queue EXCEPT ![t] = m] BY <1>5
    <2>2. Queued' = Queued - queue[t] + m
      <3> HIDE DEF m
      <3> QED BY <1>4, <2>1
    <2> QED BY <1>1, <2>2
  <1>6. ASSUME NEW t \in Tasks, queue' = [queue EXCEPT ![t] = queue[t] - 1]
        PROVE  Queued' = Queued - 1
    <2> DEFINE m == queue[t] - 1
    <2>1. m \in Int /\ queue' = [queue EXCEPT ![t] = m] BY <1>6
    <2>2. Queued' = Queued - queue[t] + m
      <3> HIDE DEF m
      <3> QED BY <1>4, <2>1
    <2> QED BY <1>1, <2>2
  <1> QED BY <1>1, <1>2, <1>3, <1>5, <1>6

\* One worker's record decides whether it counts.
LEMMA LiveSets ==
  ASSUME WorkOK, WorkOK', NEW w \in Workers, Others(w)
  PROVE  /\ Cardinality(Live) \in Nat /\ Cardinality(Unpaid) \in Nat
         /\ Cardinality(Live') = Cardinality(Live)
              - (IF work[w] = Free THEN 0 ELSE 1) + (IF work'[w] = Free THEN 0 ELSE 1)
         /\ Cardinality(Unpaid') = Cardinality(Unpaid)
              - (IF work[w] = Free \/ work[w].at = "mark" THEN 0 ELSE 1)
              + (IF work'[w] = Free \/ work'[w].at = "mark" THEN 0 ELSE 1)
  <1>1. ASSUME NEW S \in SUBSET Workers
        PROVE  /\ IsFiniteSet(S) /\ Cardinality(S) \in Nat
               /\ Cardinality(S \ {w}) = Cardinality(S) - (IF w \in S THEN 1 ELSE 0)
    <2>1. IsFiniteSet(S) BY CsvPipelineAssumption, FS_Subset
    <2> QED BY <2>1, FS_CardinalityType, FS_RemoveElement
  <1>2. Live \in SUBSET Workers /\ Live' \in SUBSET Workers /\ Live' \ {w} = Live \ {w}
        /\ (w \in Live <=> work[w] # Free) /\ (w \in Live' <=> work'[w] # Free)
    BY DEF Live, Others
  <1>3. Unpaid \in SUBSET Workers /\ Unpaid' \in SUBSET Workers /\ Unpaid' \ {w} = Unpaid \ {w}
        /\ (w \in Unpaid <=> work[w] # Free /\ work[w].at # "mark")
        /\ (w \in Unpaid' <=> work'[w] # Free /\ work'[w].at # "mark")
    BY DEF Unpaid, Others
  <1> HIDE DEF Live, Unpaid
  <1>4. Cardinality(Live) - (IF work[w] = Free THEN 0 ELSE 1)
          = Cardinality(Live') - (IF work'[w] = Free THEN 0 ELSE 1)
    <2>1. Cardinality(Live \ {w}) = Cardinality(Live) - (IF work[w] = Free THEN 0 ELSE 1)
      BY <1>1, <1>2
    <2>2. Cardinality(Live' \ {w}) = Cardinality(Live') - (IF work'[w] = Free THEN 0 ELSE 1)
      BY <1>1, <1>2
    <2> QED BY <1>2, <2>1, <2>2
  <1>5. Cardinality(Unpaid) - (IF work[w] = Free \/ work[w].at = "mark" THEN 0 ELSE 1)
          = Cardinality(Unpaid') - (IF work'[w] = Free \/ work'[w].at = "mark" THEN 0 ELSE 1)
    <2>1. Cardinality(Unpaid \ {w})
            = Cardinality(Unpaid) - (IF work[w] = Free \/ work[w].at = "mark" THEN 0 ELSE 1)
      BY <1>1, <1>3
    <2>2. Cardinality(Unpaid' \ {w})
            = Cardinality(Unpaid') - (IF work'[w] = Free \/ work'[w].at = "mark" THEN 0 ELSE 1)
      BY <1>1, <1>3
    <2> QED BY <1>3, <2>1, <2>2
  <1>6. /\ Cardinality(Live) \in Nat /\ Cardinality(Unpaid) \in Nat
        /\ Cardinality(Live') \in Nat /\ Cardinality(Unpaid') \in Nat
    BY <1>1, <1>2, <1>3
  <1> QED BY ONLY <1>4, <1>5, <1>6

\* No award and no fault.
Same == UNCHANGED <<awarded, faults, doubled>>
\* What one step does to the tokens, for every kind of step.
LEMMA Steps ==
  ASSUME RestOK, WorkOK, NEW w \in Workers,
         Step(w) \/ ReplyLost(w) \/ Crash(w) \/ TimeLimit(w)
  PROVE  \* takes a message
         \/ /\ Others(w) /\ work[w] = Free /\ work'[w] # Free /\ work'[w].at # "mark"
            /\ Queued' = Queued - 1 /\ Same
         \* goes on
         \/ /\ Others(w) /\ work[w] # Free /\ work'[w] # Free
            /\ work[w].at # "mark" /\ work'[w].at # "mark"
            /\ Queued' = Queued /\ awarded' = awarded
            /\ \/ faults' = faults /\ doubled' = doubled
               \/ faults' = faults + 1 /\ doubled' \in {doubled, doubled + 1}
         \* hands over
         \/ /\ Others(w) /\ work[w] # Free /\ work[w].at # "mark" /\ work'[w] = Free
            /\ Queued' = Queued + 1 /\ Same
         \* ends
         \/ Others(w) /\ work[w] # Free /\ work'[w] = Free /\ Queued' = Queued /\ Same
         \* drops or passes on a message
         \/ work' = work /\ (Queued' = Queued - 1 \/ Queued' = Queued) /\ Same
         \* loses an answer
         \/ work' = work /\ Queued' = Queued /\ awarded' = awarded
            /\ faults' = faults + 1 /\ doubled' = doubled
         \* repeats a message
         \/ work' = work /\ Queued' = Queued + 1 /\ awarded' = awarded
            /\ faults' = faults + 1 /\ doubled' = doubled + 1
         \* pays
         \/ /\ Others(w) /\ work[w] # Free /\ work[w].at # "mark" /\ work'[w] # Free
            /\ work'[w].at = "mark" /\ Queued' = Queued
            /\ awarded' \in {awarded, awarded + 1} /\ faults' \in {faults, faults + 1}
            /\ doubled' = doubled
         \* dies
         \/ /\ Others(w) /\ work[w] # Free /\ work'[w] = Free
            /\ Queued' \in {Queued, Queued + 1} /\ awarded' = awarded
            /\ faults' = faults + 1 /\ doubled' \in {doubled, doubled + 1}
  <1>q. /\ queue' = queue => Queued' = Queued
        /\ \A t \in Tasks: Enqueue(t) => Queued' = Queued + 1
        /\ \A t \in Tasks: queue' = [queue EXCEPT ![t] = @ - 1] => Queued' = Queued - 1
    BY QueueSum DEF RestOK, Enqueue
  <1>k. \A t \in {"process", "parse", "clean", "poll", "import"}: t \in Tasks BY DEF Tasks
  <1>f. Free.task = None /\ Free.at = None /\ None \notin Tasks \cup Stages
    BY CsvPipelineAssumption DEF Free
  <1>b. \A a \in Stages: work[w].at = a => work[w] # Free BY <1>f
  <1>t. \A t \in Tasks: work[w].task = t => work[w] # Free BY <1>f
  <1>a. \A t \in Tasks: work'[w].task = t => work'[w] # Free BY <1>f
  <1>1. ASSUME NEW t, NEW a, <<t, a>> \in Starts, Takes(w, t, a), Same
        PROVE  /\ Others(w) /\ work[w] = Free /\ work'[w] # Free /\ work'[w].at # "mark"
               /\ Queued' = Queued - 1 /\ Same
    <2>1. t \in Tasks /\ a \in Stages /\ a # "mark" BY <1>1 DEF Starts, Tasks, Stages
    <2> QED BY <1>1, <1>q, <1>a, <2>1, MovesOf
  <1>2. CASE SingleStart(w) \/ ParseStart(w) \/ CleanStart(w) \/ ImportStart(w)
    <2>1. \E t, a: <<t, a>> \in Starts /\ Takes(w, t, a) /\ Same
      BY <1>2 DEF SingleStart, ParseStart, CleanStart, ImportStart, Starts, Same, books, faultVars
    <2> QED BY <1>1, <2>1
  <1>3. CASE PollStart(w)
    <2>1. CASE Takes(w, "poll", "answer")
      <3>1. <<"poll", "answer">> \in Starts /\ Same
        BY <1>3 DEF PollStart, Starts, Same, books, faultVars
      <3> QED BY <1>1, <2>1, <3>1
    <2>2. CASE UNCHANGED work /\ queue' = [queue EXCEPT !["poll"] = @ - 1]
      <3>1. Same BY <1>3 DEF PollStart, Same, books, faultVars
      <3> QED BY <1>q, <1>k, <2>2, <3>1
    <2> QED BY <1>3, <2>1, <2>2 DEF PollStart
  <1>4. CASE ParseFails(w)
    <2>1. work' = work /\ queue' = [queue EXCEPT !["parse"] = @ - 1] /\ Same
      BY <1>4 DEF ParseFails, Same, books, faultVars
    <2> QED BY <1>q, <1>k, <2>1
  <1>5. CASE Route(w)
    <2>1. work' = work /\ awarded' = awarded BY <1>5 DEF Route, books
    <2>2. CASE /\ queue' = [queue EXCEPT !["process"] = @ - 1, !["parse"] = @ + 1]
               /\ UNCHANGED faultVars
      <3> DEFINE q == [queue EXCEPT !["process"] = @ - 1]
      <3>1. queue["process"] > 0 BY <1>5 DEF Route
      <3>2. q \in [Tasks -> Nat] /\ q["parse"] = queue["parse"]
        BY <3>1, <1>k, QueueTypes DEF RestOK
      <3>3. queue' = [q EXCEPT !["parse"] = @ + 1] BY <2>2
      <3>4. SumFunctionOnSet(q, Tasks) = Queued - 1
        <4>1. \A y \in Tasks: queue[y] \in Int BY DEF RestOK
        <4>2. q["process"] = queue["process"] - 1
              /\ \A y \in Tasks \ {"process"}: q[y] = queue[y]
          BY <1>k DEF RestOK
        <4> HIDE DEF q
        <4>3. SumFunctionOnSet(q, Tasks)
                = SumFunctionOnSet(queue, Tasks) - queue["process"] + q["process"]
          BY <1>k, <3>2, <4>1, <4>2, TasksFinite, SumExcept
        <4>4. Queued \in Nat /\ queue["process"] \in Nat BY <1>k, QueueSum DEF RestOK
        <4> QED BY <4>2, <4>3, <4>4 DEF Queued
      <3> HIDE DEF q
      <3>5. Queued' = SumFunctionOnSet(q, Tasks) + 1
        <4>1. \A y \in Tasks: q[y] \in Int BY <3>2
        <4>2. queue'["parse"] = q["parse"] + 1 /\ \A y \in Tasks \ {"parse"}: queue'[y] = q[y]
          BY <1>k, <3>2, <3>3
        <4>3. SumFunctionOnSet(queue', Tasks)
                = SumFunctionOnSet(q, Tasks) - q["parse"] + queue'["parse"]
          BY <1>k, <3>2, <4>1, <4>2, TasksFinite, SumExcept
        <4>4. SumFunctionOnSet(q, Tasks) \in Int /\ q["parse"] \in Int
          BY <1>k, <4>1, TasksFinite, SumElements
        <4> QED BY <4>2, <4>3, <4>4 DEF Queued
      <3>6. Queued \in Nat BY QueueSum DEF RestOK
      <3>7. Queued' = Queued BY <3>4, <3>5, <3>6
      <3> QED BY <2>1, <2>2, <3>7 DEF Same, faultVars
    <2>3. CASE /\ queue' = [queue EXCEPT !["parse"] = @ + 1]
               /\ faults' = faults + 1 /\ doubled' = doubled + 1
      <3>1. Queued' = Queued + 1 BY <2>3, <1>q, <1>k DEF Enqueue
      <3> QED BY <2>1, <2>3, <3>1
    <2> QED BY <1>5, <2>2, <2>3 DEF Route
  <1>6. ASSUME NEW a \in Stages \ {"mark"}, NEW todo, NEW made, Moves(w, a, todo, made),
               queue' = queue, awarded' = awarded,
               work[w].task \in Tasks, work[w].at # "mark",
               \/ UNCHANGED faultVars \/ Outage
               \/ faults' = faults + 1 /\ doubled' = doubled + 1
        PROVE  /\ Others(w) /\ work[w] # Free /\ work'[w] # Free
               /\ work[w].at # "mark" /\ work'[w].at # "mark"
               /\ Queued' = Queued /\ awarded' = awarded
               /\ \/ faults' = faults /\ doubled' = doubled
                  \/ faults' = faults + 1 /\ doubled' \in {doubled, doubled + 1}
    BY <1>6, <1>q, <1>t, <1>a DEF Moves, faultVars, Outage
  <1>7. CASE Publish(w) \/ ParseWrite(w) \/ CleanDispatch(w) \/ PollWrites(w)
    <2>1. \E a \in Stages \ {"mark"}: Goes(w, a)
      BY <1>7 DEF Publish, ParseWrite, CleanDispatch, PollWrites, Stages
    <2>2. \E a \in Stages \ {"mark"}: Moves(w, a, work[w].todo, work[w].made)
      BY <2>1, MovesOf
    <2>3. /\ queue' = queue /\ awarded' = awarded /\ (UNCHANGED faultVars \/ Outage)
          /\ work[w].at \in Stages /\ work[w].at # "mark"
      BY <1>7 DEF Publish, ParseWrite, CleanDispatch, PollWrites, Stages, Does, books
    <2>4. work[w].task \in Tasks
      <3>1. AtOK(work[w]) /\ work[w] # Free BY <1>b, <2>3 DEF WorkOK, Kinds
      <3> QED BY <3>1 DEF AtOK, Tasks
    <2> QED BY <1>6, <2>2, <2>3, <2>4
  <1>8. CASE CleanRead(w)
    <2>1. /\ queue' = queue /\ awarded' = awarded /\ UNCHANGED faultVars
          /\ work[w].task \in Tasks /\ work[w].at # "mark"
          /\ work[w].at \in Stages
      BY <1>8 DEF CleanRead, Tasks, Stages, books
    <2>2. \E a \in Stages \ {"mark"}: \E todo, made: Moves(w, a, todo, made)
      BY <1>8, <2>1, ReadMoves DEF Stages
    <2> QED BY <1>6, <2>1, <2>2
  <1>9. ASSUME NEW c \in Chunks, CleanOne(w, c) \/ ImportWakes(w, c)
        PROVE  /\ Others(w) /\ work[w] # Free /\ work'[w] # Free
               /\ work[w].at # "mark" /\ work'[w].at # "mark"
               /\ Queued' = Queued /\ awarded' = awarded
               /\ \/ faults' = faults /\ doubled' = doubled
                  \/ faults' = faults + 1 /\ doubled' \in {doubled, doubled + 1}
    <2>1. /\ queue' = queue /\ awarded' = awarded
          /\ work[w].task \in Tasks /\ work[w].at # "mark"
          /\ \/ UNCHANGED faultVars \/ Outage
             \/ faults' = faults + 1 /\ doubled' = doubled + 1
      BY <1>9 DEF CleanOne, ImportWakes, Does, Tasks, books
    <2>2. \E a \in Stages \ {"mark"}: \E todo, made: Moves(w, a, todo, made)
      BY <1>9, ReadMoves DEF Stages
    <2> QED BY <1>6, <2>1, <2>2
  <1>10. CASE ImportRead(w)
    <2>1. /\ queue' = queue /\ awarded' = awarded /\ UNCHANGED faultVars
          /\ work[w].task \in Tasks /\ work[w].at = "read"
      BY <1>10 DEF ImportRead, Does, Tasks, books
    <2>2. CASE UNCHANGED work BY <1>q, <2>1, <2>2 DEF Same, faultVars
    <2>3. CASE ~UNCHANGED work
      <3>1. \E a \in Stages \ {"mark"}: \E todo, made: Moves(w, a, todo, made)
        BY <1>10, <2>3, ReadMoves DEF Stages
      <3> QED BY <1>6, <2>1, <3>1
    <2> QED BY <2>2, <2>3
  <1>11. CASE \/ ParseRoute(w) \/ CleanDone(w) \/ PollDone(w) \/ PollFallsBack(w)
              \/ PollAgain(w)
    <2>1. /\ Ends(w) /\ (\E t \in Tasks: Enqueue(t)) /\ Same
          /\ work[w].at \in Stages /\ work[w].at # "mark"
      BY <1>11 DEF ParseRoute, CleanDone, PollDone, PollFallsBack, PollAgain, Does, Tasks,
                   Stages, Same, books, faultVars
    <2>2. Stops(w) BY <2>1, MovesOf
    <2> QED BY <1>q, <1>b, <2>1, <2>2 DEF Stops
  <1>12. CASE ImportMark(w) \/ ImportFails(w)
    <2>1. Ends(w) /\ queue' = queue /\ Same /\ work[w].at \in Stages
      BY <1>12 DEF ImportMark, ImportFails, Does, Stages, Same, books, faultVars
    <2>2. Stops(w) BY <2>1, MovesOf
    <2> QED BY <1>q, <1>b, <2>1, <2>2 DEF Stops
  <1>13. CASE TimeLimit(w)
    <2>1. Ends(w) /\ queue' = queue /\ Same /\ work[w] # Free
      BY <1>13 DEF TimeLimit, Same, books, faultVars
    <2>2. Stops(w) BY <2>1, MovesOf
    <2> QED BY <1>q, <2>1, <2>2 DEF Stops
  <1>14. CASE ImportCommit(w)
    <2>1. /\ queue' = queue /\ (UNCHANGED faultVars \/ Outage)
          /\ work[w].task \in Tasks /\ work[w].at = "read"
          /\ awarded' = awarded + Paid(w)
      BY <1>14 DEF ImportCommit, Does, Tasks
    <2>2. Moves(w, "mark", work[w].todo, Nothing) BY <1>14, ReadMoves
    <2>3. awarded' \in {awarded, awarded + 1} BY <2>1 DEF Paid, RestOK
    <2>4. faults' \in {faults, faults + 1} /\ doubled' = doubled BY <2>1 DEF Outage, faultVars
    <2> QED BY <1>q, <1>t, <1>a, <2>1, <2>2, <2>3, <2>4 DEF Moves
  <1>15. CASE Crash(w)
    <2>1. /\ Ends(w) /\ work[w] # Free /\ awarded' = awarded /\ faults' = faults + 1
          /\ doubled' = doubled + (IF Does(w, "poll", "written") THEN 1 ELSE 0)
          /\ queue' = queue \/ \E t \in Tasks: Enqueue(t)
      BY <1>15 DEF Crash, AcksLate, Tasks, books
    <2>2. Stops(w) BY <2>1, MovesOf
    <2>3. doubled' \in {doubled, doubled + 1} BY <2>1 DEF RestOK
    <2>4. Queued' \in {Queued, Queued + 1} BY <1>q, <2>1
    <2> QED BY <2>1, <2>2, <2>3, <2>4 DEF Stops
  <1>16. CASE ReplyLost(w)
    <2>1. work' = work /\ queue' = queue /\ awarded' = awarded /\ Outage
      BY <1>16 DEF ReplyLost, books
    <2> QED BY <1>q, <2>1 DEF Outage
  <1> QED BY <1>2, <1>3, <1>4, <1>5, <1>7, <1>8, <1>9, <1>10, <1>11, <1>12, <1>13, <1>14, <1>15,
             <1>16
          DEF Step

\* Every step keeps both counts.
LEMMA TokenStep ==
  ASSUME RestOK, WorkOK, [Next]_vars, TokenInv, BudgetInv
  PROVE  TokenInv' /\ BudgetInv'
  <1>1. WorkOK' BY TypeStep
  <1>2. /\ Queued \in Nat /\ awarded \in Nat /\ faults \in Nat /\ doubled \in Nat
        /\ Queued' \in Int
    <2>1. RestOK' BY TypeStep
    <2>2. Queued \in Nat BY QueueSum DEF RestOK
    <2>3. queue' \in [Tasks -> Nat] BY <2>1 DEF RestOK
    <2>4. Queued' \in Nat BY <2>3, TasksFinite, SumNatural DEF Queued
    <2> QED BY <2>2, <2>4, CsvPipelineAssumption DEF RestOK
  <1>3. ASSUME NEW w \in Workers, Step(w) \/ ReplyLost(w) \/ Crash(w) \/ TimeLimit(w)
        PROVE  TokenInv' /\ BudgetInv'
    <2> DEFINE L == Cardinality(Live)
               U == Cardinality(Unpaid)
               NL == Cardinality(Live')
               NU == Cardinality(Unpaid')
    <2>1. Others(w) =>
            /\ L \in Nat /\ U \in Nat
            /\ NL = L - (IF work[w] = Free THEN 0 ELSE 1) + (IF work'[w] = Free THEN 0 ELSE 1)
            /\ NU = U - (IF work[w] = Free \/ work[w].at = "mark" THEN 0 ELSE 1)
                      + (IF work'[w] = Free \/ work'[w].at = "mark" THEN 0 ELSE 1)
      BY <1>1, LiveSets
    <2>2. work' = work => NL = L /\ NU = U BY DEF Live, Unpaid
    <2>3. L \in Nat /\ U \in Nat
      <3>1. IsFiniteSet(Live) /\ IsFiniteSet(Unpaid)
        <4>1. Live \in SUBSET Workers /\ Unpaid \in SUBSET Workers BY DEF Live, Unpaid
        <4> QED BY <4>1, CsvPipelineAssumption, FS_Subset
      <3> QED BY <3>1, FS_CardinalityType
    <2> HIDE DEF L, U, NL, NU
    <2>4. Queued + L <= 1 + doubled /\ awarded + Queued + U <= 1 + faults
      BY DEF TokenInv, BudgetInv, L, U
    <2>5. Queued' + NL <= 1 + doubled' /\ awarded' + Queued' + NU <= 1 + faults'
      BY <1>2, <1>3, <2>1, <2>2, <2>3, <2>4, Steps DEF Same
    <2> QED BY <2>5 DEF TokenInv, BudgetInv, NL, NU
  <1>4. CASE WatchdogRead \/ StatusPollRead \/ FailStale \/ UNCHANGED vars
    BY <1>4 DEF WatchdogRead, StatusPollRead, FailStale, vars, TokenInv, BudgetInv, Queued, Live,
                Unpaid, books, faultVars
  <1> QED BY <1>3, <1>4 DEF Next

\* One message and no award, initially.
LEMMA TokenInitial == Init => TokenInv /\ BudgetInv
  <1> SUFFICES ASSUME Init PROVE TokenInv /\ BudgetInv OBVIOUS
  <1>1. Live = {} /\ Unpaid = {} BY DEF Init, Live, Unpaid
  <1>2. Queued = 1
    <2> DEFINE none == [t \in Tasks |-> 0]
    <2>1. SumFunctionOnSet(none, Tasks) <= Cardinality(Tasks) * 0
      BY TasksFinite, SumBounded
    <2>2. SumFunctionOnSet(none, Tasks) \in Nat BY TasksFinite, SumNatural
    <2>3. Cardinality(Tasks) \in Nat BY TasksFinite, FS_CardinalityType
    <2>4. SumFunctionOnSet(none, Tasks) = 0 BY <2>1, <2>2, <2>3
    <2>5. "process" \in Tasks /\ queue["process"] = 1 /\ none["process"] = 0
          /\ \A y \in Tasks \ {"process"}: queue[y] = none[y]
      BY DEF Init, Tasks
    <2>6. \A y \in Tasks: none[y] \in Int OBVIOUS
    <2>7. none["process"] = 0 BY <2>5
    <2> HIDE DEF none
    <2>8. SumFunctionOnSet(queue, Tasks)
            = SumFunctionOnSet(none, Tasks) - none["process"] + queue["process"]
      BY <2>5, <2>6, TasksFinite, SumExcept
    <2> QED BY <2>4, <2>5, <2>7, <2>8 DEF Queued
  <1>3. awarded = 0 /\ faults = 0 /\ doubled = 0 BY DEF Init
  <1> QED BY <1>1, <1>2, <1>3, FS_EmptySet DEF TokenInv, BudgetInv
-----------------------------------------------------------------------------
\* At most one unread copy of a chunk in a stream.
Single(s, c) == \A i, j \in Copies(s, c): i = j

\* While nothing was handed over twice there is one token, and the stage it is at tells
\* what the streams, the worker's record and the books hold.
Fresh == contacts = Nothing /\ awarded = 0
Whole == [msgs |-> Batches \o Sentinel, read |-> 0]
Before == Fresh /\ parsed = NewStream /\ cleaned = NewStream
Between == Fresh /\ parsed = Whole /\ cleaned = NewStream
Collected(w) ==
    /\ Fresh /\ cleaned = NewStream /\ parsed.msgs = Whole.msgs
    /\ \A i \in 1 .. Cardinality(Chunks):
          \/ work[w].todo[Ordered[i]] = IF i <= parsed.read THEN 1 ELSE 0
          \/ work[w].todo[Ordered[i]] = 0 /\ Ordered[i] \in Missing
Counted(w) ==
    /\ Fresh /\ ~Unread(parsed)
    /\ \A c \in Chunks:
          /\ work[w].todo[c] = 1 \/ (work[w].todo[c] = 0 /\ c \in Missing)
          /\ Copies(cleaned, c) = {}
Dispatched(w) ==
    /\ Fresh
    /\ \A c \in Chunks:
          \/ work[w].todo[c] = 1 /\ Copies(cleaned, c) = {}
          \/ /\ work[w].todo[c] = 0 /\ Single(cleaned, c)
             /\ Copies(cleaned, c) # {} \/ c \in Missing
Known(c) == Single(cleaned, c) /\ (contacts[c] = 0 \/ Copies(cleaned, c) = {})
MayPay == awarded = 0 \/ LeftToImport # {}
Waiting ==
    /\ \A c \in Chunks: Known(c)
    /\ \A c \in Chunks \ Missing: contacts[c] >= 1 \/ Copies(cleaned, c) # {}
    /\ MayPay \/ \A c \in Chunks: Copies(cleaned, c) = {}
Importing(w) ==
    /\ \A c \in Chunks: Known(c)
    /\ \A c \in Chunks: \/ work[w].made[c] = 0
                        \/ work[w].made[c] = 1 /\ contacts[c] = 0 /\ Copies(cleaned, c) = {}
    /\ \A c \in Chunks \ Missing:
          contacts[c] >= 1 \/ work[w].made[c] = 1 \/ Copies(cleaned, c) # {}
    /\ MayPay \/ \A c \in Chunks: Copies(cleaned, c) = {} /\ work[w].made[c] = 0
Imported == \A c \in Chunks \ Missing: contacts[c] >= 1

QueuesOK ==
    /\ queue["process"] > 0 \/ queue["parse"] > 0 => Before
    /\ queue["clean"] > 0 \/ queue["poll"] > 0 => Between
    /\ queue["import"] > 0 => Waiting
HeldOK(w) ==
    /\ work[w].task = "process" \/ Does(w, "parse", "publish") \/ Does(w, "parse", "write")
          => Before
    /\ work[w].at \in {"route", "answer"} => Between
    /\ work[w].at = "collect" => Collected(w)
    /\ work[w].at = "counted" => Counted(w)
    /\ work[w].at = "dispatch" => Dispatched(w)
    /\ work[w].at = "written" => Waiting
    /\ Does(w, "import", "publish") \/ Does(w, "import", "read") => Importing(w)
    /\ work[w].at # "blocked"
    /\ work[w].at = "mark" => Waiting /\ Imported
BooksOK ==
    /\ LeftToImport = {} => awarded <= 1
    /\ \A c \in Chunks: contacts[c] <= 1
    /\ row.status = "completed" => Imported
Chained == QueuesOK /\ (\A w \in Workers: HeldOK(w)) /\ BooksOK
ChainInv == doubled = 0 => Chained

-----------------------------------------------------------------------------
\* The elements of two sequences in a row.
LEMMA Joined ==
  ASSUME NEW S, NEW a \in Seq(S), NEW b \in Seq(S)
  PROVE  /\ a \o b \in Seq(S) /\ Len(a \o b) = Len(a) + Len(b)
         /\ \A i \in 1 .. Len(a): (a \o b)[i] = a[i]
         /\ \A i \in 1 .. Len(b): (a \o b)[Len(a) + i] = b[i]
  OBVIOUS

\* Reading and writing change the unread copies.
LEMMA CopiesOf ==
  ASSUME NEW s, StreamOK(s), NEW c \in Chunks
  PROVE  /\ Copies(s, c) \subseteq s.read + 1 .. Len(s.msgs)
         /\ ~Unread(s) => Copies(s, c) = {}
         /\ Copies(NewStream, c) = {}
         /\ Unread(s) => LET m == NextMessage(s) IN
              /\ m.kind = "batch" /\ m.chunk = c =>
                    /\ s.read + 1 \in Copies(s, c)
                    /\ Copies(HandOut(s), c) = Copies(s, c) \ {s.read + 1}
              /\ ~(m.kind = "batch" /\ m.chunk = c) => Copies(HandOut(s), c) = Copies(s, c)
         /\ Copies(Write(s, Sentinel), c) = Copies(s, c)
         /\ \A d \in Chunks: Copies(Write(s, Batch(d)), c)
              = Copies(s, c) \cup (IF d = c THEN {Len(s.msgs) + 1} ELSE {})
  <1>1. /\ s.msgs \in Seq(Message) /\ s.read \in Nat /\ Len(s.msgs) \in Nat
        /\ s.read <= Len(s.msgs)
    BY DEF StreamOK
  <1>2. Copies(s, c) \subseteq s.read + 1 .. Len(s.msgs) BY DEF Copies
  <1>3. ~Unread(s) => Copies(s, c) = {} BY <1>1 DEF Copies, Unread
  <1>4. Copies(NewStream, c) = {} BY DEF Copies, NewStream
  <1>5. ASSUME Unread(s)
        PROVE  LET m == NextMessage(s) IN
              /\ m.kind = "batch" /\ m.chunk = c =>
                    /\ s.read + 1 \in Copies(s, c)
                    /\ Copies(HandOut(s), c) = Copies(s, c) \ {s.read + 1}
              /\ ~(m.kind = "batch" /\ m.chunk = c) => Copies(HandOut(s), c) = Copies(s, c)
    <2>1. HandOut(s).read = s.read + 1 /\ HandOut(s).msgs = s.msgs BY <1>5, StreamSteps
    <2>2. s.read + 1 \in 1 .. Len(s.msgs) BY <1>1, <1>5 DEF Unread
    <2>3. s.read + 1 + 1 .. Len(s.msgs) = (s.read + 1 .. Len(s.msgs)) \ {s.read + 1}
      BY <1>1
    <2>4. Copies(HandOut(s), c) = {i \in s.read + 1 + 1 .. Len(s.msgs):
                    s.msgs[i].kind = "batch" /\ s.msgs[i].chunk = c}
      BY <2>1 DEF Copies
    <2>5. Copies(HandOut(s), c) = Copies(s, c) \ {s.read + 1} BY <2>3, <2>4 DEF Copies
    <2> QED BY <2>2, <2>5 DEF Copies, NextMessage
  <1>6. ASSUME NEW m \in Seq(Message), Len(m) = 1
        PROVE  Copies(Write(s, m), c) = Copies(s, c) \cup
                 (IF m[1].kind = "batch" /\ m[1].chunk = c THEN {Len(s.msgs) + 1} ELSE {})
    <2>1. Write(s, m).read = s.read /\ Write(s, m).msgs = s.msgs \o m BY StreamSteps
    <2>2. /\ Len(s.msgs \o m) = Len(s.msgs) + 1
          /\ \A i \in 1 .. Len(s.msgs): (s.msgs \o m)[i] = s.msgs[i]
          /\ (s.msgs \o m)[Len(s.msgs) + 1] = m[1]
      <3> DEFINE a == s.msgs
      <3>1. a \in Seq(Message) BY <1>1
      <3> HIDE DEF a
      <3>2. 1 \in 1 .. Len(m) BY <1>6
      <3>3. /\ Len(a \o m) = Len(a) + Len(m)
            /\ \A i \in 1 .. Len(a): (a \o m)[i] = a[i]
            /\ \A i \in 1 .. Len(m): (a \o m)[Len(a) + i] = m[i]
        BY <3>1, Joined
      <3>4. Len(a \o m) = Len(a) + 1 /\ (a \o m)[Len(a) + 1] = m[1] BY <1>6, <3>2, <3>3
      <3> QED BY <3>3, <3>4 DEF a
    <2> DEFINE n == Len(s.msgs)
               longer == s.msgs \o m
    <2>3. Copies(Write(s, m), c) = {i \in s.read + 1 .. n + 1:
                    longer[i].kind = "batch" /\ longer[i].chunk = c}
      BY <2>1, <2>2 DEF Copies
    <2>4. s.read + 1 .. n + 1 = (s.read + 1 .. n) \cup {n + 1} /\ n \in Nat BY <1>1
    <2>5. \A i \in s.read + 1 .. n: longer[i] = s.msgs[i] BY <1>1, <2>2
    <2>6. longer[n + 1] = m[1] BY <2>2
    <2> HIDE DEF n, longer
    <2>7. Copies(s, c) = {i \in s.read + 1 .. n: s.msgs[i].kind = "batch" /\ s.msgs[i].chunk = c}
      BY DEF Copies, n
    <2>8. Copies(Write(s, m), c) = Copies(s, c) \cup
            (IF m[1].kind = "batch" /\ m[1].chunk = c THEN {n + 1} ELSE {})
      BY <2>3, <2>4, <2>5, <2>6, <2>7
    <2> QED BY <2>8 DEF n
  <1>7. Copies(Write(s, Sentinel), c) = Copies(s, c)
    <2>1. Sentinel[1].kind # "batch" BY Messages
    <2> QED BY <1>6, <2>1, Messages
  <1>8. ASSUME NEW d \in Chunks
        PROVE  Copies(Write(s, Batch(d)), c)
                 = Copies(s, c) \cup (IF d = c THEN {Len(s.msgs) + 1} ELSE {})
    <2>1. Batch(d) \in Seq(Message) /\ Len(Batch(d)) = 1
          /\ Batch(d)[1].kind = "batch" /\ Batch(d)[1].chunk = d
      <3>1. Batch(d)[1] = [kind |-> "batch", chunk |-> d] BY Messages
      <3> QED BY <3>1, Messages
    <2> QED BY <1>6, <2>1
  <1> QED BY <1>2, <1>3, <1>4, <1>5, <1>7, <1>8

\* A stream to which the results of a job are written holds the good chunks once.
LEMMA Answers ==
  ASSUME NEW bad \in SUBSET Chunks, NEW s, StreamOK(s), s = NewStream
  PROVE  LET answers == [i \in DOMAIN Ordered |->
                           [kind |-> IF Ordered[i] \in bad THEN "empty" ELSE "batch",
                            chunk |-> Ordered[i]]]
             t == Write(s, answers \o Sentinel)
         IN  /\ StreamOK(t) /\ t.msgs = answers \o Sentinel /\ t.read = 0
             /\ \A c \in Chunks: Single(t, c) /\ (c \notin bad => Copies(t, c) # {})
  <1> DEFINE N == Cardinality(Chunks)
             answers == [i \in DOMAIN Ordered |->
                           [kind |-> IF Ordered[i] \in bad THEN "empty" ELSE "batch",
                            chunk |-> Ordered[i]]]
             all == answers \o Sentinel
             t == Write(s, all)
  <1>0. N \in Nat /\ DOMAIN Ordered = 1 .. N BY OrderedAll
  <1>1. answers \in Seq(Message) /\ Len(answers) = N
    <2>1. \A i \in DOMAIN Ordered: answers[i] \in Message BY OrderedAll DEF Message
    <2>2. answers = [i \in 1 .. N |-> answers[i]] BY <1>0
    <2> HIDE DEF answers
    <2> QED BY <1>0, <2>1, <2>2
  <1>2. \A i \in 1 .. N: answers[i].chunk = Ordered[i]
          /\ (answers[i].kind = "batch" <=> Ordered[i] \notin bad)
    BY <1>0
  <1> HIDE DEF answers
  <1>3. /\ all \in Seq(Message) /\ Len(all) = N + 1
        /\ \A i \in 1 .. N: all[i] = answers[i]
        /\ all[N + 1].kind = "sentinel"
    <2>1. Sentinel \in Seq(Message) /\ Len(Sentinel) = 1 /\ Sentinel[1].kind = "sentinel"
      BY Messages
    <2> HIDE DEF N
    <2>2. 1 \in 1 .. Len(Sentinel) BY <2>1
    <2>3. /\ answers \o Sentinel \in Seq(Message) /\ Len(answers \o Sentinel) = N + 1
          /\ \A i \in 1 .. N: (answers \o Sentinel)[i] = answers[i]
          /\ \A i \in 1 .. Len(Sentinel): (answers \o Sentinel)[N + i] = Sentinel[i]
      <3>1. answers \in Seq(Message) /\ Sentinel \in Seq(Message) BY <1>1, <2>1
      <3>2. /\ answers \o Sentinel \in Seq(Message)
            /\ Len(answers \o Sentinel) = Len(answers) + Len(Sentinel)
            /\ \A i \in 1 .. Len(answers): (answers \o Sentinel)[i] = answers[i]
            /\ \A i \in 1 .. Len(Sentinel): (answers \o Sentinel)[Len(answers) + i] = Sentinel[i]
        BY ONLY <3>1, Joined
      <3> QED BY ONLY <1>1, <2>1, <3>2
    <2>4. all[N + 1] = Sentinel[1] BY <2>2, <2>3
    <2> QED BY <2>1, <2>3, <2>4
  <1> HIDE DEF all
  <1>4. /\ StreamOK(t) /\ t.read = 0 /\ t.msgs = all
    <2>1. s.read = 0 /\ s.msgs = <<>> BY DEF NewStream
    <2>2. <<>> \o all = all BY <1>3
    <2>3. t = Write(s, all) /\ all \in Seq(Message) BY <1>3
    <2>4. StreamOK(t) /\ t.read = s.read /\ t.msgs = s.msgs \o all
      <3> HIDE DEF t
      <3> QED BY <2>3, StreamSteps
    <2> QED BY <2>1, <2>2, <2>4
  <1> HIDE DEF t
  <1>5. ASSUME NEW c \in Chunks
        PROVE  /\ \A i, j \in Copies(t, c): i = j
               /\ c \notin bad => Copies(t, c) # {}
    <2>1. Copies(t, c) = {i \in 1 .. N + 1: all[i].kind = "batch" /\ all[i].chunk = c}
      BY <1>3, <1>4 DEF Copies
    <2>2. \A i \in Copies(t, c): i \in 1 .. N /\ Ordered[i] = c
      BY <1>0, <1>2, <1>3, <2>1
    <2>3. ASSUME c \notin bad PROVE Copies(t, c) # {}
      <3>1. PICK i \in 1 .. N: Ordered[i] = c BY OrderedAll
      <3>2. all[i].kind = "batch" /\ all[i].chunk = c BY <1>2, <1>3, <2>3, <3>1
      <3> QED BY <1>0, <2>1, <3>2
    <2> QED BY <2>2, <2>3, OrderedAll
  <1> QED BY <1>4, <1>5 DEF Single, all, answers, t
-----------------------------------------------------------------------------
\* One token.
OneToken == RestOK /\ WorkOK /\ TokenInv /\ doubled = 0
\* With one token, a worker with a task is alone, and so is a message.
LEMMA Tokens ==
  ASSUME OneToken
  PROVE  /\ \A t \in Tasks: queue[t] \in Nat
         /\ \A w \in Workers: work[w] # Free =>
               /\ \A t \in Tasks: queue[t] = 0
               /\ \A v \in Workers \ {w}: work[v] = Free
         /\ \A t \in Tasks: queue[t] > 0 =>
               /\ queue[t] = 1 /\ \A u \in Tasks \ {t}: queue[u] = 0
               /\ \A w \in Workers: work[w] = Free
  <1>1. queue \in [Tasks -> Nat] BY DEF OneToken, RestOK
  <1>2. /\ Queued \in Nat /\ \A t \in Tasks: queue[t] <= Queued /\ queue[t] \in Nat
        /\ \A t, u \in Tasks: t # u => queue[t] + queue[u] <= Queued
    BY <1>1, QueueSum
  <1>3. Live \in SUBSET Workers /\ IsFiniteSet(Live) /\ Cardinality(Live) \in Nat
    <2>1. Live \in SUBSET Workers BY DEF Live
    <2> QED BY <2>1, CsvPipelineAssumption, FS_Subset, FS_CardinalityType
  <1>4. Queued + Cardinality(Live) <= 1 BY DEF OneToken, TokenInv
  <1>5. ASSUME NEW w \in Workers, work[w] # Free
        PROVE  /\ \A t \in Tasks: queue[t] = 0
               /\ \A v \in Workers \ {w}: work[v] = Free
    <2>1. w \in Live BY <1>5 DEF Live
    <2>2. Cardinality(Live) # 0 BY <1>3, <2>1, FS_EmptySet
    <2>3. Cardinality(Live) = 1 /\ Queued = 0 BY <1>2, <1>3, <1>4, <2>2
    <2>4. \A v \in Live: v = w BY <1>3, <2>1, <2>3, FS_Singleton
    <2> QED BY <1>2, <2>3, <2>4 DEF Live
  <1>6. ASSUME NEW t \in Tasks, queue[t] > 0
        PROVE  /\ queue[t] = 1 /\ \A u \in Tasks \ {t}: queue[u] = 0
               /\ \A w \in Workers: work[w] = Free
    <2>1. queue[t] = 1 /\ Queued = 1 /\ Cardinality(Live) = 0 BY <1>2, <1>3, <1>4, <1>6
    <2>2. Live = {} BY <1>3, <2>1, FS_EmptySet
    <2>3. \A u \in Tasks \ {t}: queue[u] = 0
      <3> TAKE u \in Tasks \ {t}
      <3> QED BY <1>2, <2>1
    <2> QED BY <2>1, <2>2, <2>3 DEF Live
  <1> QED BY <1>2, <1>5, <1>6

\* A worker with no task holds nothing.
LEMMA FreeHolds ==
  ASSUME NEW w \in Workers
  PROVE  /\ work[w] = Free => HeldOK(w)
         /\ work'[w] = Free => HeldOK(w)'
  <1>1. /\ Free.task = None /\ Free.at = None /\ None \notin Tasks \cup Stages
    BY CsvPipelineAssumption DEF Free
  <1>2. work[w] = Free => HeldOK(w) BY <1>1 DEF HeldOK, Does, Tasks, Stages
  <1>3. work'[w] = Free => HeldOK(w)' BY <1>1 DEF HeldOK, Does, Tasks, Stages
  <1> QED BY <1>2, <1>3

\* The only worker with a task moves or stops.
LEMMA Alone ==
  ASSUME OneToken, NEW w \in Workers, work[w] # Free, Others(w), HeldOK(w)'
  PROVE  \A v \in Workers: HeldOK(v)'
  <1>1. \A v \in Workers \ {w}: work'[v] = Free BY Tokens DEF Others
  <1> QED BY <1>1, FreeHolds

\* The only worker with a task hands over.
LEMMA Handed ==
  ASSUME OneToken, \A t \in Tasks: queue[t] = 0
  PROVE  /\ queue' = queue => QueuesOK'
         /\ (Enqueue("process") \/ Enqueue("parse")) /\ Before' => QueuesOK'
         /\ (Enqueue("clean") \/ Enqueue("poll")) /\ Between' => QueuesOK'
         /\ Enqueue("import") /\ Waiting' => QueuesOK'
  <1>1. queue \in [Tasks -> Nat] BY DEF OneToken, RestOK
  <1>2. ASSUME NEW t \in Tasks, Enqueue(t) PROVE \A u \in Tasks \ {t}: queue'[u] = 0
    BY <1>1, <1>2 DEF Enqueue
  <1>3. ASSUME queue' = queue PROVE QueuesOK' BY <1>3 DEF QueuesOK, Tasks
  <1> QED BY <1>2, <1>3 DEF QueuesOK, Tasks

\* The only message is taken, by a worker or for good.
LEMMA Emptied ==
  ASSUME OneToken, NEW t \in Tasks, queue[t] > 0, queue' = [queue EXCEPT ![t] = @ - 1]
  PROVE  QueuesOK'
  <1>1. queue \in [Tasks -> Nat] BY DEF OneToken, RestOK
  <1>2. \A u \in Tasks: queue'[u] = 0 BY <1>1, Tokens
  <1> QED BY <1>2 DEF QueuesOK, Tasks

\* What is lost stays lost, and how.
LEMMA Losing ==
  /\ lost \subseteq lost' => Missing \subseteq Missing' /\ LeftToImport \subseteq LeftToImport'
  /\ lost' = lost => Missing' = Missing /\ LeftToImport' = LeftToImport
  /\ \A S \in SUBSET Chunks: \A how \in Losses: Lose(S, how) =>
        /\ lost \subseteq lost' /\ S \subseteq Missing' /\ Missing \subseteq Missing'
        /\ how # "not imported" => LeftToImport' = LeftToImport
        /\ how = "not imported" => LeftToImport' = LeftToImport \cup S
  <1>1. lost' = lost => Missing' = Missing /\ LeftToImport' = LeftToImport
    BY DEF Missing, LeftToImport
  <1>2. ASSUME lost \subseteq lost'
        PROVE  Missing \subseteq Missing' /\ LeftToImport \subseteq LeftToImport'
    BY <1>2 DEF Missing, LeftToImport
  <1>3. ASSUME NEW S \in SUBSET Chunks, NEW how \in Losses, Lose(S, how)
        PROVE  /\ lost \subseteq lost' /\ S \subseteq Missing'
               /\ how # "not imported" => LeftToImport' = LeftToImport
               /\ how = "not imported" => LeftToImport' = LeftToImport \cup S
    <2>1. lost' = lost \cup (S \X {how}) BY <1>3 DEF Lose
    <2>2. \A c \in S: <<c, how>> \in lost' /\ <<c, how>>[1] = c BY <2>1
    <2>3. S \subseteq Missing' BY <2>2 DEF Missing
    <2>4. \A c \in Chunks: <<c, "not imported">> \in lost'
             <=> <<c, "not imported">> \in lost \/ (c \in S /\ how = "not imported")
      BY <2>1
    <2>5. LeftToImport' = {c \in Chunks: <<c, "not imported">> \in lost'} BY DEF LeftToImport
    <2> QED BY <2>1, <2>3, <2>4, <2>5 DEF LeftToImport
  <1> QED BY <1>1, <1>2, <1>3

\* The chunk of a message.
LEMMA ChunksOf == \A m \in Message: \A c \in Chunks:
                     c \in ChunkOf(m) <=> (m.kind = "batch" /\ m.chunk = c)
  BY DEF Message, ChunkOf

\* Steps that leave the books alone.
LEMMA SameBooks ==
  ASSUME BooksOK, UNCHANGED books, lost \subseteq lost',
         row'.status = "completed" => row.status = "completed"
  PROVE  BooksOK'
  <1>1. Missing \subseteq Missing' /\ LeftToImport \subseteq LeftToImport' BY Losing
  <1>2. Imported => Imported' BY <1>1 DEF Imported, books
  <1>3. LeftToImport' = {} => LeftToImport = {} BY <1>1
  <1> QED BY <1>2, <1>3 DEF BooksOK, books

\* What the stages say stays true beside steps that leave their part of the state alone.
LEMMA SameStages ==
  ASSUME UNCHANGED <<streams, lost, books>>
  PROVE  /\ Before <=> Before'
         /\ Between <=> Between'
         /\ Waiting <=> Waiting'
         /\ Imported <=> Imported'
         /\ \A w \in Workers: work'[w] = work[w] =>
               /\ Collected(w) => Collected(w)'
               /\ Counted(w) => Counted(w)'
               /\ Dispatched(w) => Dispatched(w)'
               /\ Importing(w) => Importing(w)'
  <1>1. /\ UNCHANGED <<parsed, cleaned, contacts, awarded>>
        /\ Missing' = Missing /\ LeftToImport' = LeftToImport
    BY Losing DEF streams, books
  <1>2. (Fresh <=> Fresh') /\ (MayPay <=> MayPay') BY <1>1 DEF Fresh, MayPay
  <1>3. \A c \in Chunks: Known(c) <=> Known(c)' BY <1>1 DEF Known
  <1>4. (Before <=> Before') /\ (Between <=> Between') /\ (Imported <=> Imported')
    BY <1>1, <1>2 DEF Before, Between, Imported
  <1>5. Waiting <=> Waiting' BY <1>1, <1>2, <1>3 DEF Waiting
  <1>6. ASSUME NEW w \in Workers, work'[w] = work[w]
        PROVE  /\ Collected(w) => Collected(w)'
               /\ Counted(w) => Counted(w)'
               /\ Dispatched(w) => Dispatched(w)'
               /\ Importing(w) => Importing(w)'
    <2>1. Collected(w) => Collected(w)' BY <1>1, <1>2, <1>6 DEF Collected
    <2>2. Counted(w) => Counted(w)' BY <1>1, <1>2, <1>6 DEF Counted
    <2>3. Dispatched(w) => Dispatched(w)' BY <1>1, <1>2, <1>6 DEF Dispatched
    <2>4. Importing(w) => Importing(w)' BY <1>1, <1>2, <1>3, <1>6 DEF Importing
    <2> QED BY <2>1, <2>2, <2>3, <2>4
  <1> QED BY <1>4, <1>5, <1>6

\* A task is taken.
LEMMA TakenChain ==
  ASSUME OneToken, Chained, NEW w \in Workers, NEW t, NEW a, <<t, a>> \in Starts,
         Takes(w, t, a), UNCHANGED <<row, streams, lost, books, faultVars>>
  PROVE  Chained'
  <1>1. t \in Tasks /\ a \in Stages BY DEF Starts, Tasks, Stages
  <1>2. /\ Others(w) /\ work[w] = Free /\ queue[t] > 0 /\ queue' = [queue EXCEPT ![t] = @ - 1]
        /\ work'[w].task = t /\ work'[w].at = a
        /\ work'[w].todo = Nothing /\ work'[w].made = Nothing
    BY <1>1, MovesOf DEF OneToken
  <1>3. QueuesOK' BY <1>1, <1>2, Emptied
  <1>4. BooksOK' BY SameBooks DEF Chained, faultVars
  <1>5. HeldOK(w)'
    <2>1. CASE t = "process" \/ t = "parse"
      <3>1. Before BY <1>2, <2>1 DEF Chained, QueuesOK
      <3>2. Before' BY <3>1 DEF Before, Fresh, streams, books
      <3> QED BY <1>2, <2>1, <3>2 DEF HeldOK, Does, Starts
    <2>2. CASE t = "poll"
      <3>1. Between BY <1>2, <2>2 DEF Chained, QueuesOK
      <3>2. Between' BY <3>1 DEF Between, Fresh, streams, books
      <3> QED BY <1>2, <2>2, <3>2 DEF HeldOK, Does, Starts
    <2>3. CASE t = "clean"
      <3>1. Between BY <1>2, <2>3 DEF Chained, QueuesOK
      <3>2. Between' BY <3>1 DEF Between, Fresh, streams, books
      <3>3. \A i \in 1 .. Cardinality(Chunks): ~(i <= 0) /\ Nothing[Ordered[i]] = 0
        BY OrderedAll DEF Nothing
      <3>4. parsed'.read = 0 /\ parsed'.msgs = Whole.msgs BY <3>2 DEF Between, Whole
      <3>5. Collected(w)' BY <1>2, <3>2, <3>3, <3>4, OrderedAll DEF Collected, Between
      <3> QED BY <1>2, <2>3, <3>5 DEF HeldOK, Does, Starts
    <2>4. CASE t = "import"
      <3>1. Waiting BY <1>2, <2>4 DEF Chained, QueuesOK
      <3>2. Waiting' BY <3>1, SameStages
      <3>3. \A c \in Chunks: work'[w].made[c] = 0 BY <1>2 DEF Nothing
      <3>4. Importing(w)' BY <3>2, <3>3 DEF Waiting, Importing
      <3> QED BY <1>2, <2>4, <3>4 DEF HeldOK, Does, Starts
    <2> QED BY <2>1, <2>2, <2>3, <2>4 DEF Starts
  <1>6. \A v \in Workers: HeldOK(v)'
    <2>1. \A v \in Workers \ {w}: work'[v] = Free BY <1>1, <1>2, Tokens DEF Others
    <2> QED BY <1>5, <2>1, FreeHolds
  <1> QED BY <1>3, <1>4, <1>6 DEF Chained

\* Routing and parsing.
LEMMA ParseChain ==
  ASSUME OneToken, Chained, NEW w \in Workers, doubled' = 0,
         \/ Route(w) \/ SingleStart(w) \/ Publish(w) \/ ParseStart(w) \/ ParseFails(w)
         \/ ParseWrite(w) \/ ParseRoute(w)
  PROVE  Chained'
  <1>t. RestOK /\ WorkOK /\ AtOK(work[w]) BY DEF OneToken, WorkOK, Kinds
  <1>f. Free.task = None /\ Free.at = None /\ None \notin Tasks \cup Stages
    BY CsvPipelineAssumption DEF Free
  <1>k. \A t \in {"process", "parse", "clean", "poll", "import"}: t \in Tasks BY DEF Tasks
  <1>q. queue \in [Tasks -> Nat] /\ doubled = 0 BY DEF OneToken, RestOK
  <1>1. CASE Route(w)
    <2>1. queue["process"] > 0 /\ work' = work
          /\ UNCHANGED <<row, streams, lost, books>>
      BY <1>1 DEF Route
    <2>2. queue' = [queue EXCEPT !["process"] = @ - 1, !["parse"] = @ + 1] /\ faults' = faults
      BY <1>1, <1>q DEF Route, faultVars
    <2>3. /\ queue["process"] = 1 /\ \A u \in Tasks \ {"process"}: queue[u] = 0
          /\ \A v \in Workers: work[v] = Free
      BY <1>k, <2>1, Tokens
    <2>4. Before BY <2>1 DEF Chained, QueuesOK
    <2>5. Before' BY <2>1, <2>4 DEF Before, Fresh, streams, books
    <2>6. \A u \in Tasks \ {"process", "parse"}: queue'[u] = 0 BY <1>q, <2>2, <2>3
    <2>7. QueuesOK' BY <1>k, <2>5, <2>6 DEF QueuesOK
    <2>8. \A v \in Workers: HeldOK(v)'
      <3>1. \A v \in Workers: work'[v] = Free BY <2>1, <2>3
      <3> QED BY <3>1, FreeHolds
    <2>9. BooksOK' BY <2>1, <2>2, SameBooks DEF Chained
    <2> QED BY <2>7, <2>8, <2>9 DEF Chained
  <1>2. CASE SingleStart(w) \/ ParseStart(w)
    <2>1. \E t, a: <<t, a>> \in Starts /\ Takes(w, t, a)
      BY <1>2 DEF SingleStart, ParseStart, Starts
    <2>2. UNCHANGED <<row, streams, lost, books, faultVars>>
      BY <1>2 DEF SingleStart, ParseStart
    <2> QED BY <2>1, <2>2, TakenChain
  <1>3. CASE Publish(w)
    <2>1. /\ work[w].at = "publish" /\ queue' = queue
          /\ UNCHANGED <<streams, lost, books, faultVars>>
          /\ Goes(w, IF work[w].task = "import" THEN "read" ELSE "write")
          /\ row'.status = "completed" => row.status = "completed"
      <3>1. row \in [status: Active \cup {"completed", "failed"}, done: BOOLEAN, job: BOOLEAN]
        BY <1>t DEF RestOK
      <3> QED BY <1>3, <3>1 DEF Publish
    <2>2. work[w] # Free /\ \A t \in Tasks: queue[t] = 0
      <3>1. work[w] # Free BY <1>f, <2>1 DEF Stages
      <3> QED BY <3>1, Tokens
    <2>3. QueuesOK' BY <2>1, <2>2, Handed
    <2>4. BooksOK' BY <2>1, SameBooks DEF Chained, faultVars
    <2>5. HeldOK(w) BY DEF Chained
    <2>6. CASE work[w].task = "import"
      <3>1. Moves(w, "read", work[w].todo, work[w].made) BY <1>t, <2>1, <2>6, MovesOf DEF Stages
      <3>2. Importing(w) BY <2>1, <2>5, <2>6 DEF HeldOK, Does
      <3>3. Importing(w)'
        <4>1. /\ UNCHANGED <<cleaned, contacts, awarded>>
              /\ Missing' = Missing /\ LeftToImport' = LeftToImport
              /\ work'[w].made = work[w].made
          BY <2>1, <3>1, Losing DEF streams, books, Moves
        <4>2. \A c \in Chunks: Known(c) => Known(c)' BY <4>1 DEF Known
        <4> QED BY <3>2, <4>1, <4>2 DEF Importing, MayPay
      <3>4. HeldOK(w)' BY <2>6, <3>1, <3>3 DEF HeldOK, Does, Moves
      <3> QED BY <2>2, <2>3, <2>4, <3>1, <3>4, Alone DEF Chained, Moves
    <2>7. CASE work[w].task # "import"
      <3>1. Moves(w, "write", work[w].todo, work[w].made) BY <1>t, <2>1, <2>7, MovesOf DEF Stages
      <3>2. work[w].task \in {"process", "parse"} BY <1>t, <2>1, <2>2, <2>7 DEF AtOK
      <3>3. Before BY <2>1, <2>5, <3>2 DEF HeldOK, Does
      <3>4. Before' BY <2>1, <3>3 DEF Before, Fresh, streams, books
      <3>5. HeldOK(w)' BY <3>1, <3>2, <3>4 DEF HeldOK, Does, Moves
      <3> QED BY <2>2, <2>3, <2>4, <3>1, <3>5, Alone DEF Chained, Moves
    <2> QED BY <2>6, <2>7
  <1>4. CASE ParseFails(w)
    <2>1. /\ queue["parse"] > 0 /\ queue' = [queue EXCEPT !["parse"] = @ - 1]
          /\ work' = work /\ UNCHANGED <<streams, lost, books, faultVars>>
          /\ row' = [row EXCEPT !.status = "failed", !.done = TRUE]
      BY <1>4 DEF ParseFails
    <2>2. QueuesOK' BY <1>k, <2>1, Emptied
    <2>3. row'.status = "failed" BY <1>t, <2>1 DEF RestOK
    <2>4. BooksOK' BY <2>1, <2>3, SameBooks DEF Chained, faultVars
    <2>5. \A v \in Workers: HeldOK(v)' BY <1>k, <2>1, Tokens, FreeHolds
    <2> QED BY <2>2, <2>4, <2>5 DEF Chained
  <1>5. CASE ParseWrite(w)
    <2>1. /\ work[w].task = "parse" /\ work[w].at = "write" /\ queue' = queue
          /\ UNCHANGED <<row, cleaned, lost, books, faultVars>>
          /\ Goes(w, "route") /\ parsed' = Write(parsed, Batches \o Sentinel)
      BY <1>5 DEF ParseWrite, Does
    <2>2. work[w] # Free /\ \A t \in Tasks: queue[t] = 0
      <3>1. work[w] # Free BY <1>f, <2>1 DEF Stages
      <3> QED BY <3>1, Tokens
    <2>3. QueuesOK' BY <2>1, <2>2, Handed
    <2>4. BooksOK' BY <2>1, SameBooks DEF Chained, faultVars
    <2>5. Before BY <2>1 DEF Chained, HeldOK, Does
    <2>6. parsed' = Whole
      <3> DEFINE all == Batches \o Sentinel
      <3>1. all \in Seq(Message) BY Messages
      <3>2. parsed = [msgs |-> <<>>, read |-> 0] BY <2>5 DEF Before, NewStream
      <3> HIDE DEF all
      <3>3. parsed' = [parsed EXCEPT !.msgs = <<>> \o all] BY <2>1, <3>2 DEF Write, all
      <3>4. <<>> \o all = all BY <3>1
      <3>5. parsed' = [msgs |-> all, read |-> 0] BY <3>2, <3>3, <3>4
      <3> QED BY <3>5 DEF Whole, all
    <2>7. Between' BY <2>1, <2>5, <2>6 DEF Between, Before, Fresh, books
    <2>8. Moves(w, "route", work[w].todo, work[w].made) BY <1>t, <2>1, MovesOf DEF Stages
    <2>9. HeldOK(w)' BY <2>1, <2>7, <2>8 DEF HeldOK, Does, Moves
    <2> QED BY <2>2, <2>3, <2>4, <2>8, <2>9, Alone DEF Chained, Moves
  <1>6. CASE ParseRoute(w)
    <2>1. /\ work[w].task = "parse" /\ work[w].at = "route" /\ Ends(w)
          /\ UNCHANGED <<streams, lost, books, faultVars>>
          /\ Enqueue("clean") \/ Enqueue("poll")
          /\ row' = row \/ row' = [row EXCEPT !.job = TRUE]
      BY <1>6 DEF ParseRoute, Does
    <2>2. work[w] # Free /\ \A t \in Tasks: queue[t] = 0
      <3>1. work[w] # Free BY <1>f, <2>1 DEF Stages
      <3> QED BY <3>1, Tokens
    <2>3. Between BY <2>1 DEF Chained, HeldOK
    <2>4. Between' BY <2>1, <2>3 DEF Between, Fresh, streams, books
    <2>5. QueuesOK' BY <2>1, <2>2, <2>4, Handed
    <2>6. row'.status = row.status BY <1>t, <2>1 DEF RestOK
    <2>7. BooksOK' BY <2>1, <2>6, SameBooks DEF Chained, faultVars
    <2>8. Stops(w) BY <1>t, <2>1, MovesOf
    <2>9. HeldOK(w)' BY <2>8, FreeHolds DEF Stops
    <2> QED BY <2>2, <2>5, <2>7, <2>8, <2>9, Alone DEF Chained, Stops
  <1> QED BY <1>1, <1>2, <1>3, <1>4, <1>5, <1>6

\* What parsing has written.
LEMMA WholeOf ==
  /\ Whole.msgs \in Seq(Message) /\ Len(Whole.msgs) = Cardinality(Chunks) + 1
  /\ \A i \in 1 .. Cardinality(Chunks): /\ Whole.msgs[i].kind = "batch"
                                        /\ Whole.msgs[i].chunk = Ordered[i]
  /\ Whole.msgs[Cardinality(Chunks) + 1].kind = "sentinel"
  <1> DEFINE N == Cardinality(Chunks)
             all == Batches \o Sentinel
  <1>0. N \in Nat /\ DOMAIN Ordered = 1 .. N BY OrderedAll
  <1>1. Batches \in Seq(Message) /\ Len(Batches) = N
        /\ Sentinel \in Seq(Message) /\ Len(Sentinel) = 1 /\ Sentinel[1].kind = "sentinel"
    BY Messages
  <1>2. \A i \in 1 .. N: Batches[i].kind = "batch" /\ Batches[i].chunk = Ordered[i]
    BY <1>0 DEF Batches
  <1> HIDE DEF N
  <1>3. /\ all \in Seq(Message) /\ Len(all) = Len(Batches) + Len(Sentinel)
        /\ \A i \in 1 .. Len(Batches): all[i] = Batches[i]
        /\ \A i \in 1 .. Len(Sentinel): all[Len(Batches) + i] = Sentinel[i]
    <2>1. Batches \in Seq(Message) /\ Sentinel \in Seq(Message) BY <1>1
    <2> QED BY ONLY <2>1, Joined DEF all
  <1>4. 1 \in 1 .. Len(Sentinel) BY <1>1
  <1>5. all[N + 1] = Sentinel[1] BY <1>1, <1>3, <1>4
  <1>6. Whole.msgs = all BY DEF Whole
  <1> HIDE DEF all
  <1> QED BY <1>1, <1>2, <1>3, <1>5, <1>6 DEF N

\* Cleaning.
LEMMA CleanChain ==
  ASSUME OneToken, Chained, NEW w \in Workers, doubled' = 0,
         \/ CleanStart(w) \/ CleanRead(w) \/ CleanDispatch(w) \/ CleanDone(w)
         \/ \E c \in Chunks: CleanOne(w, c)
  PROVE  Chained'
  <1> DEFINE N == Cardinality(Chunks)
  <1>t. RestOK /\ WorkOK /\ work[w] \in WorkRec BY DEF OneToken, WorkOK
  <1>f. Free.task = None /\ Free.at = None /\ None \notin Tasks \cup Stages
    BY CsvPipelineAssumption DEF Free
  <1>s. StreamOK(parsed) /\ StreamOK(cleaned) BY <1>t DEF RestOK
  <1>n. N \in Nat BY OrderedAll
  <1>1. CASE CleanStart(w)
    <2>1. <<"clean", "collect">> \in Starts BY DEF Starts
    <2>2. Takes(w, "clean", "collect") /\ UNCHANGED <<row, streams, lost, books, faultVars>>
      BY <1>1 DEF CleanStart
    <2> QED BY <2>1, <2>2, TakenChain
  <1>h. HeldOK(w) BY DEF Chained
  <1>2. ASSUME work[w].task = "clean", queue' = queue, UNCHANGED <<row, books>>,
               lost \subseteq lost', Others(w), HeldOK(w)'
        PROVE  Chained'
    <2>1. work[w] # Free /\ \A t \in Tasks: queue[t] = 0
      <3>1. work[w] # Free BY <1>f, <1>2 DEF Tasks
      <3> QED BY <3>1, Tokens
    <2>2. QueuesOK' BY <1>2, <2>1, Handed
    <2>3. BooksOK' BY <1>2, SameBooks DEF Chained
    <2> QED BY <1>2, <2>1, <2>2, <2>3, Alone DEF Chained
  <1>3. CASE CleanRead(w)
    <2> DEFINE m == NextMessage(parsed)
               k == parsed.read
    <2>1. /\ work[w].task = "clean" /\ work[w].at \in {"collect", "counted"}
          /\ Unread(parsed) /\ parsed' = HandOut(parsed) /\ queue' = queue
          /\ UNCHANGED <<row, lost, books>>
      BY <1>3 DEF CleanRead
    <2>2. work[w].at = "collect" /\ Collected(w) BY <1>h, <2>1 DEF HeldOK, Counted
    <2>0. Missing' = Missing BY <2>1, Losing
    <2>3. /\ k \in Nat /\ k <= N /\ parsed.msgs = Whole.msgs /\ cleaned = NewStream /\ Fresh
          /\ \A i \in 1 .. N: \/ work[w].todo[Ordered[i]] = IF i <= k THEN 1 ELSE 0
                              \/ work[w].todo[Ordered[i]] = 0 /\ Ordered[i] \in Missing
      <3>1. parsed.msgs = Whole.msgs /\ cleaned = NewStream /\ Fresh BY <2>2 DEF Collected
      <3>2. k \in Nat /\ k < N + 1 BY <1>s, <2>1, <3>1, WholeOf DEF StreamOK, Unread
      <3> QED BY <1>n, <2>2, <3>1, <3>2 DEF Collected
    <2>4. parsed'.msgs = Whole.msgs /\ parsed'.read = k + 1
      BY <1>s, <2>1, <2>3, StreamSteps
    <2>5. m = Whole.msgs[k + 1] BY <2>3 DEF NextMessage
    <2> HIDE DEF k, N
    <2>6. CASE k < N
      <3>1. k + 1 \in 1 .. N BY <1>n, <2>3, <2>6
      <3>2. m.kind = "batch" /\ m.chunk = Ordered[k + 1] BY <2>5, <3>1, WholeOf DEF N
      <3>3. /\ cleaned' = cleaned
            /\ Moves(w, work[w].at, [work[w].todo EXCEPT ![m.chunk] = @ + 1], work[w].made)
        BY <1>t, <1>3, <3>2, ReadMoves
      <3>4. \A i \in 1 .. N: \/ work'[w].todo[Ordered[i]] = IF i <= k + 1 THEN 1 ELSE 0
                             \/ work'[w].todo[Ordered[i]] = 0 /\ Ordered[i] \in Missing
        <4> SUFFICES ASSUME NEW i \in 1 .. N
                     PROVE  \/ work'[w].todo[Ordered[i]] = IF i <= k + 1 THEN 1 ELSE 0
                            \/ work'[w].todo[Ordered[i]] = 0 /\ Ordered[i] \in Missing
          OBVIOUS
        <4> DEFINE bag == work[w].todo
        <4>1. bag \in [Chunks -> Nat] BY <1>t DEF WorkRec
        <4>2. work'[w].todo = [bag EXCEPT ![Ordered[k + 1]] = @ + 1] BY <3>2, <3>3 DEF Moves
        <4>3. Ordered[i] \in Chunks /\ Ordered[k + 1] \in Chunks
              /\ (Ordered[i] = Ordered[k + 1] <=> i = k + 1)
          BY <3>1, OrderedAll DEF N
        <4>4. \/ bag[Ordered[i]] = IF i <= k THEN 1 ELSE 0
              \/ bag[Ordered[i]] = 0 /\ Ordered[i] \in Missing
          BY <2>3
        <4> HIDE DEF bag
        <4>5. CASE i = k + 1
          <5>1. ~(i <= k) /\ i <= k + 1 BY <2>3, <4>5
          <5>2. bag[Ordered[k + 1]] = 0 BY <4>4, <4>5, <5>1
          <5>3. work'[w].todo[Ordered[k + 1]] = 1 BY <4>1, <4>2, <4>3, <5>2
          <5> QED BY <4>5, <5>1, <5>3
        <4>6. CASE i # k + 1
          <5>1. i <= k + 1 <=> i <= k BY <2>3, <4>6
          <5> QED BY <4>1, <4>2, <4>3, <4>4, <4>6, <5>1
        <4> QED BY <4>5, <4>6
      <3>5. Collected(w)'
        BY <2>0, <2>1, <2>3, <2>4, <3>3, <3>4 DEF Collected, Fresh, books, N
      <3>6. HeldOK(w)' BY <2>1, <2>2, <3>3, <3>5 DEF HeldOK, Does, Moves
      <3> QED BY <1>2, <2>1, <3>3, <3>6 DEF Moves
    <2>7. CASE k = N
      <3>1. m.kind = "sentinel" BY <2>5, <2>7, WholeOf DEF N
      <3>2. /\ cleaned' = Write(cleaned, Sentinel)
            /\ Moves(w, "counted", work[w].todo, work[w].made)
        BY <1>t, <1>3, <3>1, ReadMoves
      <3>3. ~Unread(parsed)'
        <4>1. Len(parsed'.msgs) = N + 1 /\ parsed'.read = N + 1 BY <2>4, <2>7, WholeOf DEF N
        <4> QED BY <1>n, <4>1 DEF Unread
      <3>4. \A c \in Chunks: /\ work'[w].todo[c] = 1 \/ (work'[w].todo[c] = 0 /\ c \in Missing)
                             /\ Copies(cleaned', c) = {}
        <4> SUFFICES ASSUME NEW c \in Chunks
                     PROVE  /\ work'[w].todo[c] = 1 \/ (work'[w].todo[c] = 0 /\ c \in Missing)
                            /\ Copies(cleaned', c) = {}
          OBVIOUS
        <4>1. PICK i \in 1 .. N: Ordered[i] = c BY OrderedAll DEF N
        <4>2. work[w].todo[c] = 1 \/ (work[w].todo[c] = 0 /\ c \in Missing)
          BY <1>n, <2>3, <2>7, <4>1
        <4>3. Copies(cleaned', c) = {} BY <1>s, <2>3, <3>2, CopiesOf
        <4> QED BY <3>2, <4>2, <4>3 DEF Moves
      <3>5. Counted(w)' BY <2>0, <2>1, <2>3, <3>3, <3>4 DEF Counted, Fresh, books
      <3>6. HeldOK(w)' BY <2>1, <3>2, <3>5 DEF HeldOK, Does, Moves
      <3> QED BY <1>2, <2>1, <3>2, <3>6 DEF Moves
    <2> QED BY <1>n, <2>3, <2>6, <2>7
  <1>4. CASE CleanDispatch(w)
    <2>1. /\ work[w].task = "clean" /\ work[w].at \in {"collect", "counted"}
          /\ Goes(w, "dispatch") /\ queue' = queue
          /\ UNCHANGED <<row, streams, books>>
          /\ Lose(LeftIn(parsed), "not cleaned")
      BY <1>4 DEF CleanDispatch
    <2>2. /\ lost \subseteq lost' /\ Missing \subseteq Missing'
          /\ \A c \in Chunks: Copies(parsed, c) # {} => c \in Missing'
      <3>1. LeftIn(parsed) \in SUBSET Chunks /\ "not cleaned" \in Losses BY DEF LeftIn, Losses
      <3>2. LeftIn(parsed) \subseteq Missing' BY <2>1, <3>1, Losing
      <3> QED BY <2>1, <3>1, <3>2, Losing DEF LeftIn
    <2>3. Moves(w, "dispatch", work[w].todo, work[w].made) BY <1>t, <2>1, MovesOf DEF Stages
    <2>4. Fresh
      BY <1>h, <2>1 DEF HeldOK, Collected, Counted
    <2>5. ASSUME NEW c \in Chunks
          PROVE  \/ work[w].todo[c] = 1 /\ Copies(cleaned, c) = {}
                 \/ work[w].todo[c] = 0 /\ Single(cleaned, c) /\ c \in Missing'
      <3>1. CASE work[w].at = "counted"
        BY <1>h, <2>2, <3>1 DEF HeldOK, Counted, Single
      <3>2. CASE work[w].at = "collect"
        <4>1. Collected(w) BY <1>h, <3>2 DEF HeldOK
        <4>2. Copies(cleaned, c) = {} BY <1>s, <4>1, CopiesOf DEF Collected
        <4>3. PICK i \in 1 .. N: Ordered[i] = c BY OrderedAll
        <4>4. CASE i <= parsed.read
          BY <2>2, <4>1, <4>2, <4>3, <4>4 DEF Collected, Single
        <4>5. CASE ~(i <= parsed.read)
          <5>1. parsed.msgs = Whole.msgs /\ Len(parsed.msgs) = N + 1
            BY <4>1, WholeOf DEF Collected
          <5>2. i \in parsed.read + 1 .. Len(parsed.msgs)
            BY <1>n, <1>s, <4>5, <5>1 DEF StreamOK
          <5>3. parsed.msgs[i].kind = "batch" /\ parsed.msgs[i].chunk = c
            BY <4>3, <5>1, WholeOf
          <5>4. c \in Missing' BY <2>2, <5>2, <5>3 DEF Copies
          <5>5. work[w].todo[c] = 0 BY <4>1, <4>3, <4>5 DEF Collected
          <5> QED BY <4>2, <5>4, <5>5 DEF Single
        <4> QED BY <4>4, <4>5
      <3> QED BY <2>1, <3>1, <3>2
    <2>6. Dispatched(w)' BY <2>1, <2>3, <2>4, <2>5 DEF Dispatched, Fresh, Moves, streams, books
    <2>7. HeldOK(w)' BY <2>1, <2>3, <2>6 DEF HeldOK, Does, Moves
    <2> QED BY <1>2, <2>1, <2>2, <2>3, <2>7 DEF Moves
  <1>5. CASE CleanDone(w)
    <2>1. /\ work[w].task = "clean" /\ work[w].at = "dispatch" /\ work[w].todo = Nothing
          /\ Enqueue("import") /\ Ends(w)
          /\ UNCHANGED <<row, streams, lost, books, faultVars>>
      BY <1>5 DEF CleanDone, Does
    <2>2. Dispatched(w) BY <1>h, <2>1 DEF HeldOK
    <2>3. \A c \in Chunks: Single(cleaned, c) /\ (Copies(cleaned, c) # {} \/ c \in Missing)
      BY <2>1, <2>2 DEF Dispatched, Nothing
    <2>4. Waiting'
      <3>1. Fresh BY <2>2 DEF Dispatched
      <3>2. Waiting BY <2>3, <3>1 DEF Waiting, Known, MayPay, Fresh, Nothing
      <3> QED BY <2>1, <3>2, SameStages
    <2>5. work[w] # Free /\ \A t \in Tasks: queue[t] = 0
      <3>1. work[w] # Free BY <1>f, <2>1 DEF Tasks
      <3> QED BY <3>1, Tokens
    <2>6. QueuesOK' BY <2>1, <2>4, <2>5, Handed
    <2>7. BooksOK' BY <2>1, SameBooks DEF Chained, faultVars
    <2>8. Stops(w) BY <1>t, <2>1, MovesOf
    <2>9. HeldOK(w)' BY <2>8, FreeHolds DEF Stops
    <2> QED BY <2>5, <2>6, <2>7, <2>8, <2>9, Alone DEF Chained, Stops
  <1>6. ASSUME NEW c \in Chunks, CleanOne(w, c) PROVE Chained'
    <2>1. /\ work[w].task = "clean" /\ work[w].at = "dispatch" /\ work[w].todo[c] > 0
          /\ queue' = queue /\ UNCHANGED <<row, books>>
      BY <1>6 DEF CleanOne, Does
    <2>2. /\ \/ cleaned' = Write(cleaned, Batch(c))
             \/ cleaned' = cleaned /\ c \in Missing'
          /\ lost \subseteq lost' /\ Missing \subseteq Missing'
      <3>1. \/ cleaned' = Write(cleaned, Batch(c)) /\ lost' = lost
            \/ cleaned' = cleaned /\ Lose({c}, "refused")
        BY <1>6 DEF CleanOne, OneToken, faultVars
      <3>2. {c} \in SUBSET Chunks /\ "refused" \in Losses BY DEF Losses
      <3> QED BY <3>1, <3>2, Losing
    <2>3. Moves(w, "dispatch", [work[w].todo EXCEPT ![c] = @ - 1], work[w].made)
      BY <1>t, <1>6, ReadMoves
    <2>4. Dispatched(w) BY <1>h, <2>1 DEF HeldOK
    <2>5. ASSUME NEW d \in Chunks
          PROVE  \/ work'[w].todo[d] = 1 /\ Copies(cleaned', d) = {}
                 \/ /\ work'[w].todo[d] = 0 /\ Single(cleaned', d)
                    /\ Copies(cleaned', d) # {} \/ d \in Missing'
      <3>1. \/ cleaned' = cleaned /\ c \in Missing'
            \/ Copies(cleaned', d)
                 = Copies(cleaned, d) \cup (IF c = d THEN {Len(cleaned.msgs) + 1} ELSE {})
        BY <1>s, <2>2, CopiesOf
      <3>2. work'[w].todo[d] = IF c = d THEN work[w].todo[c] - 1 ELSE work[w].todo[d]
        BY <1>t, <2>3 DEF Moves, WorkRec
      <3>3. CASE c = d
        <4>1. work[w].todo[c] = 1 /\ Copies(cleaned, c) = {} BY <2>1, <2>4 DEF Dispatched
        <4>2. \/ Copies(cleaned', d) = {} /\ d \in Missing'
              \/ Copies(cleaned', d) = {Len(cleaned.msgs) + 1}
          BY <3>1, <3>3, <4>1
        <4>3. Single(cleaned', d) BY <4>2 DEF Single
        <4>4. work'[w].todo[d] = 0 BY <3>2, <3>3, <4>1
        <4>5. Copies(cleaned', d) # {} \/ d \in Missing' BY <4>2
        <4> QED BY <4>3, <4>4, <4>5
      <3>4. CASE c # d
        <4>1. Copies(cleaned', d) = Copies(cleaned, d) BY <3>1, <3>4
        <4>2. work'[w].todo[d] = work[w].todo[d] BY <3>2, <3>4
        <4>3. \/ work[w].todo[d] = 1 /\ Copies(cleaned, d) = {}
              \/ /\ work[w].todo[d] = 0 /\ Single(cleaned, d)
                 /\ Copies(cleaned, d) # {} \/ d \in Missing
          BY <2>4 DEF Dispatched
        <4>4. d \in Missing => d \in Missing' BY <2>2
        <4>5. Single(cleaned, d) => Single(cleaned', d) BY <4>1 DEF Single
        <4> QED BY <4>1, <4>2, <4>3, <4>4, <4>5
      <3> QED BY <3>3, <3>4
    <2>6. Dispatched(w)' BY <2>1, <2>4, <2>5 DEF Dispatched, Fresh, books
    <2>7. HeldOK(w)' BY <2>1, <2>3, <2>6 DEF HeldOK, Does, Moves
    <2> QED BY <1>2, <2>1, <2>2, <2>3, <2>7 DEF Moves
  <1> QED BY <1>1, <1>3, <1>4, <1>5, <1>6

\* Polling.
LEMMA PollChain ==
  ASSUME OneToken, Chained, NEW w \in Workers, doubled' = 0,
         PollStart(w) \/ PollWrites(w) \/ PollDone(w) \/ PollFallsBack(w) \/ PollAgain(w)
  PROVE  Chained'
  <1>t. RestOK /\ WorkOK /\ work[w] \in WorkRec BY DEF OneToken, WorkOK
  <1>f. Free.task = None /\ Free.at = None /\ None \notin Tasks \cup Stages
    BY CsvPipelineAssumption DEF Free
  <1>h. HeldOK(w) BY DEF Chained
  <1>k. "poll" \in Tasks BY DEF Tasks
  <1>1. CASE PollStart(w)
    <2>1. UNCHANGED <<row, streams, lost, books, faultVars>> BY <1>1 DEF PollStart
    <2>2. CASE Takes(w, "poll", "answer")
      <3>1. <<"poll", "answer">> \in Starts BY DEF Starts
      <3> QED BY <2>1, <2>2, <3>1, TakenChain
    <2>3. CASE /\ queue["poll"] > 0 /\ queue' = [queue EXCEPT !["poll"] = @ - 1]
               /\ UNCHANGED work
      <3>1. QueuesOK' BY <1>k, <2>3, Emptied
      <3>2. BooksOK' BY <2>1, SameBooks DEF Chained, faultVars
      <3>3. \A v \in Workers: work'[v] = Free BY <1>k, <2>3, Tokens
      <3> QED BY <3>1, <3>2, <3>3, FreeHolds DEF Chained
    <2> QED BY <1>1, <2>2, <2>3 DEF PollStart
  <1>2. CASE PollWrites(w)
    <2>1. /\ work[w].task = "poll" /\ work[w].at = "answer" /\ queue' = queue
          /\ UNCHANGED <<row, parsed, books, faultVars>> /\ Goes(w, "written")
      BY <1>2 DEF PollWrites, Does
    <2>2. PICK bad \in SUBSET Chunks:
            /\ Lose(bad, "batch")
            /\ cleaned' = Write(cleaned,
                 [i \in DOMAIN Ordered |->
                    [kind |-> IF Ordered[i] \in bad THEN "empty" ELSE "batch",
                     chunk |-> Ordered[i]]] \o Sentinel)
      BY <1>2 DEF PollWrites
    <2>3. Between BY <1>h, <2>1 DEF HeldOK
    <2>4. StreamOK(cleaned) /\ cleaned = NewStream BY <1>t, <2>3 DEF Between, RestOK
    <2>5. \A c \in Chunks: Single(cleaned', c) /\ (c \notin bad => Copies(cleaned', c) # {})
      BY <2>2, <2>4, Answers
    <2>12. bad \subseteq Missing' /\ lost \subseteq lost'
      <3>1. "batch" \in Losses BY DEF Losses
      <3> QED BY <2>2, <3>1, Losing
    <2>6. Waiting'
      <3>1. awarded' = 0 /\ \A c \in Chunks: contacts'[c] = 0
        BY <2>1, <2>3 DEF Between, Fresh, Nothing, books
      <3>2. \A c \in Chunks: Known(c)' BY <2>5, <3>1 DEF Known
      <3>3. \A c \in Chunks \ Missing': Copies(cleaned', c) # {} BY <2>5, <2>12
      <3> QED BY <3>1, <3>2, <3>3 DEF Waiting, MayPay
    <2>7. Moves(w, "written", work[w].todo, work[w].made) BY <1>t, <2>1, MovesOf DEF Stages
    <2>8. HeldOK(w)' BY <2>1, <2>6, <2>7 DEF HeldOK, Does, Moves
    <2>9. work[w] # Free /\ \A t \in Tasks: queue[t] = 0
      <3>1. work[w] # Free BY <1>f, <1>k, <2>1
      <3> QED BY <3>1, Tokens
    <2>10. QueuesOK' BY <2>1, <2>9, Handed
    <2>11. BooksOK' BY <2>1, <2>12, SameBooks DEF Chained
    <2> QED BY <2>7, <2>8, <2>9, <2>10, <2>11, Alone DEF Chained, Moves
  <1>3. CASE PollDone(w) \/ PollFallsBack(w) \/ PollAgain(w)
    <2>1. /\ work[w].task = "poll" /\ Ends(w)
          /\ UNCHANGED <<streams, lost, books, faultVars>>
          /\ row' = row \/ row' = [row EXCEPT !.job = FALSE]
          /\ \/ work[w].at = "written" /\ Enqueue("import")
             \/ work[w].at = "answer" /\ (Enqueue("clean") \/ Enqueue("poll"))
      BY <1>3 DEF PollDone, PollFallsBack, PollAgain, Does
    <2>2. work[w] # Free /\ \A t \in Tasks: queue[t] = 0
      <3>1. work[w] # Free BY <1>f, <1>k, <2>1
      <3> QED BY <3>1, Tokens
    <2>3. QueuesOK'
      <3>1. CASE work[w].at = "written" /\ Enqueue("import")
        <4>1. Waiting BY <1>h, <3>1 DEF HeldOK
        <4>2. Waiting' BY <2>1, <4>1, SameStages
        <4> QED BY <2>2, <3>1, <4>2, Handed
      <3>2. CASE work[w].at = "answer" /\ (Enqueue("clean") \/ Enqueue("poll"))
        <4>1. Between BY <1>h, <3>2 DEF HeldOK
        <4>2. Between' BY <2>1, <4>1 DEF Between, Fresh, streams, books
        <4> QED BY <2>2, <3>2, <4>2, Handed
      <3> QED BY <2>1, <3>1, <3>2
    <2>4. row'.status = row.status BY <1>t, <2>1 DEF RestOK
    <2>5. BooksOK' BY <2>1, <2>4, SameBooks DEF Chained, faultVars
    <2>6. Stops(w) BY <1>t, <2>1, MovesOf
    <2>7. HeldOK(w)' BY <2>6, FreeHolds DEF Stops
    <2> QED BY <2>2, <2>3, <2>5, <2>6, <2>7, Alone DEF Chained, Stops
  <1> QED BY <1>1, <1>2, <1>3

\* An empty bag counts zero.
LEMMA NothingCounts == Count(Nothing) = 0
  <1>1. DOMAIN Nothing = Chunks /\ IsFiniteSet(Chunks) /\ \A c \in Chunks: Nothing[c] = 0
    BY CsvPipelineAssumption DEF Nothing
  <1>2. SumFunctionOnSet(Nothing, Chunks) <= Cardinality(Chunks) * 0 BY <1>1, SumBounded
  <1>3. SumFunctionOnSet(Nothing, Chunks) \in Nat BY <1>1, SumNatural
  <1>4. Cardinality(Chunks) * 0 = 0 BY OrderedAll
  <1>5. SumFunctionOnSet(Nothing, Chunks) = 0 BY <1>2, <1>3, <1>4
  <1> QED BY <1>1, <1>5 DEF Count, SumFunction

\* Importing.
LEMMA ImportChain ==
  ASSUME OneToken, Chained, NEW w \in Workers, doubled' = 0,
         \/ ImportStart(w) \/ ImportRead(w) \/ ImportCommit(w) \/ ImportMark(w)
         \/ ImportFails(w) \/ \E c \in Chunks: ImportWakes(w, c)
  PROVE  Chained'
  <1>t. RestOK /\ WorkOK /\ work[w] \in WorkRec BY DEF OneToken, WorkOK
  <1>f. Free.task = None /\ Free.at = None /\ None \notin Tasks \cup Stages
    BY CsvPipelineAssumption DEF Free
  <1>s. StreamOK(cleaned) BY <1>t DEF RestOK
  <1>h. HeldOK(w) BY DEF Chained
  <1>k. work[w].task = "import" => work[w] # Free /\ (\A t \in Tasks: queue[t] = 0)
                                   /\ \A v \in Workers \ {w}: work[v] = Free
    <2>1. work[w].task = "import" => work[w] # Free BY <1>f DEF Tasks
    <2> QED BY <2>1, Tokens
  <1>1. CASE ImportStart(w)
    <2>1. <<"import", "publish">> \in Starts BY DEF Starts
    <2>2. Takes(w, "import", "publish") /\ UNCHANGED <<row, streams, lost, books, faultVars>>
      BY <1>1 DEF ImportStart
    <2> QED BY <2>1, <2>2, TakenChain
  <1>2. CASE ImportRead(w)
    <2> DEFINE m == NextMessage(cleaned)
    <2>1. /\ work[w].task = "import" /\ work[w].at = "read" /\ Unread(cleaned)
          /\ cleaned' = HandOut(cleaned) /\ queue' = queue
          /\ UNCHANGED <<row, parsed, lost, books, faultVars>>
      BY <1>2 DEF ImportRead, Does
    <2>2. Importing(w) BY <1>h, <2>1 DEF HeldOK, Does
    <2>3. QueuesOK' BY <1>k, <2>1, Handed
    <2>4. BooksOK' BY <2>1, SameBooks DEF Chained, faultVars
    <2>5. m \in Message BY <1>s, <2>1, StreamSteps
    <2>6. ASSUME NEW c \in Chunks, ~(m.kind = "batch" /\ m.chunk = c)
          PROVE  Copies(cleaned', c) = Copies(cleaned, c)
      BY <1>s, <2>1, <2>6, CopiesOf
    <2>7. ASSUME NEW c \in Chunks, m.kind = "batch", m.chunk = c
          PROVE  /\ Copies(cleaned, c) # {} /\ Copies(cleaned', c) = {}
                 /\ work[w].made[c] = 0 /\ contacts[c] = 0
      <3>1. /\ cleaned.read + 1 \in Copies(cleaned, c)
            /\ Copies(cleaned', c) = Copies(cleaned, c) \ {cleaned.read + 1}
        BY <1>s, <2>1, <2>7, CopiesOf
      <3>2. Single(cleaned, c) /\ work[w].made[c] = 0 /\ contacts[c] = 0
        BY <2>2, <3>1 DEF Importing, Known
      <3> QED BY <3>1, <3>2 DEF Single
    <2>8. /\ Others(w) /\ work'[w].task = "import" /\ work'[w].at = "read"
          /\ \A c \in Chunks: work'[w].made[c] =
                IF m.kind = "batch" /\ m.chunk = c THEN 1 ELSE work[w].made[c]
      <3>1. CASE (m.kind = "batch" => contacts[m.chunk] > 0) /\ UNCHANGED work
        <4>1. m.kind # "batch" BY <2>5, <2>7, <3>1, Messages
        <4> QED BY <2>1, <3>1, <4>1 DEF Others
      <3>2. CASE /\ m.kind = "batch" /\ m.chunk \in Chunks
                 /\ Moves(w, "read", work[w].todo, [work[w].made EXCEPT ![m.chunk] = @ + 1])
        <4>1. work[w].made[m.chunk] = 0 BY <2>7, <3>2
        <4> QED BY <1>t, <2>1, <3>2, <4>1 DEF Moves, WorkRec
      <3>3. CASE m.kind = "batch" /\ m.chunk \in Chunks /\ Rivals(w, m.chunk) # {}
        <4>1. PICK v \in Workers \ {w}: work[v].made[m.chunk] > 0 BY <3>3 DEF Rivals
        <4>2. work[v] = Free BY <1>k, <2>1, <4>1
        <4>3. Free.made = Nothing BY DEF Free
        <4>4. Nothing[m.chunk] = 0 BY <3>3 DEF Nothing
        <4> QED BY <4>1, <4>2, <4>3, <4>4
      <3> QED BY <1>t, <1>2, <3>1, <3>2, <3>3, ReadMoves
    <2> HIDE DEF m
    <2>14. /\ contacts' = contacts /\ awarded' = awarded /\ Missing' = Missing
           /\ LeftToImport' = LeftToImport
      BY <2>1, Losing DEF books
    <2>9. \A c \in Chunks: Known(c)' BY <2>2, <2>6, <2>7, <2>14 DEF Importing, Known, Single
    <2>10. \A c \in Chunks: \/ work'[w].made[c] = 0
                            \/ /\ work'[w].made[c] = 1 /\ contacts[c] = 0
                               /\ Copies(cleaned', c) = {}
      BY <2>2, <2>6, <2>7, <2>8 DEF Importing
    <2>11. \A c \in Chunks \ Missing:
              contacts[c] >= 1 \/ work'[w].made[c] = 1 \/ Copies(cleaned', c) # {}
      BY <2>2, <2>6, <2>8 DEF Importing
    <2>15. MayPay \/ \A c \in Chunks: Copies(cleaned', c) = {} /\ work'[w].made[c] = 0
      <3> SUFFICES ASSUME ~MayPay, NEW c \in Chunks
                   PROVE  Copies(cleaned', c) = {} /\ work'[w].made[c] = 0
        OBVIOUS
      <3>1. Copies(cleaned, c) = {} /\ work[w].made[c] = 0 BY <2>2 DEF Importing
      <3>2. ~(m.kind = "batch" /\ m.chunk = c) BY <2>7, <3>1
      <3> QED BY <2>6, <2>8, <3>1, <3>2
    <2>12. Importing(w)' BY <2>9, <2>10, <2>11, <2>14, <2>15 DEF Importing, MayPay
    <2>13. HeldOK(w)' BY <2>8, <2>12 DEF HeldOK, Does
    <2> QED BY <1>k, <2>1, <2>3, <2>4, <2>8, <2>13, Alone DEF Chained
  <1>3. CASE \E c \in Chunks: ImportWakes(w, c)
    BY <1>h, <1>3 DEF ImportWakes, HeldOK, Does
  <1>4. CASE ImportCommit(w)
    <2>1. /\ work[w].task = "import" /\ work[w].at = "read"
          /\ queue' = queue /\ row' = row /\ UNCHANGED streams
          /\ Lose(LeftIn(cleaned), "not imported")
      BY <1>4 DEF ImportCommit, Does
    <2>13. contacts' = [c \in Chunks |-> contacts[c] + work[w].made[c]]
      BY <1>4 DEF ImportCommit
    <2>14. awarded' = awarded + Paid(w) BY <1>4 DEF ImportCommit
    <2>2. Importing(w) BY <1>h, <2>1 DEF HeldOK, Does
    <2>3. Moves(w, "mark", work[w].todo, Nothing) BY <1>t, <1>4, ReadMoves
    <2>4. QueuesOK' BY <1>k, <2>1, Handed
    <2>5. /\ contacts \in [Chunks -> Nat] /\ work[w].made \in [Chunks -> Nat]
          /\ awarded \in Nat
          /\ \A c \in Chunks: contacts[c] <= 1
          /\ LeftToImport = {} => awarded <= 1
          /\ row.status = "completed" => Imported
      BY <1>t DEF WorkRec, Chained, BooksOK, RestOK
    <2>6. /\ Missing \subseteq Missing' /\ LeftToImport' = LeftToImport \cup LeftIn(cleaned)
          /\ \A c \in Chunks: Copies(cleaned, c) # {} => c \in Missing'
          /\ cleaned' = cleaned
      <3>1. LeftIn(cleaned) \in SUBSET Chunks /\ "not imported" \in Losses
        BY DEF LeftIn, Losses
      <3>2. LeftIn(cleaned) \subseteq Missing' BY <2>1, <3>1, Losing
      <3> QED BY <2>1, <3>1, <3>2, Losing DEF LeftIn, streams
    <2>7. \A c \in Chunks: contacts'[c] = contacts[c] + work[w].made[c] /\ contacts'[c] <= 1
      <3> SUFFICES ASSUME NEW c \in Chunks
                   PROVE  contacts'[c] = contacts[c] + work[w].made[c] /\ contacts'[c] <= 1
        OBVIOUS
      <3>1. contacts'[c] = contacts[c] + work[w].made[c] BY <2>13
      <3>2. work[w].made[c] = 0 \/ (work[w].made[c] = 1 /\ contacts[c] = 0)
        BY <2>2 DEF Importing
      <3>3. contacts[c] \in Nat /\ contacts[c] <= 1 BY <2>5
      <3> QED BY <3>1, <3>2, <3>3
    <2>8. LeftToImport' = {} => /\ LeftToImport = {} /\ awarded' <= 1
                                /\ \A c \in Chunks: Copies(cleaned, c) = {}
      <3> SUFFICES ASSUME LeftToImport' = {}
                   PROVE  /\ LeftToImport = {} /\ awarded' <= 1
                          /\ \A c \in Chunks: Copies(cleaned, c) = {}
        OBVIOUS
      <3>1. LeftToImport = {} /\ LeftIn(cleaned) = {} BY <2>6
      <3>2. \A c \in Chunks: Copies(cleaned, c) = {} BY <3>1 DEF LeftIn
      <3>3. CASE awarded = 0
        <4>1. Paid(w) \in {0, 1} BY DEF Paid
        <4>2. awarded' <= 1 BY <2>14, <3>3, <4>1
        <4> QED BY <3>1, <3>2, <4>2
      <3>4. CASE awarded # 0
        <4>1. \A c \in Chunks: work[w].made[c] = 0
          BY <2>2, <3>1, <3>4 DEF Importing, MayPay
        <4>2. work[w].made = Nothing BY <2>5, <4>1 DEF Nothing
        <4>3. Paid(w) = 0 BY <4>2, NothingCounts DEF Paid
        <4>4. awarded' <= 1 BY <2>5, <2>14, <3>1, <4>3
        <4> QED BY <3>1, <3>2, <4>4
      <3> QED BY <3>3, <3>4
    <2>9. Imported'
      <3> SUFFICES ASSUME NEW c \in Chunks, c \notin Missing' PROVE contacts'[c] >= 1
        BY DEF Imported
      <3>1. c \notin Missing /\ Copies(cleaned, c) = {} BY <2>6
      <3>2. contacts[c] >= 1 \/ work[w].made[c] = 1 BY <2>2, <3>1 DEF Importing
      <3> QED BY <2>5, <2>7, <3>2
    <2>10. Waiting'
      <3>1. \A c \in Chunks: Known(c)'
        <4> SUFFICES ASSUME NEW c \in Chunks PROVE Known(c)' OBVIOUS
        <4>1. Known(c) BY <2>2 DEF Importing
        <4>2. contacts'[c] = 0 \/ Copies(cleaned, c) = {}
          BY <2>2, <2>5, <2>7, <4>1 DEF Importing, Known
        <4> QED BY <2>6, <4>1, <4>2 DEF Known
      <3>2. MayPay' \/ \A c \in Chunks: Copies(cleaned', c) = {} BY <2>6, <2>8 DEF MayPay
      <3> QED BY <2>9, <3>1, <3>2 DEF Waiting, Imported
    <2>11. BooksOK' BY <2>7, <2>8, <2>9 DEF BooksOK
    <2>12. HeldOK(w)' BY <2>1, <2>3, <2>9, <2>10 DEF HeldOK, Does, Moves
    <2> QED BY <1>k, <2>1, <2>3, <2>4, <2>11, <2>12, Alone DEF Chained, Moves
  <1>5. CASE ImportMark(w) \/ ImportFails(w)
    <2>1. /\ work[w].task = "import" /\ Ends(w) /\ queue' = queue
          /\ UNCHANGED <<lost, books, faultVars>>
          /\ \/ work[w].at = "mark"
             \/ row' = [row EXCEPT !.status = "failed", !.done = TRUE]
      BY <1>5 DEF ImportMark, ImportFails, Does
    <2>2. QueuesOK' BY <1>k, <2>1, Handed
    <2>3. BooksOK'
      <3>1. CASE work[w].at = "mark"
        <4>1. Imported BY <1>h, <3>1 DEF HeldOK
        <4>2. Missing' = Missing /\ LeftToImport' = LeftToImport BY <2>1, Losing
        <4> QED BY <2>1, <4>1, <4>2 DEF Chained, BooksOK, Imported, books
      <3>2. CASE row' = [row EXCEPT !.status = "failed", !.done = TRUE]
        <4>1. row'.status = "failed" BY <1>t, <3>2 DEF RestOK
        <4> QED BY <2>1, <4>1, SameBooks DEF Chained, faultVars
      <3> QED BY <2>1, <3>1, <3>2
    <2>4. Stops(w) BY <1>t, <2>1, MovesOf
    <2>5. HeldOK(w)' BY <2>4, FreeHolds DEF Stops
    <2> QED BY <1>k, <2>1, <2>2, <2>3, <2>4, <2>5, Alone DEF Chained, Stops
  <1> QED BY <1>1, <1>2, <1>3, <1>4, <1>5

\* An answer of Redis that does not arrive.
LEMMA ReplyChain ==
  ASSUME OneToken, Chained, NEW w \in Workers, ReplyLost(w)
  PROVE  Chained'
  <1> DEFINE N == Cardinality(Chunks)
  <1>t. RestOK /\ WorkOK BY DEF OneToken
  <1>f. Free.task = None /\ Free.at = None /\ None \notin Tasks \cup Stages
    BY CsvPipelineAssumption DEF Free
  <1>s. StreamOK(parsed) /\ StreamOK(cleaned) BY <1>t DEF RestOK
  <1>n. N \in Nat BY OrderedAll
  <1>h. HeldOK(w) BY DEF Chained
  <1>1. /\ UNCHANGED <<queue, work, row, books>>
        /\ work[w].task \in {"clean", "import"}
    BY DEF ReplyLost, Does
  <1>2. /\ work[w] # Free /\ \A t \in Tasks: queue[t] = 0
        /\ Others(w)
    <2>1. work[w] # Free BY <1>1, <1>f DEF Tasks
    <2> QED BY <1>1, <2>1, Tokens DEF Others
  <1>3. QueuesOK' BY <1>1, <1>2, Handed
  <1>4. ASSUME NEW s, Unread(s), StreamOK(s), Lose(ChunkOf(NextMessage(s)), "no answer")
        PROVE  /\ lost \subseteq lost' /\ Missing \subseteq Missing'
               /\ LeftToImport' = LeftToImport /\ NextMessage(s) \in Message
               /\ \A c \in Chunks: NextMessage(s).kind = "batch" /\ NextMessage(s).chunk = c
                                      => c \in Missing'
    <2>1. NextMessage(s) \in Message BY <1>4, StreamSteps
    <2>2. ChunkOf(NextMessage(s)) \in SUBSET Chunks /\ "no answer" \in Losses
      BY DEF ChunkOf, Losses
    <2>3. /\ lost \subseteq lost' /\ Missing \subseteq Missing'
          /\ LeftToImport' = LeftToImport /\ ChunkOf(NextMessage(s)) \subseteq Missing'
      BY <1>4, <2>2, Losing
    <2> QED BY <2>1, <2>3, ChunksOf
  <1>5. ASSUME lost \subseteq lost', HeldOK(w)' PROVE Chained'
    <2>1. BooksOK' BY <1>1, <1>5, SameBooks DEF Chained
    <2> QED BY <1>2, <1>3, <1>5, <2>1, Alone DEF Chained
  <1>6. CASE work[w].task = "clean"
    <2> DEFINE m == NextMessage(parsed)
               k == parsed.read
    <2>1. /\ work[w].at \in {"collect", "counted"} /\ Unread(parsed)
          /\ parsed' = HandOut(parsed) /\ cleaned' = cleaned
          /\ Lose(ChunkOf(m), "no answer")
      BY <1>6 DEF ReplyLost, Does
    <2>2. work[w].at = "collect" /\ Collected(w) BY <1>h, <2>1 DEF HeldOK, Counted
    <2>3. /\ lost \subseteq lost' /\ Missing \subseteq Missing'
          /\ \A c \in Chunks: m.kind = "batch" /\ m.chunk = c => c \in Missing'
      BY <1>s, <1>4, <2>1
    <2>7. parsed.msgs = Whole.msgs BY <2>2 DEF Collected
    <2>8. m = Whole.msgs[k + 1] BY <2>7 DEF NextMessage
    <2>9. k \in Nat BY <1>s DEF StreamOK
    <2>10. parsed'.msgs = Whole.msgs /\ parsed'.read = k + 1
      BY <1>s, <2>1, <2>7, StreamSteps
    <2>4. parsed'.msgs = Whole.msgs /\ parsed'.read = k + 1 /\ k \in Nat /\ m = Whole.msgs[k + 1]
      BY <2>8, <2>9, <2>10
    <2> HIDE DEF m, k
    <2>5. ASSUME NEW i \in 1 .. N
          PROVE  \/ work[w].todo[Ordered[i]] = IF i <= k + 1 THEN 1 ELSE 0
                 \/ work[w].todo[Ordered[i]] = 0 /\ Ordered[i] \in Missing'
      <3>1. \/ work[w].todo[Ordered[i]] = IF i <= k THEN 1 ELSE 0
            \/ work[w].todo[Ordered[i]] = 0 /\ Ordered[i] \in Missing'
        BY <2>2, <2>3 DEF Collected, k
      <3>2. CASE i = k + 1
        <4>1. m.kind = "batch" /\ m.chunk = Ordered[i] /\ Ordered[i] \in Chunks
          BY <2>4, <3>2, WholeOf, OrderedAll
        <4>2. Ordered[i] \in Missing' BY <2>3, <4>1
        <4>3. ~(i <= k) BY <2>4, <3>2
        <4> QED BY <3>1, <4>2, <4>3
      <3>3. CASE i # k + 1
        <4>1. i <= k + 1 <=> i <= k BY <2>4, <3>3
        <4> QED BY <3>1, <4>1
      <3> QED BY <3>2, <3>3
    <2>6. Collected(w)' BY <1>1, <2>1, <2>2, <2>4, <2>5 DEF Collected, Fresh, books
    <2>11. HeldOK(w)' BY <1>1, <1>6, <2>2, <2>6 DEF HeldOK, Does
    <2> QED BY <1>5, <2>3, <2>11
  <1>7. CASE work[w].task = "import"
    <2> DEFINE m == NextMessage(cleaned)
    <2>1. /\ work[w].at = "read" /\ Unread(cleaned)
          /\ cleaned' = HandOut(cleaned) /\ Lose(ChunkOf(m), "no answer")
      BY <1>7 DEF ReplyLost, Does
    <2>2. Importing(w) BY <1>h, <1>7, <2>1 DEF HeldOK, Does
    <2>3. /\ lost \subseteq lost' /\ Missing \subseteq Missing'
          /\ LeftToImport' = LeftToImport
          /\ \A c \in Chunks: m.kind = "batch" /\ m.chunk = c => c \in Missing'
      BY <1>s, <1>4, <2>1
    <2>4. \A c \in Chunks: \/ Copies(cleaned', c) = Copies(cleaned, c)
                           \/ /\ c \in Missing'
                              /\ Copies(cleaned', c) \subseteq Copies(cleaned, c)
      <3> SUFFICES ASSUME NEW c \in Chunks
                   PROVE  \/ Copies(cleaned', c) = Copies(cleaned, c)
                          \/ /\ c \in Missing'
                             /\ Copies(cleaned', c) \subseteq Copies(cleaned, c)
        OBVIOUS
      <3>1. CASE m.kind = "batch" /\ m.chunk = c
        <4>1. Copies(cleaned', c) = Copies(cleaned, c) \ {cleaned.read + 1}
          BY <1>s, <2>1, <3>1, CopiesOf
        <4> QED BY <2>3, <3>1, <4>1
      <3>2. CASE ~(m.kind = "batch" /\ m.chunk = c)
        <4>1. Copies(cleaned', c) = Copies(cleaned, c) BY <1>s, <2>1, <3>2, CopiesOf
        <4> QED BY <4>1
      <3> QED BY <3>1, <3>2
    <2> HIDE DEF m
    <2>5. contacts' = contacts /\ awarded' = awarded /\ work' = work BY <1>1 DEF books
    <2>6. \A c \in Chunks: Known(c)' BY <2>2, <2>4, <2>5 DEF Importing, Known, Single
    <2>7. \A c \in Chunks: \/ work[w].made[c] = 0
                           \/ /\ work[w].made[c] = 1 /\ contacts[c] = 0
                              /\ Copies(cleaned', c) = {}
      BY <2>2, <2>4 DEF Importing
    <2>8. \A c \in Chunks \ Missing':
             contacts[c] >= 1 \/ work[w].made[c] = 1 \/ Copies(cleaned', c) # {}
      BY <2>2, <2>3, <2>4 DEF Importing
    <2>9. MayPay \/ \A c \in Chunks: Copies(cleaned', c) = {} /\ work[w].made[c] = 0
      BY <2>2, <2>4 DEF Importing
    <2>10. Importing(w)' BY <2>3, <2>5, <2>6, <2>7, <2>8, <2>9 DEF Importing, MayPay
    <2>11. HeldOK(w)' BY <1>7, <2>1, <2>5, <2>10 DEF HeldOK, Does
    <2> QED BY <1>5, <2>3, <2>11
  <1> QED BY <1>1, <1>6, <1>7

\* Dead and overdue workers, and the two that fail an overdue upload.
LEMMA OtherChain ==
  ASSUME OneToken, Chained, doubled' = 0,
         \/ \E w \in Workers: Crash(w) \/ TimeLimit(w)
         \/ WatchdogRead \/ StatusPollRead \/ FailStale
         \/ UNCHANGED vars
  PROVE  Chained'
  <1>t. RestOK /\ WorkOK BY DEF OneToken
  <1>1. ASSUME NEW w \in Workers, Crash(w) \/ TimeLimit(w) PROVE Chained'
    <2>1. /\ work[w] # Free /\ Ends(w) /\ UNCHANGED <<row, streams, books>>
          /\ lost' = lost \/ Lose(Taken(w), "died")
      BY <1>1 DEF Crash, TimeLimit
    <2>2. /\ lost \subseteq lost' /\ Missing \subseteq Missing' /\ LeftToImport' = LeftToImport
          /\ Crash(w) => Taken(w) \subseteq Missing'
      <3>1. Taken(w) \in SUBSET Chunks /\ "died" \in Losses BY DEF Taken, Losses
      <3> QED BY <2>1, <3>1, Losing DEF Crash
    <2>8. UNCHANGED <<parsed, cleaned, contacts, awarded>> BY <2>1 DEF streams, books
    <2>3. BooksOK' BY <2>1, <2>2, SameBooks DEF Chained
    <2>4. Stops(w) BY <1>t, <2>1, MovesOf
    <2>5. HeldOK(w)' BY <2>4, FreeHolds DEF Stops
    <2>6. \A t \in Tasks: queue[t] = 0 BY <2>1, Tokens
    <2>7. QueuesOK'
      <3>1. CASE queue' = queue BY <2>6, <3>1, Handed
      <3>2. CASE Crash(w) /\ work[w].task = "process"
        <4>1. Enqueue("process") BY <3>2 DEF Crash, AcksLate
        <4>2. Before BY <3>2 DEF Chained, HeldOK
        <4>3. Before' BY <2>1, <4>2 DEF Before, Fresh, streams, books
        <4> QED BY <2>6, <4>1, <4>3, Handed
      <3>3. CASE Crash(w) /\ work[w].task = "poll"
        <4>1. Enqueue("poll") BY <3>3 DEF Crash, AcksLate
        <4>2. work[w].at \in {"answer", "written"}
          <5>1. AtOK(work[w]) BY <1>t DEF WorkOK, Kinds
          <5> QED BY <2>1, <3>3, <5>1 DEF AtOK
        <4>3. work[w].at # "written" BY <3>3 DEF Crash, Does, OneToken
        <4>4. Between BY <4>2, <4>3 DEF Chained, HeldOK
        <4>5. Between' BY <2>1, <4>4 DEF Between, Fresh, streams, books
        <4> QED BY <2>6, <4>1, <4>5, Handed
      <3>4. CASE Crash(w) /\ work[w].task = "import"
        <4>1. Enqueue("import") BY <3>4 DEF Crash, AcksLate
        <4>2. work[w].at \in {"publish", "read", "blocked", "mark"}
          <5>1. AtOK(work[w]) BY <1>t DEF WorkOK, Kinds
          <5> QED BY <2>1, <3>4, <5>1 DEF AtOK
        <4>3. /\ \A c \in Chunks: Known(c)
              /\ \A c \in Chunks \ Missing': contacts[c] >= 1 \/ Copies(cleaned, c) # {}
              /\ MayPay \/ \A c \in Chunks: Copies(cleaned, c) = {}
          <5>1. CASE work[w].at \in {"publish", "read"}
            <6>1. Importing(w) BY <3>4, <5>1 DEF Chained, HeldOK, Does
            <6>2. \A c \in Chunks: work[w].made[c] = 1 => c \in Missing'
              <7>1. work[w].todo \in [Chunks -> Nat] BY <1>t DEF WorkOK, WorkRec
              <7> QED BY <2>2, <3>4, <7>1 DEF Taken
            <6> QED BY <2>2, <6>1, <6>2 DEF Importing
          <5>2. CASE work[w].at = "mark"
            <6>1. Waiting BY <5>2 DEF Chained, HeldOK
            <6> QED BY <2>2, <6>1 DEF Waiting
          <5>3. work[w].at # "blocked" BY DEF Chained, HeldOK
          <5> QED BY <4>2, <5>1, <5>2, <5>3
        <4>4. Waiting'
          <5>1. \A c \in Chunks: Known(c)' BY <2>8, <4>3 DEF Known
          <5> QED BY <2>2, <2>8, <4>3, <5>1 DEF Waiting, MayPay
        <4> QED BY <2>6, <4>1, <4>4, Handed
      <3> QED BY <1>1, <3>1, <3>2, <3>3, <3>4 DEF Crash, TimeLimit, AcksLate
    <2> QED BY <2>1, <2>3, <2>4, <2>5, <2>7, Alone DEF Chained, Stops
  <1>2. CASE WatchdogRead \/ StatusPollRead \/ FailStale \/ UNCHANGED vars
    <2>1. /\ UNCHANGED <<queue, work, streams, lost, books>>
          /\ row' = row \/ row' = [row EXCEPT !.status = "failed", !.done = TRUE]
      BY <1>2 DEF WatchdogRead, StatusPollRead, FailStale, vars
    <2>2. row'.status = "completed" => row.status = "completed" BY <1>t, <2>1 DEF RestOK
    <2>3. BooksOK' BY <2>1, <2>2, SameBooks DEF Chained
    <2>4. QueuesOK' BY <2>1, SameStages DEF Chained, QueuesOK
    <2>5. \A w \in Workers: HeldOK(w)'
      <3> SUFFICES ASSUME NEW w \in Workers PROVE HeldOK(w)' OBVIOUS
      <3>1. HeldOK(w) BY DEF Chained
      <3> QED BY <2>1, <3>1, SameStages DEF HeldOK, Does
    <2> QED BY <2>3, <2>4, <2>5 DEF Chained
  <1> QED BY <1>1, <1>2

\* Every step keeps the stages.
LEMMA ChainStep ==
  ASSUME RestOK, WorkOK, TokenInv, ChainInv, [Next]_vars, RestOK'
  PROVE  ChainInv'
  <1> SUFFICES ASSUME doubled' = 0 PROVE Chained' BY DEF ChainInv
  <1>1. doubled = 0
    <2>1. doubled \in Nat BY CsvPipelineAssumption DEF RestOK
    <2>2. \/ \E w \in Workers: Step(w) \/ ReplyLost(w) \/ Crash(w) \/ TimeLimit(w)
          \/ doubled' = doubled
      BY DEF Next, WatchdogRead, StatusPollRead, FailStale, vars, faultVars
    <2>3. ASSUME NEW w \in Workers, Step(w) \/ ReplyLost(w) \/ Crash(w) \/ TimeLimit(w)
          PROVE  doubled' \in {doubled, doubled + 1}
      BY <2>3, Steps DEF Same
    <2> QED BY <2>1, <2>2, <2>3
  <1>2. OneToken /\ Chained BY <1>1 DEF OneToken, ChainInv
  <1>3. ASSUME NEW w \in Workers, Step(w) PROVE Chained'
    BY <1>2, <1>3, ParseChain, CleanChain, PollChain, ImportChain DEF Step
  <1>4. ASSUME NEW w \in Workers, ReplyLost(w) PROVE Chained'
    BY <1>2, <1>4, ReplyChain
  <1> QED BY <1>2, <1>3, <1>4, OtherChain DEF Next

\* The upload starts at the first stage.
LEMMA ChainInitial == Init => ChainInv
  <1> SUFFICES ASSUME Init PROVE Chained BY DEF ChainInv
  <1>1. Before BY DEF Init, Before, Fresh
  <1>2. QueuesOK BY <1>1 DEF Init, QueuesOK, Tasks
  <1>3. \A w \in Workers: HeldOK(w)
    <2>1. \A w \in Workers: work[w] = Free BY DEF Init
    <2> QED BY <2>1, FreeHolds
  <1>4. BooksOK BY DEF Init, BooksOK, Nothing
  <1> QED BY <1>2, <1>3, <1>4 DEF Chained

\* While no worker died and Redis has answered, only the batch job has lost chunks.
LossInv == faults = 0 => \A c \in Chunks: \A how \in Losses: <<c, how>> \in lost => how = "batch"

\* A step without a fault loses nothing else.  A cleaner that has counted all its chunks
\* leaves none in the stream, as its stage tells.
LEMMA LossStep ==
  ASSUME RestOK, WorkOK, ChainInv, LossInv, [Next]_vars, RestOK'
  PROVE  LossInv'
  <1> SUFFICES ASSUME faults' = 0 PROVE LossInv' BY DEF LossInv
  <1>t. MaxFaults \in Nat /\ faults \in Nat /\ doubled \in 0 .. faults
    BY CsvPipelineAssumption DEF RestOK
  <1>1. ASSUME lost' = lost, faults' = faults PROVE LossInv' BY <1>1 DEF LossInv
  <1>2. ASSUME NEW S \in SUBSET Chunks, NEW how \in Losses, Lose(S, how), faults' = faults,
               S = {} \/ how = "batch"
        PROVE  LossInv'
    <2>1. lost' = lost \cup (S \X {how}) BY <1>2 DEF Lose
    <2>2. \A c \in Chunks: \A h \in Losses: <<c, h>> \in lost' =>
             <<c, h>> \in lost \/ (c \in S /\ h = how)
      BY <2>1
    <2> QED BY <1>2, <2>2 DEF LossInv
  <1>o. ~Outage BY <1>t DEF Outage
  <1>3. ASSUME NEW w \in Workers, CleanDispatch(w) PROVE LossInv'
    <2>1. /\ Lose(LeftIn(parsed), "not cleaned") /\ faults' = faults
          /\ Enough(w) \/ ~Unread(parsed)
      BY <1>o, <1>3 DEF CleanDispatch, faultVars
    <2>2. ~Unread(parsed)
      <3>1. CASE Enough(w)
        <4>0. faults = 0 BY <2>1
        <4>1. doubled = 0 BY <1>t, <4>0
        <4>2. Counted(w)
          <5>1. work[w].at = "counted" BY <3>1 DEF Enough
          <5>2. HeldOK(w) BY <4>1 DEF ChainInv, Chained
          <5> QED BY <5>1, <5>2 DEF HeldOK
        <4> QED BY <4>2 DEF Counted
      <3> QED BY <2>1, <3>1
    <2>3. LeftIn(parsed) = {}
      <3>1. StreamOK(parsed) BY DEF RestOK
      <3>2. \A c \in Chunks: Copies(parsed, c) = {} BY <2>2, <3>1, CopiesOf
      <3> QED BY <3>2 DEF LeftIn
    <2>4. {} \in SUBSET Chunks /\ "not cleaned" \in Losses BY DEF Losses
    <2> QED BY <1>2, <2>1, <2>3, <2>4
  <1>4. ASSUME NEW w \in Workers, ImportCommit(w) PROVE LossInv'
    <2>1. Lose(LeftIn(cleaned), "not imported") /\ faults' = faults /\ ~Unread(cleaned)
      BY <1>o, <1>4 DEF ImportCommit, faultVars
    <2>2. LeftIn(cleaned) = {}
      <3>1. StreamOK(cleaned) BY DEF RestOK
      <3>2. \A c \in Chunks: Copies(cleaned, c) = {} BY <2>1, <3>1, CopiesOf
      <3> QED BY <3>2 DEF LeftIn
    <2>3. {} \in SUBSET Chunks /\ "not imported" \in Losses BY DEF Losses
    <2> QED BY <1>2, <2>1, <2>2, <2>3
  <1>5. ASSUME NEW w \in Workers, PollWrites(w) PROVE LossInv'
    <2>1. \E bad \in SUBSET Chunks: Lose(bad, "batch") BY <1>5 DEF PollWrites
    <2>2. faults' = faults BY <1>5 DEF PollWrites, faultVars
    <2>3. "batch" \in Losses BY DEF Losses
    <2> QED BY <1>2, <2>1, <2>2, <2>3
  <1>6. ASSUME NEW w \in Workers, NEW c \in Chunks, CleanOne(w, c) PROVE LossInv'
    BY <1>t, <1>o, <1>1, <1>6 DEF CleanOne, faultVars
  <1>7. ASSUME NEW w \in Workers, ReplyLost(w) \/ Crash(w) PROVE LossInv'
    <2>1. ~ReplyLost(w) BY <1>o DEF ReplyLost
    <2>2. Crash(w) => faults' = faults + 1 BY DEF Crash
    <2> QED BY <1>t, <1>7, <2>1, <2>2
  <1>8. ASSUME NEW w \in Workers, TimeLimit(w) PROVE LossInv'
    BY <1>1, <1>8 DEF TimeLimit, faultVars
  <1>9. ASSUME NEW w \in Workers, Route(w) PROVE LossInv'
    BY <1>t, <1>1, <1>9 DEF Route, faultVars
  <1>10. ASSUME NEW w \in Workers,
                \/ SingleStart(w) \/ Publish(w) \/ ParseStart(w) \/ ParseFails(w)
                \/ ParseWrite(w) \/ ParseRoute(w) \/ CleanStart(w) \/ CleanRead(w)
                \/ CleanDone(w)
         PROVE  LossInv'
    BY <1>1, <1>10 DEF SingleStart, Publish, ParseStart, ParseFails, ParseWrite, ParseRoute,
                       CleanStart, CleanRead, CleanDone, faultVars
  <1>11. ASSUME NEW w \in Workers,
                \/ PollStart(w) \/ PollDone(w) \/ PollFallsBack(w) \/ PollAgain(w)
                \/ ImportStart(w) \/ ImportRead(w) \/ ImportMark(w) \/ ImportFails(w)
                \/ \E c \in Chunks: ImportWakes(w, c)
         PROVE  LossInv'
    BY <1>1, <1>11 DEF PollStart, PollDone, PollFallsBack, PollAgain, ImportStart,
                       ImportRead, ImportMark, ImportFails, ImportWakes, faultVars
  <1>12. ASSUME WatchdogRead \/ StatusPollRead \/ FailStale \/ UNCHANGED vars PROVE LossInv'
    BY <1>1, <1>12 DEF WatchdogRead, StatusPollRead, FailStale, vars, faultVars
  <1>13. ASSUME NEW w \in Workers, Step(w) PROVE LossInv'
    BY <1>3, <1>4, <1>5, <1>6, <1>9, <1>10, <1>11, <1>13 DEF Step
  <1> QED BY <1>7, <1>8, <1>12, <1>13 DEF Next

PipeInv == RestOK /\ WorkOK /\ TokenInv /\ BudgetInv /\ ChainInv /\ LossInv
\* The inductive invariant of the pipeline: the types, the number of tokens and awards, and,
\* while nothing was handed over twice, what the stage of the one token says of the streams,
\* the worker and the books, and while nothing has failed, who may lose a chunk.
THEOREM PipeInductive == Spec => []PipeInv
  <1>0. Init => LossInv BY DEF Init, LossInv
  <1>1. Init => PipeInv BY <1>0, TypeInitial, TokenInitial, ChainInitial DEF PipeInv
  <1>2. PipeInv /\ [Next]_vars => PipeInv'
    BY TypeStep, TokenStep, ChainStep, LossStep DEF PipeInv
  <1> QED BY <1>1, <1>2, PTL DEF Spec

\* However often messages come again, an upload is paid for once; after a partial import
\* or beside a repeated hand-over, once more for each fault at most (AwardOnce).
THEOREM PaidOnce == Spec => []AwardOnce
  <1>1. PipeInv => AwardOnce
    <2> SUFFICES ASSUME PipeInv PROVE AwardOnce OBVIOUS
    <2>1. doubled = 0 /\ LeftToImport = {} => awarded <= 1
      BY DEF PipeInv, ChainInv, Chained, BooksOK
    <2>2. awarded <= 1 + faults
      <3>1. Queued \in Nat BY QueueSum DEF PipeInv, RestOK
      <3>2. Cardinality(Unpaid) \in Nat
        <4>1. Unpaid \in SUBSET Workers BY DEF Unpaid
        <4> QED BY <4>1, CsvPipelineAssumption, FS_Subset, FS_CardinalityType
      <3>3. awarded \in Nat /\ faults \in Nat
        BY CsvPipelineAssumption DEF PipeInv, RestOK
      <3> QED BY <3>1, <3>2, <3>3 DEF PipeInv, BudgetInv
    <2>3. awarded \in Nat /\ faults \in Nat
      BY CsvPipelineAssumption DEF PipeInv, RestOK
    <2> QED BY <2>1, <2>2, <2>3 DEF AwardOnce
  <1> QED BY <1>1, PipeInductive, PTL

\* "completed" is said of an import that is all there but for the chunks that are known to
\* be lost, each in one of six ways that are named; whatever workers die and whatever calls
\* of Redis fail, a chunk that is not among them is committed, while no hand-over is
\* repeated; and without such failures only what the batch job rejected is missing
\* (CompletedMeansImported).
THEOREM CompletedIsImported == Spec => []CompletedMeansImported
  <1>1. PipeInv => CompletedMeansImported
    <2> SUFFICES ASSUME PipeInv, row.status = "completed", doubled = 0
                 PROVE  \A c \in Chunks \ (IF faults = 0 THEN Rejected ELSE Missing):
                            contacts[c] >= 1
      BY DEF CompletedMeansImported
    <2>1. \A c \in Chunks \ Missing: contacts[c] >= 1
      BY DEF PipeInv, ChainInv, Chained, BooksOK, Imported
    <2>2. faults = 0 => \A c \in Chunks: c \in Missing => c \in Rejected
      <3> SUFFICES ASSUME faults = 0, NEW c \in Chunks, c \in Missing PROVE c \in Rejected
        OBVIOUS
      <3>1. PICK e \in lost: e[1] = c BY DEF Missing
      <3>2. e \in Chunks \X Losses BY <3>1 DEF PipeInv, RestOK
      <3>3. e = <<c, e[2]>> /\ e[2] \in Losses BY <3>1, <3>2
      <3>4. <<c, e[2]>> \in lost BY <3>1, <3>3
      <3>5. e[2] = "batch" BY <3>3, <3>4 DEF PipeInv, LossInv
      <3> QED BY <3>4, <3>5 DEF Rejected
    <2> QED BY <2>1, <2>2
  <1> QED BY <1>1, PipeInductive, PTL
-----------------------------------------------------------------------------
\* Copies of a chunk that can still reach the address book: those on their way there
\* (Possible), one for each token that has the file or a finished job ahead of it; and
\* those in the parsed stream, or ahead of it (Raw).
IsPre(r) == r.task = "process" \/ (r.task = "parse" /\ r.at \in {"publish", "write"})
IsLate(r) == (r.task = "parse" /\ r.at = "route") \/ (r.task = "poll" /\ r.at = "answer")
PreOf(r) == IF IsPre(r) THEN 1 ELSE 0
Holds(r, c) == r.todo[c] + r.made[c] + (IF IsPre(r) \/ IsLate(r) THEN 1 ELSE 0)
AllHold(c) == SumFunctionOnSet([w \in Workers |-> Holds(work[w], c)], Workers)
AllPre == SumFunctionOnSet([w \in Workers |-> PreOf(work[w])], Workers)
Possible(c) == Cardinality(Copies(cleaned, c)) + contacts[c]
               + queue["process"] + queue["parse"] + queue["poll"] + AllHold(c)
Raw(c) == Cardinality(Copies(parsed, c)) + queue["process"] + queue["parse"] + AllPre

\* Until a cleaning is asked for, a chunk is possible once, and once in the parsed stream,
\* and once more each for every repeated hand-over.  What is in the stream becomes
\* possible only through a cleaning, and a token is used up when one is asked for.
NoCleaner == queue["clean"] = 0 /\ \A w \in Workers: work[w].task # "clean"
Unasked(c) == NoCleaner /\ Possible(c) <= 1 + doubled /\ Raw(c) <= 1 + doubled
Asked(c) == Possible(c) + Raw(c) <= 1 + 2 * doubled
Phase(c) == Unasked(c) \/ Asked(c)
CopiesInv == \A c \in Chunks: Phase(c)

\* Only an import that waits for another one has a message in hand.
NoLeftover == \A w \in Workers: work[w].task = "import" /\ work[w].at # "blocked"
                                  => work[w].todo = Nothing

-----------------------------------------------------------------------------
\* Writing to a stream, field by field.
LEMMA RecordWrite ==
  ASSUME NEW a, NEW r, NEW m
  PROVE  Write([msgs |-> a, read |-> r], m) = [msgs |-> a \o m, read |-> r]
  <1> DEFINE s == [msgs |-> a, read |-> r]
             longer == s.msgs \o m
  <1>1. Write(s, m) = [s EXCEPT !.msgs = longer] BY DEF Write
  <1>2. longer = a \o m OBVIOUS
  <1> HIDE DEF longer
  <1>3. [s EXCEPT !.msgs = longer] = [msgs |-> longer, read |-> r] OBVIOUS
  <1> QED BY <1>1, <1>2, <1>3

\* One element more or less.
LEMMA OneMore ==
  ASSUME NEW S, IsFiniteSet(S), NEW x
  PROVE  /\ IsFiniteSet(S \cup {x}) /\ Cardinality(S \cup {x}) \in Nat
         /\ Cardinality(S) \in Nat /\ Cardinality(S \cup {x}) <= Cardinality(S) + 1
         /\ x \in S => Cardinality(S \ {x}) = Cardinality(S) - 1
  <1>1. /\ IsFiniteSet(S \cup {x})
        /\ Cardinality(S \cup {x}) = IF x \in S THEN Cardinality(S) ELSE Cardinality(S) + 1
    BY FS_AddElement
  <1>2. Cardinality(S) \in Nat /\ Cardinality(S \cup {x}) \in Nat BY <1>1, FS_CardinalityType
  <1>3. x \in S => Cardinality(S \ {x}) = Cardinality(S) - 1 BY FS_RemoveElement
  <1> QED BY <1>1, <1>2, <1>3

\* Counting copies.
LEMMA CountOf ==
  ASSUME NEW s, StreamOK(s), NEW c \in Chunks
  PROVE  /\ IsFiniteSet(Copies(s, c)) /\ Cardinality(Copies(s, c)) \in Nat
         /\ Cardinality(Copies(NewStream, c)) = 0
         /\ Cardinality(Copies(Write(s, Sentinel), c)) = Cardinality(Copies(s, c))
         /\ Unread(s) => LET m == NextMessage(s) IN
              Cardinality(Copies(HandOut(s), c)) = Cardinality(Copies(s, c))
                - (IF m.kind = "batch" /\ m.chunk = c THEN 1 ELSE 0)
  <1>1. s.read \in Nat /\ Len(s.msgs) \in Nat /\ Copies(s, c) \subseteq s.read + 1 .. Len(s.msgs)
    BY CopiesOf DEF StreamOK
  <1>2. IsFiniteSet(s.read + 1 .. Len(s.msgs))
    <2> DEFINE a == s.read + 1
               b == Len(s.msgs)
    <2>1. a \in Int /\ b \in Int BY <1>1
    <2> HIDE DEF a, b
    <2>2. IsFiniteSet(a .. b) BY <2>1, FS_Interval
    <2> QED BY <2>2 DEF a, b
  <1>3. IsFiniteSet(Copies(s, c)) /\ Cardinality(Copies(s, c)) \in Nat
    BY <1>1, <1>2, FS_Subset, FS_CardinalityType
  <1>4. Cardinality(Copies(NewStream, c)) = 0 BY CopiesOf, FS_EmptySet
  <1>5. Cardinality(Copies(Write(s, Sentinel), c)) = Cardinality(Copies(s, c)) BY CopiesOf
  <1>6. ASSUME Unread(s)
        PROVE  LET m == NextMessage(s) IN
              Cardinality(Copies(HandOut(s), c)) = Cardinality(Copies(s, c))
                - (IF m.kind = "batch" /\ m.chunk = c THEN 1 ELSE 0)
    <2> DEFINE m == NextMessage(s)
    <2>1. CASE m.kind = "batch" /\ m.chunk = c
      <3>1. /\ s.read + 1 \in Copies(s, c)
            /\ Copies(HandOut(s), c) = Copies(s, c) \ {s.read + 1}
        BY <1>6, <2>1, CopiesOf
      <3>2. Cardinality(Copies(HandOut(s), c)) = Cardinality(Copies(s, c)) - 1
        BY <1>3, <3>1, OneMore
      <3> QED BY <2>1, <3>2
    <2>2. CASE ~(m.kind = "batch" /\ m.chunk = c)
      <3>1. Copies(HandOut(s), c) = Copies(s, c) BY <1>6, <2>2, CopiesOf
      <3> QED BY <1>3, <2>2, <3>1
    <2> QED BY <2>1, <2>2
  <1> QED BY <1>3, <1>4, <1>5, <1>6

\* What is written adds one copy at most when it has one at most.
LEMMA AtMostOne ==
  ASSUME NEW s, StreamOK(s), NEW c \in Chunks, NEW m \in Seq(Message), NEW k,
         \A i \in 1 .. Len(m): m[i].kind = "batch" /\ m[i].chunk = c => i = k
  PROVE  Cardinality(Copies(Write(s, m), c)) <= Cardinality(Copies(s, c)) + 1
  <1> DEFINE a == s.msgs
             t == Write(s, m)
             n == Len(a)
  <1>1. a \in Seq(Message) /\ s.read \in Nat /\ n \in Nat /\ s.read <= n BY DEF StreamOK
  <1>2. t.read = s.read /\ t.msgs = a \o m BY StreamSteps
  <1> HIDE DEF a
  <1>3. /\ Len(a \o m) = Len(a) + Len(m) /\ Len(m) \in Nat
        /\ \A i \in 1 .. Len(a): (a \o m)[i] = a[i]
        /\ \A i \in 1 .. Len(m): (a \o m)[Len(a) + i] = m[i]
    BY <1>1, Joined
  <1> HIDE DEF t, n
  <1>4. Copies(t, c) \subseteq Copies(s, c) \cup {n + k}
    <2> SUFFICES ASSUME NEW i \in Copies(t, c) PROVE i \in Copies(s, c) \cup {n + k} OBVIOUS
    <2>1. /\ i \in s.read + 1 .. n + Len(m)
          /\ (a \o m)[i].kind = "batch" /\ (a \o m)[i].chunk = c
      BY <1>2, <1>3 DEF Copies, n
    <2>2. CASE i <= n
      <3>1. i \in 1 .. Len(a) /\ i \in s.read + 1 .. n BY <1>1, <2>1, <2>2 DEF n
      <3>2. a[i].kind = "batch" /\ a[i].chunk = c BY <1>3, <2>1, <3>1
      <3> QED BY <3>1, <3>2 DEF Copies, a, n
    <2>3. CASE i > n
      <3> DEFINE j == i - n
      <3>1. j \in 1 .. Len(m) /\ i = n + j BY <1>1, <1>3, <2>1, <2>3
      <3> HIDE DEF j
      <3>2. (a \o m)[i] = m[j] BY <1>3, <3>1 DEF n
      <3>3. j = k BY <2>1, <3>1, <3>2
      <3> QED BY <3>1, <3>3
    <2> QED BY <1>1, <1>3, <2>1, <2>2, <2>3
  <1>5. IsFiniteSet(Copies(s, c)) /\ Cardinality(Copies(s, c)) \in Nat BY CountOf
  <1>6. IsFiniteSet(Copies(s, c) \cup {n + k})
        /\ Cardinality(Copies(s, c) \cup {n + k}) <= Cardinality(Copies(s, c)) + 1
    BY <1>5, OneMore
  <1>7. Cardinality(Copies(t, c)) <= Cardinality(Copies(s, c) \cup {n + k})
    BY <1>4, <1>6, FS_Subset
  <1>8. Cardinality(Copies(t, c)) \in Nat /\ Cardinality(Copies(s, c) \cup {n + k}) \in Nat
    BY <1>4, <1>6, FS_Subset, FS_CardinalityType
  <1>9. Cardinality(Copies(t, c)) <= Cardinality(Copies(s, c)) + 1
    BY ONLY <1>5, <1>6, <1>7, <1>8
  <1> QED BY <1>9 DEF t

\* The file, a batch's results, one chunk, and one chunk twice.
LEMMA Writes ==
  ASSUME NEW s, StreamOK(s), NEW c \in Chunks
  PROVE  /\ Cardinality(Copies(Write(s, Batches \o Sentinel), c)) <= Cardinality(Copies(s, c)) + 1
         /\ \A bad \in SUBSET Chunks:
              Cardinality(Copies(Write(s,
                 [i \in DOMAIN Ordered |->
                    [kind |-> IF Ordered[i] \in bad THEN "empty" ELSE "batch",
                     chunk |-> Ordered[i]]] \o Sentinel), c)) <= Cardinality(Copies(s, c)) + 1
         /\ \A d \in Chunks:
              /\ Cardinality(Copies(Write(s, Batch(d)), c))
                   <= Cardinality(Copies(s, c)) + (IF d = c THEN 1 ELSE 0)
              /\ Cardinality(Copies(Write(s, Batch(d) \o Batch(d)), c))
                   <= Cardinality(Copies(s, c)) + (IF d = c THEN 2 ELSE 0)
  <1> DEFINE N == Cardinality(Chunks)
  <1>0. N \in Nat BY OrderedAll
  <1>1. Cardinality(Copies(Write(s, Batches \o Sentinel), c)) <= Cardinality(Copies(s, c)) + 1
    <2> DEFINE m == Whole.msgs
    <2>1. PICK k \in 1 .. N: Ordered[k] = c BY OrderedAll
    <2>2. /\ m \in Seq(Message) /\ Len(m) = N + 1
          /\ \A i \in 1 .. N: m[i].chunk = Ordered[i]
          /\ m[N + 1].kind = "sentinel"
      BY WholeOf
    <2>3. m = Batches \o Sentinel BY DEF Whole
    <2> HIDE DEF m
    <2>4. \A i \in 1 .. Len(m): m[i].kind = "batch" /\ m[i].chunk = c => i = k
      BY <1>0, <2>1, <2>2, OrderedAll
    <2>5. Cardinality(Copies(Write(s, m), c)) <= Cardinality(Copies(s, c)) + 1
      BY <2>2, <2>4, AtMostOne
    <2> QED BY <2>3, <2>5
  <1>2. ASSUME NEW bad \in SUBSET Chunks
        PROVE  Cardinality(Copies(Write(s,
                 [i \in DOMAIN Ordered |->
                    [kind |-> IF Ordered[i] \in bad THEN "empty" ELSE "batch",
                     chunk |-> Ordered[i]]] \o Sentinel), c)) <= Cardinality(Copies(s, c)) + 1
    <2> DEFINE answers == [i \in DOMAIN Ordered |->
                    [kind |-> IF Ordered[i] \in bad THEN "empty" ELSE "batch",
                     chunk |-> Ordered[i]]]
               m == answers \o Sentinel
    <2>1. PICK k \in 1 .. N: Ordered[k] = c BY OrderedAll
    <2>2. Write(NewStream, m).msgs = m /\ StreamOK(Write(NewStream, m))
      <3>1. StreamOK(NewStream) BY StreamSteps
      <3> QED BY <3>1, Answers
    <2>3. m \in Seq(Message) BY <2>2 DEF StreamOK
    <2>4. answers \in Seq(Message) /\ Len(answers) = N
          /\ \A i \in 1 .. N: answers[i].chunk = Ordered[i]
      <3>1. DOMAIN Ordered = 1 .. N BY OrderedAll
      <3>2. \A i \in DOMAIN Ordered: answers[i] \in Message /\ answers[i].chunk = Ordered[i]
        BY OrderedAll DEF Message
      <3>3. answers = [i \in 1 .. N |-> answers[i]] BY <3>1
      <3> HIDE DEF answers
      <3> QED BY <1>0, <3>1, <3>2, <3>3
    <2>5. Sentinel \in Seq(Message) /\ Len(Sentinel) = 1 /\ Sentinel[1].kind = "sentinel"
      BY Messages
    <2> HIDE DEF answers
    <2>6. /\ Len(answers \o Sentinel) = Len(answers) + Len(Sentinel)
          /\ \A i \in 1 .. Len(answers): (answers \o Sentinel)[i] = answers[i]
          /\ \A i \in 1 .. Len(Sentinel): (answers \o Sentinel)[Len(answers) + i] = Sentinel[i]
      <3>1. answers \in Seq(Message) /\ Sentinel \in Seq(Message) BY <2>4, <2>5
      <3> QED BY ONLY <3>1, Joined
    <2>7. 1 \in 1 .. Len(Sentinel) BY <2>5
    <2>8. /\ Len(m) = N + 1 /\ m[N + 1].kind = "sentinel"
          /\ \A i \in 1 .. N: m[i].chunk = Ordered[i]
      BY <1>0, <2>4, <2>5, <2>6, <2>7
    <2> HIDE DEF m
    <2>9. \A i \in 1 .. Len(m): m[i].kind = "batch" /\ m[i].chunk = c => i = k
      BY <1>0, <2>1, <2>8, OrderedAll
    <2>10. Cardinality(Copies(Write(s, m), c)) <= Cardinality(Copies(s, c)) + 1
      BY <2>3, <2>9, AtMostOne
    <2> QED BY <2>10 DEF m, answers
  <1>3. ASSUME NEW d \in Chunks, NEW t, StreamOK(t)
        PROVE  Cardinality(Copies(Write(t, Batch(d)), c))
                 <= Cardinality(Copies(t, c)) + (IF d = c THEN 1 ELSE 0)
    <2>1. Copies(Write(t, Batch(d)), c)
            = Copies(t, c) \cup (IF d = c THEN {Len(t.msgs) + 1} ELSE {})
      BY <1>3, CopiesOf
    <2>2. IsFiniteSet(Copies(t, c)) /\ Cardinality(Copies(t, c)) \in Nat BY <1>3, CountOf
    <2>3. CASE d = c
      <3>1. Copies(Write(t, Batch(d)), c) = Copies(t, c) \cup {Len(t.msgs) + 1} BY <2>1, <2>3
      <3>2. Cardinality(Copies(Write(t, Batch(d)), c)) <= Cardinality(Copies(t, c)) + 1
        BY <2>2, <3>1, OneMore
      <3> QED BY <2>3, <3>2
    <2>4. CASE d # c
      <3>1. Copies(Write(t, Batch(d)), c) = Copies(t, c) BY <2>1, <2>4
      <3> QED BY <2>2, <2>4, <3>1
    <2> QED BY <2>3, <2>4
  <1>4. ASSUME NEW d \in Chunks
        PROVE  Cardinality(Copies(Write(s, Batch(d) \o Batch(d)), c))
                 <= Cardinality(Copies(s, c)) + (IF d = c THEN 2 ELSE 0)
    <2> DEFINE t == Write(s, Batch(d))
    <2>1. Batch(d) \in Seq(Message) BY Messages
    <2>2. StreamOK(t) /\ t.read = s.read /\ t.msgs = s.msgs \o Batch(d) BY <2>1, StreamSteps
    <2>3. Write(s, Batch(d) \o Batch(d)) = Write(t, Batch(d))
      <3> DEFINE a == s.msgs
                 b == Batch(d)
      <3>1. s = [msgs |-> a, read |-> s.read] /\ a \in Seq(Message) BY DEF StreamOK
      <3>2. a \o (b \o b) = (a \o b) \o b BY <2>1, <3>1
      <3> HIDE DEF a, b
      <3>3. t = [msgs |-> a \o b, read |-> s.read] BY <3>1, RecordWrite DEF t, b
      <3> HIDE DEF t
      <3>4. Write(t, b) = [msgs |-> (a \o b) \o b, read |-> s.read] BY <3>3, RecordWrite
      <3>5. Write(s, b \o b) = [msgs |-> a \o (b \o b), read |-> s.read] BY <3>1, RecordWrite
      <3> QED BY <3>2, <3>4, <3>5 DEF b
    <2> HIDE DEF t
    <2>4. Cardinality(Copies(Write(t, Batch(d)), c))
            <= Cardinality(Copies(t, c)) + (IF d = c THEN 1 ELSE 0)
      BY <1>3, <2>2
    <2>5. Cardinality(Copies(t, c)) <= Cardinality(Copies(s, c)) + (IF d = c THEN 1 ELSE 0)
      BY <1>3 DEF t
    <2>6. Cardinality(Copies(t, c)) \in Nat /\ Cardinality(Copies(s, c)) \in Nat
      BY <2>2, CountOf
    <2>7. StreamOK(Write(t, Batch(d))) BY <2>1, <2>2, StreamSteps
    <2>8. Cardinality(Copies(Write(t, Batch(d)), c)) \in Nat BY <2>7, CountOf
    <2> QED BY <2>3, <2>4, <2>5, <2>6, <2>8
  <1> QED BY <1>1, <1>2, <1>3, <1>4

\* A step of one worker changes the totals by what it changes of that worker's record.
Possible1(w, c) ==
    Cardinality(Copies(cleaned, c)) + contacts[c]
    + queue["process"] + queue["parse"] + queue["poll"] + Holds(work[w], c)
Raw1(w, c) ==
    Cardinality(Copies(parsed, c)) + queue["process"] + queue["parse"] + PreOf(work[w])

\* What a record of a worker counts for.
LEMMA Weights ==
  ASSUME NEW r \in WorkRec, NEW c \in Chunks
  PROVE  /\ Holds(r, c) \in Nat /\ PreOf(r) \in {0, 1}
         /\ Holds(Free, c) = 0 /\ PreOf(Free) = 0
  <1>1. r.todo[c] \in Nat /\ r.made[c] \in Nat BY DEF WorkRec
  <1>2. /\ Free.task = None /\ Free.at = None /\ None \notin Tasks \cup Stages
        /\ Free.todo[c] = 0 /\ Free.made[c] = 0
    BY CsvPipelineAssumption DEF Free, Nothing
  <1>3. Holds(r, c) \in Nat BY <1>1 DEF Holds
  <1>4. ~IsPre(Free) /\ ~IsLate(Free) BY <1>2 DEF IsPre, IsLate, Tasks
  <1> QED BY <1>2, <1>3, <1>4 DEF Holds, PreOf

\* The totals are natural numbers, and a committed copy is one of the possible copies.
LEMMA Totals ==
  ASSUME RestOK, WorkOK, NEW c \in Chunks
  PROVE  /\ AllHold(c) \in Nat /\ AllPre \in Nat
         /\ Possible(c) \in Nat /\ Raw(c) \in Nat /\ contacts[c] <= Possible(c)
         /\ Cardinality(Copies(cleaned, c)) \in Nat /\ Cardinality(Copies(parsed, c)) \in Nat
         /\ \A t \in {"process", "parse", "poll", "clean"}: queue[t] \in Nat
  <1>1. work \in [Workers -> WorkRec] /\ IsFiniteSet(Workers)
    BY CsvPipelineAssumption DEF WorkOK
  <1>2. AllHold(c) \in Nat
    <2> DEFINE f == [w \in Workers |-> Holds(work[w], c)]
    <2>1. \A w \in Workers: f[w] \in Nat BY <1>1, Weights
    <2> HIDE DEF f
    <2>2. SumFunctionOnSet(f, Workers) \in Nat BY <1>1, <2>1, SumNatural
    <2> QED BY <2>2 DEF AllHold, f
  <1>3. AllPre \in Nat
    <2> DEFINE f == [w \in Workers |-> PreOf(work[w])]
    <2>1. \A w \in Workers: f[w] \in Nat BY DEF PreOf
    <2> HIDE DEF f
    <2>2. SumFunctionOnSet(f, Workers) \in Nat BY <1>1, <2>1, SumNatural
    <2> QED BY <2>2 DEF AllPre, f
  <1>4. Cardinality(Copies(cleaned, c)) \in Nat /\ Cardinality(Copies(parsed, c)) \in Nat
    BY CountOf DEF RestOK
  <1>5. /\ \A t \in {"process", "parse", "poll", "clean"}: queue[t] \in Nat
        /\ contacts[c] \in Nat
    BY DEF RestOK, Tasks
  <1> QED BY <1>2, <1>3, <1>4, <1>5 DEF Possible, Raw

\* One worker's record changes the sums over the workers by what it counts for.
LEMMA Changes ==
  ASSUME WorkOK, WorkOK', NEW w \in Workers, Others(w), NEW c \in Chunks
  PROVE  /\ AllHold(c)' = AllHold(c) - Holds(work[w], c) + Holds(work'[w], c)
         /\ AllPre' = AllPre - PreOf(work[w]) + PreOf(work'[w])
  <1>1. work \in [Workers -> WorkRec] /\ work' \in [Workers -> WorkRec] /\ IsFiniteSet(Workers)
    BY CsvPipelineAssumption DEF WorkOK
  <1>2. AllHold(c)' = AllHold(c) - Holds(work[w], c) + Holds(work'[w], c)
    <2> DEFINE f == [v \in Workers |-> Holds(work[v], c)]
               g == [v \in Workers |-> Holds(work'[v], c)]
    <2>1. \A v \in Workers: f[v] \in Int /\ g[v] \in Int BY <1>1, Weights
    <2>2. \A v \in Workers \ {w}: g[v] = f[v] BY DEF Others
    <2>3. f[w] = Holds(work[w], c) /\ g[w] = Holds(work'[w], c) OBVIOUS
    <2>4. AllHold(c) = SumFunctionOnSet(f, Workers) BY DEF AllHold
    <2>5. AllHold(c)' = SumFunctionOnSet(g, Workers) BY DEF AllHold
    <2> HIDE DEF f, g
    <2>6. SumFunctionOnSet(g, Workers) = SumFunctionOnSet(f, Workers) - f[w] + g[w]
      BY <1>1, <2>1, <2>2, SumExcept
    <2> QED BY <2>3, <2>4, <2>5, <2>6
  <1>3. AllPre' = AllPre - PreOf(work[w]) + PreOf(work'[w])
    <2> DEFINE f == [v \in Workers |-> PreOf(work[v])]
               g == [v \in Workers |-> PreOf(work'[v])]
    <2>1. \A v \in Workers: f[v] \in Int /\ g[v] \in Int BY DEF PreOf
    <2>2. \A v \in Workers \ {w}: g[v] = f[v] BY DEF Others
    <2>3. f[w] = PreOf(work[w]) /\ g[w] = PreOf(work'[w]) OBVIOUS
    <2>4. AllPre = SumFunctionOnSet(f, Workers) BY DEF AllPre
    <2>5. AllPre' = SumFunctionOnSet(g, Workers) BY DEF AllPre
    <2> HIDE DEF f, g
    <2>6. SumFunctionOnSet(g, Workers) = SumFunctionOnSet(f, Workers) - f[w] + g[w]
      BY <1>1, <2>1, <2>2, SumExcept
    <2> QED BY <2>3, <2>4, <2>5, <2>6
  <1> QED BY <1>2, <1>3

\* So a step of one worker changes the totals by what it changes in that worker's share.
LEMMA Deltas ==
  ASSUME RestOK, WorkOK, RestOK', WorkOK', NEW w \in Workers, Others(w), NEW c \in Chunks,
         NEW y \in Int, NEW r \in Int,
         Possible1(w, c)' <= Possible1(w, c) + y, Raw1(w, c)' <= Raw1(w, c) + r
  PROVE  Possible(c)' <= Possible(c) + y /\ Raw(c)' <= Raw(c) + r
  <1> DEFINE H == AllHold(c)
             P == AllPre
             a == Cardinality(Copies(cleaned, c)) + contacts[c]
                  + queue["process"] + queue["parse"] + queue["poll"]
             b == Cardinality(Copies(parsed, c)) + queue["process"] + queue["parse"]
             h == Holds(work[w], c)
             p == PreOf(work[w])
             h2 == Holds(work'[w], c)
             p2 == PreOf(work'[w])
             a2 == Cardinality(Copies(cleaned', c)) + contacts'[c]
                  + queue'["process"] + queue'["parse"] + queue'["poll"]
             b2 == Cardinality(Copies(parsed', c)) + queue'["process"] + queue'["parse"]
  <1>1. /\ H \in Int /\ P \in Int /\ a \in Int /\ b \in Int /\ h \in Int /\ p \in Int
    <2>1. contacts[c] \in Nat /\ work[w] \in WorkRec BY DEF RestOK, WorkOK
    <2> QED BY <2>1, Totals, Weights
  <1>2. a2 \in Int /\ b2 \in Int /\ h2 \in Int /\ p2 \in Int
    <2>1. contacts'[c] \in Nat /\ work'[w] \in WorkRec BY DEF RestOK, WorkOK
    <2>2. h2 \in Nat /\ p2 \in {0, 1} BY <2>1, Weights
    <2>4. Cardinality(Copies(cleaned', c)) \in Nat /\ Cardinality(Copies(parsed', c)) \in Nat
      BY CountOf DEF RestOK
    <2>5. queue'["process"] \in Nat /\ queue'["parse"] \in Nat /\ queue'["poll"] \in Nat
      BY DEF RestOK, Tasks
    <2> QED BY <2>1, <2>2, <2>4, <2>5
  <1>3. AllHold(c)' = H - h + h2 /\ AllPre' = P - p + p2 BY Changes
  <1>4. a2 + h2 <= a + h + y /\ b2 + p2 <= b + p + r BY DEF Possible1, Raw1
  <1>5. Possible(c) = a + H /\ Raw(c) = b + P BY DEF Possible, Raw
  <1>6. Possible(c)' = a2 + (H - h + h2)
    <2>1. Possible(c)' = a2 + AllHold(c)' BY DEF Possible
    <2> QED BY <1>3, <2>1
  <1>7. Raw(c)' = b2 + (P - p + p2)
    <2>1. Raw(c)' = b2 + AllPre' BY DEF Raw
    <2> QED BY <1>3, <2>1
  <1> HIDE DEF H, P, h, p, a, b, h2, p2, a2, b2
  <1>8. a2 + (H - h + h2) <= (a + H) + y BY ONLY <1>1, <1>2, <1>4, y \in Int
  <1>9. b2 + (P - p + p2) <= (b + P) + r BY ONLY <1>1, <1>2, <1>4, r \in Int
  <1> QED BY <1>5, <1>6, <1>7, <1>8, <1>9

-----------------------------------------------------------------------------
\* The numbers that the phases compare.
LEMMA PhaseNumbers ==
  ASSUME RestOK, WorkOK, NEW c \in Chunks
  PROVE  Possible(c) \in Nat /\ Raw(c) \in Nat /\ doubled \in Nat
  <1>1. doubled \in Nat BY CsvPipelineAssumption DEF RestOK
  <1> QED BY <1>1, Totals

Numbered == \A c \in Chunks: Possible(c) \in Nat /\ Raw(c) \in Nat /\ doubled \in Nat
\* They are numbers in every state.
LEMMA NumberedNow == RestOK /\ WorkOK => Numbered
  BY PhaseNumbers DEF Numbered

\* And so in the next one.
LEMMA NumberedNext == RestOK' /\ WorkOK' => Numbered'
  BY NumberedNow, PTL

\* The totals before and after a step.
LEMMA NextNumbers ==
  ASSUME RestOK, WorkOK, RestOK', WorkOK', NEW c \in Chunks
  PROVE  /\ Possible(c) \in Nat /\ Raw(c) \in Nat /\ doubled \in Nat
         /\ Possible(c)' \in Nat /\ Raw(c)' \in Nat /\ doubled' \in Nat
  BY NumberedNow, NumberedNext DEF Numbered

\* The numbers of one worker's share.
LEMMA Amounts ==
  ASSUME RestOK, WorkOK, RestOK', WorkOK', NEW w \in Workers, NEW c \in Chunks
  PROVE  /\ Cardinality(Copies(cleaned, c)) \in Nat /\ Cardinality(Copies(parsed, c)) \in Nat
         /\ Cardinality(Copies(cleaned', c)) \in Nat /\ Cardinality(Copies(parsed', c)) \in Nat
         /\ queue["process"] \in Nat /\ queue["parse"] \in Nat /\ queue["poll"] \in Nat
         /\ queue["clean"] \in Nat /\ queue \in [Tasks -> Nat] /\ contacts[c] \in Nat
         /\ work[w].todo[c] \in Nat /\ work[w].made[c] \in Nat
         /\ work[w].todo \in [Chunks -> Nat] /\ work[w].made \in [Chunks -> Nat]
         /\ Holds(Free, c) = 0 /\ PreOf(Free) = 0 /\ Free.task # "clean"
         /\ Holds(work[w], c) \in Nat /\ PreOf(work[w]) \in {0, 1}
         /\ doubled \in Nat
  <1>1. Cardinality(Copies(cleaned', c)) \in Nat /\ Cardinality(Copies(parsed', c)) \in Nat
    BY CountOf DEF RestOK
  <1>2. /\ work[w] \in WorkRec /\ work[w].todo[c] \in Nat /\ work[w].made[c] \in Nat
        /\ work[w].todo \in [Chunks -> Nat] /\ work[w].made \in [Chunks -> Nat]
    BY DEF WorkOK, WorkRec
  <1>3. queue \in [Tasks -> Nat] /\ contacts[c] \in Nat /\ doubled \in Nat
    BY CsvPipelineAssumption DEF RestOK
  <1>4. Free.task # "clean" BY CsvPipelineAssumption DEF Free, Tasks
  <1>5. /\ Holds(Free, c) = 0 /\ PreOf(Free) = 0
        /\ Holds(work[w], c) \in Nat /\ PreOf(work[w]) \in {0, 1}
    <2>1. Free \in WorkRec BY Blank
    <2> QED BY <1>2, <2>1, Weights
  <1>6. /\ Cardinality(Copies(cleaned, c)) \in Nat /\ Cardinality(Copies(parsed, c)) \in Nat
        /\ queue["process"] \in Nat /\ queue["parse"] \in Nat /\ queue["poll"] \in Nat
        /\ queue["clean"] \in Nat
    BY Totals
  <1> QED BY <1>1, <1>2, <1>3, <1>4, <1>5, <1>6

\* A step away from the cleaners.
LEMMA QuietBy ==
  ASSUME RestOK, WorkOK, RestOK', WorkOK', NEW c \in Chunks, Phase(c),
         NEW w \in Workers, Others(w),
         work'[w].task # "clean", queue'["clean"] = queue["clean"],
         \/ /\ doubled' = doubled
            /\ Possible1(w, c)' <= Possible1(w, c) /\ Raw1(w, c)' <= Raw1(w, c)
         \/ /\ doubled' = doubled + 1
            /\ Possible1(w, c)' <= Possible1(w, c) + 1 /\ Raw1(w, c)' <= Raw1(w, c) + 1
  PROVE  Phase(c)'
  <1>0. Possible1(w, c) \in Nat /\ Raw1(w, c) \in Nat
    <2>1. PreOf(work[w]) \in Nat /\ Holds(work[w], c) \in Nat BY Amounts
    <2> QED BY <2>1, Amounts DEF Possible1, Raw1
  <1> DEFINE more == doubled' - doubled
  <1>1. more \in {0, 1} /\ more \in Int /\ doubled' = doubled + more
    <2>1. doubled \in Nat BY NextNumbers
    <2>2. doubled' = doubled \/ doubled' = doubled + 1 OBVIOUS
    <2> QED BY ONLY <2>1, <2>2
  <1>2. Possible1(w, c)' <= Possible1(w, c) + more /\ Raw1(w, c)' <= Raw1(w, c) + more
    <2>1. CASE /\ doubled' = doubled
               /\ Possible1(w, c)' <= Possible1(w, c) /\ Raw1(w, c)' <= Raw1(w, c)
      <3>1. more = 0 BY <2>1, NextNumbers
      <3> HIDE DEF more
      <3> QED BY <1>0, <2>1, <3>1
    <2>2. CASE /\ doubled' = doubled + 1
               /\ Possible1(w, c)' <= Possible1(w, c) + 1 /\ Raw1(w, c)' <= Raw1(w, c) + 1
      <3>1. more = 1 BY <2>2, NextNumbers
      <3> HIDE DEF more
      <3> QED BY <2>2, <3>1
    <2> QED BY <2>1, <2>2
  <1> HIDE DEF more
  <1>3. Possible(c)' <= Possible(c) + more /\ Raw(c)' <= Raw(c) + more
    BY <1>1, <1>2, Deltas
  <1>4. NoCleaner => NoCleaner' BY DEF NoCleaner, Others
  <1>5. CASE Unasked(c)
    <2>1. Unasked(c)' BY <1>1, <1>3, <1>4, <1>5, NextNumbers DEF Unasked
    <2> QED BY <2>1 DEF Phase
  <1>6. CASE Asked(c)
    <2>1. Asked(c)' BY <1>1, <1>3, <1>6, NextNumbers DEF Asked
    <2> QED BY <2>1 DEF Phase
  <1> QED BY <1>5, <1>6 DEF Phase

\* A step of a cleaner, which makes copies of the parsed stream possible.
LEMMA CleanerBy ==
  ASSUME RestOK, WorkOK, RestOK', WorkOK', NEW c \in Chunks, Phase(c), ~NoCleaner,
         NEW w \in Workers, Others(w), NEW y \in Int, NEW r \in Int,
         Possible1(w, c)' <= Possible1(w, c) + y, Raw1(w, c)' <= Raw1(w, c) + r,
         y + r <= 2 * (doubled' - doubled)
  PROVE  Phase(c)'
  <1>1. Possible(c)' <= Possible(c) + y /\ Raw(c)' <= Raw(c) + r BY Deltas
  <1>2. Asked(c) BY DEF Phase, Unasked
  <1>3. Asked(c)' BY <1>1, <1>2, NextNumbers DEF Asked
  <1> QED BY <1>3 DEF Phase

\* A task ends by asking for a cleaning.
LEMMA AskBy ==
  ASSUME RestOK, WorkOK, RestOK', WorkOK', NEW c \in Chunks, Phase(c),
         NEW w \in Workers, Stops(w),
         queue' = [queue EXCEPT !["clean"] = @ + 1],
         UNCHANGED <<parsed, cleaned, contacts, doubled>>, IsLate(work[w])
  PROVE  Phase(c)'
  <1>1. Others(w) /\ work'[w] = Free BY DEF Stops
  <1>3. /\ queue'["process"] = queue["process"]
        /\ queue'["parse"] = queue["parse"] /\ queue'["poll"] = queue["poll"]
    BY Amounts DEF Tasks
  <1>4. Holds(work[w], c) >= 1 BY Amounts DEF Holds
  <1>5. Possible1(w, c)' <= Possible1(w, c) + (0 - 1) /\ Raw1(w, c)' <= Raw1(w, c) + 0
    BY <1>1, <1>3, <1>4, Amounts DEF Possible1, Raw1
  <1>6. Possible(c)' <= Possible(c) + (0 - 1) /\ Raw(c)' <= Raw(c) + 0
    BY <1>1, <1>5, Deltas
  <1>7. Asked(c)' BY <1>6, NextNumbers DEF Phase, Unasked, Asked
  <1> QED BY <1>7 DEF Phase

\* A step that only ends or loses what a worker held.
LEMMA LossBy ==
  ASSUME RestOK, WorkOK, RestOK', WorkOK', NEW c \in Chunks, Phase(c),
         NEW w \in Workers, Stops(w),
         \A t \in Tasks \ {"import"}: queue'[t] = queue[t],
         UNCHANGED <<parsed, contacts, doubled>>,
         Cardinality(Copies(cleaned', c)) <= Cardinality(Copies(cleaned, c))
  PROVE  Phase(c)'
  <1>1. Others(w) /\ work'[w] = Free BY DEF Stops
  <1>2. work'[w].task # "clean" BY <1>1, Amounts
  <1>3. /\ queue'["clean"] = queue["clean"] /\ queue'["process"] = queue["process"]
        /\ queue'["parse"] = queue["parse"] /\ queue'["poll"] = queue["poll"]
    BY DEF Tasks
  <1>4. Possible1(w, c)' <= Possible1(w, c) /\ Raw1(w, c)' <= Raw1(w, c)
    BY <1>1, <1>3, Amounts DEF Possible1, Raw1
  <1> QED BY <1>1, <1>2, <1>3, <1>4, QuietBy

\* The steps of the first task and of parse keep the phase.
LEMMA ParseCopies ==
  ASSUME RestOK, WorkOK, RestOK', WorkOK', NEW c \in Chunks, Phase(c), NEW w \in Workers,
         \/ Route(w) \/ SingleStart(w) \/ Publish(w) \/ ParseStart(w) \/ ParseFails(w)
         \/ ParseWrite(w) \/ ParseRoute(w)
  PROVE  Phase(c)'
  <1>f. Free.task = None /\ Free.at = None /\ None \notin Tasks \cup Stages
    BY CsvPipelineAssumption DEF Free
  <1>k. \A t \in {"process", "parse", "clean", "poll", "import"}: t \in Tasks BY DEF Tasks
  <1>t. AtOK(work[w]) BY DEF WorkOK, Kinds
  <1>1. CASE Route(w)
    <2>1. work[w] = Free /\ work' = work /\ UNCHANGED <<parsed, cleaned, contacts>>
      BY <1>1 DEF Route, streams, books
    <2>2. \/ /\ queue' = [queue EXCEPT !["process"] = @ - 1, !["parse"] = @ + 1]
             /\ doubled' = doubled
          \/ queue' = [queue EXCEPT !["parse"] = @ + 1] /\ doubled' = doubled + 1
      BY <1>1 DEF Route, faultVars
    <2>3. queue'["clean"] = queue["clean"] /\ queue'["poll"] = queue["poll"]
          /\ \/ /\ queue'["process"] = queue["process"] - 1 /\ queue'["parse"] = queue["parse"] + 1
                /\ doubled' = doubled
             \/ /\ queue'["process"] = queue["process"] /\ queue'["parse"] = queue["parse"] + 1
                /\ doubled' = doubled + 1
      BY <1>k, <2>2, Amounts
    <2>4. Others(w) /\ work[w].task # "clean" /\ work'[w].task # "clean"
      BY <2>1, Amounts DEF Others
    <2>5. \/ /\ doubled' = doubled
             /\ Possible1(w, c)' <= Possible1(w, c) /\ Raw1(w, c)' <= Raw1(w, c)
          \/ /\ doubled' = doubled + 1
             /\ Possible1(w, c)' <= Possible1(w, c) + 1 /\ Raw1(w, c)' <= Raw1(w, c) + 1
      BY <2>1, <2>3, Amounts DEF Possible1, Raw1
    <2> QED BY <2>1, <2>3, <2>4, <2>5, QuietBy
  <1>2. CASE SingleStart(w) \/ ParseStart(w)
    <2>1. PICK t \in {"process", "parse"}: Takes(w, t, "publish")
      BY <1>2 DEF SingleStart, ParseStart
    <2>2. UNCHANGED <<parsed, cleaned, contacts, doubled>>
      BY <1>2 DEF SingleStart, ParseStart, streams, books, faultVars
    <2>3. /\ Others(w) /\ work[w] = Free /\ queue[t] > 0
          /\ queue' = [queue EXCEPT ![t] = @ - 1]
          /\ work'[w].task = t /\ work'[w].at = "publish"
          /\ work'[w].todo = Nothing /\ work'[w].made = Nothing
      BY <1>k, <2>1, MovesOf DEF Stages
    <2>4. /\ queue'["clean"] = queue["clean"] /\ queue'["poll"] = queue["poll"]
          /\ queue'["process"] + queue'["parse"] = queue["process"] + queue["parse"] - 1
          /\ queue'["process"] \in Int /\ queue'["parse"] \in Int
      BY <1>k, <2>3, Amounts
    <2>5. Holds(work'[w], c) = 1 /\ PreOf(work'[w]) = 1
      BY <2>3 DEF Holds, PreOf, IsPre, IsLate, Nothing
    <2>6. Possible1(w, c)' <= Possible1(w, c) /\ Raw1(w, c)' <= Raw1(w, c)
      BY <2>2, <2>3, <2>4, <2>5, Amounts DEF Possible1, Raw1
    <2>7. work[w].task # "clean" /\ work'[w].task # "clean" BY <2>3, Amounts
    <2> QED BY <2>2, <2>3, <2>4, <2>6, <2>7, QuietBy
  <1>3. CASE Publish(w)
    <2>1. /\ work[w].at = "publish" /\ queue' = queue
          /\ UNCHANGED <<parsed, cleaned, contacts, doubled>>
          /\ Goes(w, IF work[w].task = "import" THEN "read" ELSE "write")
      BY <1>3 DEF Publish, streams, books, faultVars
    <2>2. work[w].task \in {"process", "parse", "import"} BY <1>f, <1>t, <2>1 DEF AtOK, Stages
    <2>3. PICK a \in {"read", "write"}:
             /\ Moves(w, a, work[w].todo, work[w].made)
             /\ a = "read" <=> work[w].task = "import"
      BY <2>1, MovesOf DEF Stages
    <2>4. Holds(work'[w], c) = Holds(work[w], c) /\ PreOf(work'[w]) = PreOf(work[w])
      BY <2>1, <2>2, <2>3 DEF Holds, PreOf, IsPre, IsLate, Moves
    <2>5. Possible1(w, c)' <= Possible1(w, c) /\ Raw1(w, c)' <= Raw1(w, c)
      BY <2>1, <2>4, Amounts DEF Possible1, Raw1
    <2>6. Others(w) /\ work[w].task # "clean" /\ work'[w].task # "clean"
      BY <2>2, <2>3 DEF Moves
    <2> QED BY <2>1, <2>5, <2>6, QuietBy
  <1>4. CASE ParseFails(w)
    <2>1. /\ work[w] = Free /\ work' = work /\ queue["parse"] > 0
          /\ queue' = [queue EXCEPT !["parse"] = @ - 1]
          /\ UNCHANGED <<parsed, cleaned, contacts, doubled>>
      BY <1>4 DEF ParseFails, streams, books, faultVars
    <2>2. queue'["clean"] = queue["clean"] /\ queue'["poll"] = queue["poll"]
          /\ queue'["process"] = queue["process"] /\ queue'["parse"] = queue["parse"] - 1
      BY <1>k, <2>1, Amounts
    <2>3. Possible1(w, c)' <= Possible1(w, c) /\ Raw1(w, c)' <= Raw1(w, c)
      BY <2>1, <2>2, Amounts DEF Possible1, Raw1
    <2>4. Others(w) /\ work[w].task # "clean" /\ work'[w].task # "clean"
      BY <2>1, Amounts DEF Others
    <2> QED BY <2>1, <2>2, <2>3, <2>4, QuietBy
  <1>5. CASE ParseWrite(w)
    <2>1. /\ work[w].task = "parse" /\ work[w].at = "write" /\ queue' = queue
          /\ parsed' = Write(parsed, Batches \o Sentinel) /\ Goes(w, "route")
          /\ UNCHANGED <<cleaned, contacts, doubled>>
      BY <1>5 DEF ParseWrite, Does, books, faultVars
    <2>2. Moves(w, "route", work[w].todo, work[w].made) BY <2>1, MovesOf DEF Stages
    <2>3. Cardinality(Copies(parsed', c)) <= Cardinality(Copies(parsed, c)) + 1
      BY <2>1, Writes DEF RestOK
    <2>4. Holds(work'[w], c) = Holds(work[w], c)
      BY <2>1, <2>2 DEF Holds, IsPre, IsLate, Moves
    <2>5. PreOf(work[w]) = 1 /\ PreOf(work'[w]) = 0 BY <2>1, <2>2 DEF PreOf, IsPre, Moves
    <2>6. Possible1(w, c)' <= Possible1(w, c) /\ Raw1(w, c)' <= Raw1(w, c)
      BY <2>1, <2>3, <2>4, <2>5, Amounts DEF Possible1, Raw1
    <2>7. Others(w) /\ work[w].task # "clean" /\ work'[w].task # "clean"
      BY <2>1, <2>2 DEF Moves
    <2> QED BY <2>1, <2>6, <2>7, QuietBy
  <1>6. CASE ParseRoute(w)
    <2>1. /\ work[w].task = "parse" /\ work[w].at = "route" /\ Ends(w)
          /\ UNCHANGED <<parsed, cleaned, contacts, doubled>>
          /\ Enqueue("clean") \/ Enqueue("poll")
      BY <1>6 DEF ParseRoute, Does, streams, books, faultVars
    <2>2. Stops(w) /\ work[w].task # "clean" /\ IsLate(work[w]) BY <2>1, MovesOf DEF IsLate
    <2>3. CASE Enqueue("clean") BY <2>1, <2>2, <2>3, AskBy DEF Enqueue
    <2>4. CASE Enqueue("poll")
      <3>1. queue'["clean"] = queue["clean"] /\ queue'["poll"] = queue["poll"] + 1
            /\ queue'["process"] = queue["process"] /\ queue'["parse"] = queue["parse"]
        BY <1>k, <2>4, Amounts DEF Enqueue
      <3>2. Holds(work[w], c) >= 1 BY <2>2, Amounts DEF Holds
      <3>3. Possible1(w, c)' <= Possible1(w, c) /\ Raw1(w, c)' <= Raw1(w, c)
        BY <2>1, <2>2, <3>1, <3>2, Amounts DEF Possible1, Raw1, Stops
      <3>4. Others(w) /\ work'[w].task # "clean" BY <2>2, Amounts DEF Stops
      <3> QED BY <2>1, <2>2, <3>1, <3>3, <3>4, QuietBy
    <2> QED BY <2>1, <2>3, <2>4
  <1> QED BY <1>1, <1>2, <1>3, <1>4, <1>5, <1>6

\* The steps of poll keep the phase.
LEMMA PollCopies ==
  ASSUME RestOK, WorkOK, RestOK', WorkOK', NEW c \in Chunks, Phase(c), NEW w \in Workers,
         PollStart(w) \/ PollWrites(w) \/ PollDone(w) \/ PollFallsBack(w) \/ PollAgain(w)
  PROVE  Phase(c)'
  <1>k. \A t \in {"process", "parse", "clean", "poll", "import"}: t \in Tasks BY DEF Tasks
  <1>1. CASE PollStart(w)
    <2>1. UNCHANGED <<parsed, cleaned, contacts, doubled>>
      BY <1>1 DEF PollStart, streams, books, faultVars
    <2>2. CASE Takes(w, "poll", "answer")
      <3>1. /\ Others(w) /\ work[w] = Free /\ queue["poll"] > 0
            /\ queue' = [queue EXCEPT !["poll"] = @ - 1]
            /\ work'[w].task = "poll" /\ work'[w].at = "answer"
            /\ work'[w].todo = Nothing /\ work'[w].made = Nothing
        BY <1>k, <2>2, MovesOf DEF Stages
      <3>2. /\ queue'["clean"] = queue["clean"] /\ queue'["poll"] = queue["poll"] - 1
            /\ queue'["process"] = queue["process"] /\ queue'["parse"] = queue["parse"]
        BY <1>k, <3>1, Amounts
      <3>3. Holds(work'[w], c) = 1 /\ PreOf(work'[w]) = 0
        BY <3>1 DEF Holds, PreOf, IsPre, IsLate, Nothing
      <3>4. Possible1(w, c)' <= Possible1(w, c) /\ Raw1(w, c)' <= Raw1(w, c)
        BY <2>1, <3>1, <3>2, <3>3, Amounts DEF Possible1, Raw1
      <3>5. work[w].task # "clean" /\ work'[w].task # "clean" BY <3>1, Amounts
      <3> QED BY <2>1, <3>1, <3>2, <3>4, <3>5, QuietBy
    <2>3. CASE /\ queue["poll"] > 0 /\ queue' = [queue EXCEPT !["poll"] = @ - 1]
               /\ UNCHANGED work /\ work[w] = Free
      <3>1. queue'["clean"] = queue["clean"] /\ queue'["poll"] = queue["poll"] - 1
            /\ queue'["process"] = queue["process"] /\ queue'["parse"] = queue["parse"]
        BY <1>k, <2>3, Amounts
      <3>2. Possible1(w, c)' <= Possible1(w, c) /\ Raw1(w, c)' <= Raw1(w, c)
        BY <2>1, <2>3, <3>1, Amounts DEF Possible1, Raw1
      <3>3. Others(w) /\ work[w].task # "clean" /\ work'[w].task # "clean"
        BY <2>3, Amounts DEF Others
      <3> QED BY <2>1, <3>1, <3>2, <3>3, QuietBy
    <2> QED BY <1>1, <2>2, <2>3 DEF PollStart
  <1>2. CASE PollWrites(w)
    <2>1. /\ work[w].task = "poll" /\ work[w].at = "answer" /\ queue' = queue
          /\ Goes(w, "written") /\ UNCHANGED <<parsed, contacts, doubled>>
      BY <1>2 DEF PollWrites, Does, books, faultVars
    <2>2. PICK bad \in SUBSET Chunks:
            cleaned' = Write(cleaned,
                 [i \in DOMAIN Ordered |->
                    [kind |-> IF Ordered[i] \in bad THEN "empty" ELSE "batch",
                     chunk |-> Ordered[i]]] \o Sentinel)
      BY <1>2 DEF PollWrites
    <2>3. Cardinality(Copies(cleaned', c)) <= Cardinality(Copies(cleaned, c)) + 1
      BY <2>2, Writes DEF RestOK
    <2>4. Moves(w, "written", work[w].todo, work[w].made) BY <2>1, MovesOf DEF Stages
    <2>5. Holds(work'[w], c) = Holds(work[w], c) - 1 /\ PreOf(work'[w]) = PreOf(work[w])
      BY <2>1, <2>4, Amounts DEF Holds, PreOf, IsPre, IsLate, Moves
    <2>6. Possible1(w, c)' <= Possible1(w, c) /\ Raw1(w, c)' <= Raw1(w, c)
      BY <2>1, <2>3, <2>5, Amounts DEF Possible1, Raw1
    <2>7. Others(w) /\ work[w].task # "clean" /\ work'[w].task # "clean"
      BY <2>1, <2>4 DEF Moves
    <2> QED BY <2>1, <2>6, <2>7, QuietBy
  <1>3. CASE PollDone(w)
    <2>1. /\ work[w].task = "poll" /\ Ends(w) /\ Enqueue("import")
          /\ UNCHANGED <<parsed, cleaned, contacts, doubled>>
      BY <1>3 DEF PollDone, Does, streams, books, faultVars
    <2>2. Stops(w) /\ work[w].task # "clean" BY <2>1, MovesOf
    <2>3. \A t \in Tasks \ {"import"}: queue'[t] = queue[t] BY <1>k, <2>1, Amounts DEF Enqueue
    <2>4. Cardinality(Copies(cleaned', c)) <= Cardinality(Copies(cleaned, c))
      BY <2>1, Amounts
    <2> QED BY <2>1, <2>2, <2>3, <2>4, LossBy
  <1>4. CASE PollFallsBack(w)
    <2>1. /\ work[w].task = "poll" /\ work[w].at = "answer" /\ Ends(w) /\ Enqueue("clean")
          /\ UNCHANGED <<parsed, cleaned, contacts, doubled>>
      BY <1>4 DEF PollFallsBack, Does, streams, books, faultVars
    <2>2. Stops(w) /\ work[w].task # "clean" /\ IsLate(work[w]) BY <2>1, MovesOf DEF IsLate
    <2> QED BY <2>1, <2>2, AskBy DEF Enqueue
  <1>5. CASE PollAgain(w)
    <2>1. /\ work[w].task = "poll" /\ work[w].at = "answer" /\ Ends(w) /\ Enqueue("poll")
          /\ UNCHANGED <<parsed, cleaned, contacts, doubled>>
      BY <1>5 DEF PollAgain, Does, streams, books, faultVars
    <2>2. Stops(w) /\ work[w].task # "clean" /\ IsLate(work[w]) BY <2>1, MovesOf DEF IsLate
    <2>3. queue'["clean"] = queue["clean"] /\ queue'["poll"] = queue["poll"] + 1
          /\ queue'["process"] = queue["process"] /\ queue'["parse"] = queue["parse"]
      BY <1>k, <2>1, Amounts DEF Enqueue
    <2>4. Holds(work[w], c) >= 1 BY <2>2, Amounts DEF Holds
    <2>5. Possible1(w, c)' <= Possible1(w, c) /\ Raw1(w, c)' <= Raw1(w, c)
      BY <2>1, <2>2, <2>3, <2>4, Amounts DEF Possible1, Raw1, Stops
    <2>6. Others(w) /\ work'[w].task # "clean" BY <2>2, Amounts DEF Stops
    <2> QED BY <2>1, <2>2, <2>3, <2>5, <2>6, QuietBy
  <1> QED BY <1>1, <1>2, <1>3, <1>4, <1>5

\* The import that completes the upload deletes both streams.
LEMMA MarkPhase ==
  ASSUME RestOK, WorkOK, RestOK', WorkOK', NEW c \in Chunks, Phase(c),
         NEW w \in Workers, ImportMark(w)
  PROVE  Phase(c)'
  <1>1. /\ work[w].task = "import" /\ work[w].at = "mark" /\ queue' = queue
        /\ parsed' = NewStream /\ cleaned' = NewStream /\ UNCHANGED <<contacts, doubled>>
        /\ Ends(w)
    BY DEF ImportMark, Does, books, faultVars
  <1>2. Others(w) /\ work'[w] = Free BY <1>1, MovesOf DEF Stops
  <1>3. Cardinality(Copies(NewStream, c)) = 0 BY CountOf DEF RestOK
  <1>4. Possible1(w, c)' <= Possible1(w, c) /\ Raw1(w, c)' <= Raw1(w, c)
    BY <1>1, <1>2, <1>3, Amounts DEF Possible1, Raw1
  <1> QED BY <1>1, <1>2, <1>4, Amounts, QuietBy

\* The other steps of import keep the phase.
LEMMA ImportCopies ==
  ASSUME RestOK, WorkOK, RestOK', WorkOK', NoLeftover, NEW c \in Chunks, Phase(c),
         NEW w \in Workers,
         \/ ImportStart(w) \/ ImportRead(w) \/ ImportCommit(w)
         \/ ImportFails(w) \/ \E d \in Chunks: ImportWakes(w, d)
  PROVE  Phase(c)'
  <1>k. "import" \in Tasks /\ \A t \in Tasks \ {"import"}: t \in Tasks BY DEF Tasks
  <1>q. \A t \in {"process", "parse", "clean", "poll"}: t \in Tasks \ {"import"} BY DEF Tasks
  <1>s. StreamOK(cleaned) BY DEF RestOK
  <1>1. CASE ImportStart(w)
    <2>1. Takes(w, "import", "publish") /\ UNCHANGED <<parsed, cleaned, contacts, doubled>>
      BY <1>1 DEF ImportStart, streams, books, faultVars
    <2>2. /\ Others(w) /\ work[w] = Free
          /\ queue' = [queue EXCEPT !["import"] = @ - 1]
          /\ work'[w].task = "import" /\ work'[w].at = "publish"
          /\ work'[w].todo = Nothing /\ work'[w].made = Nothing
      BY <1>k, <2>1, MovesOf DEF Stages
    <2>3. /\ queue'["clean"] = queue["clean"] /\ queue'["poll"] = queue["poll"]
          /\ queue'["process"] = queue["process"] /\ queue'["parse"] = queue["parse"]
      BY <1>k, <1>q, <2>2, Amounts
    <2>4. Holds(work'[w], c) = 0 /\ PreOf(work'[w]) = 0
      BY <2>2 DEF Holds, PreOf, IsPre, IsLate, Nothing
    <2>5. Possible1(w, c)' <= Possible1(w, c) /\ Raw1(w, c)' <= Raw1(w, c)
      BY <2>1, <2>2, <2>3, <2>4, Amounts DEF Possible1, Raw1
    <2>6. work[w].task # "clean" /\ work'[w].task # "clean" BY <2>2, Amounts
    <2> QED BY <2>1, <2>2, <2>3, <2>5, <2>6, QuietBy
  <1>2. CASE ImportRead(w)
    <2> DEFINE m == NextMessage(cleaned)
               copy == IF m.kind = "batch" /\ m.chunk = c THEN 1 ELSE 0
    <2>1. /\ work[w].task = "import" /\ work[w].at = "read" /\ Unread(cleaned)
          /\ cleaned' = HandOut(cleaned) /\ queue' = queue
          /\ UNCHANGED <<parsed, contacts, doubled>>
      BY <1>2 DEF ImportRead, Does, books, faultVars
    <2>2. Cardinality(Copies(cleaned', c)) = Cardinality(Copies(cleaned, c)) - copy
      BY <1>s, <2>1, CountOf
    <2>3. work[w].todo = Nothing BY <2>1 DEF NoLeftover
    <2>4. \/ work' = work
          \/ /\ m.kind = "batch" /\ m.chunk \in Chunks
             /\ Moves(w, "read", work[w].todo, [work[w].made EXCEPT ![m.chunk] = @ + 1])
          \/ /\ m.kind = "batch" /\ m.chunk \in Chunks
             /\ Moves(w, "blocked", [work[w].todo EXCEPT ![m.chunk] = 1], work[w].made)
      BY <1>2, ReadMoves
    <2>5. copy \in {0, 1} OBVIOUS
    <2>6. /\ Others(w) /\ work'[w].task = "import"
          /\ Holds(work'[w], c) <= Holds(work[w], c) + copy /\ Holds(work'[w], c) \in Int
          /\ PreOf(work'[w]) = 0
      <3>0. Holds(work[w], c) = work[w].todo[c] + work[w].made[c]
            /\ work[w].todo[c] = 0
        BY <2>1, <2>3, Amounts DEF Holds, IsPre, IsLate, Nothing
      <3>1. CASE work' = work
        BY <2>1, <2>5, <3>1, Amounts DEF Others, PreOf, IsPre
      <3>2. CASE /\ m.kind = "batch" /\ m.chunk \in Chunks
                 /\ Moves(w, "read", work[w].todo, [work[w].made EXCEPT ![m.chunk] = @ + 1])
        <4>1. /\ work'[w].task = "import" /\ work'[w].at = "read" /\ Others(w)
              /\ work'[w].todo = work[w].todo
              /\ work'[w].made[c] = work[w].made[c] + copy
          BY <2>1, <3>2, Amounts DEF Moves
        <4>2. Holds(work'[w], c) = work'[w].todo[c] + work'[w].made[c]
              /\ PreOf(work'[w]) = 0
          BY <2>3, <2>5, <4>1, Amounts DEF Holds, PreOf, IsPre, IsLate, Nothing
        <4> HIDE DEF copy, m
        <4> QED BY <2>5, <3>0, <4>1, <4>2, Amounts
      <3>3. CASE /\ m.kind = "batch" /\ m.chunk \in Chunks
                 /\ Moves(w, "blocked", [work[w].todo EXCEPT ![m.chunk] = 1], work[w].made)
        <4>1. /\ work'[w].task = "import" /\ work'[w].at = "blocked" /\ Others(w)
              /\ work'[w].made = work[w].made
              /\ work'[w].todo[c] = copy
          BY <2>1, <2>3, <3>0, <3>3, Amounts DEF Moves
        <4>2. Holds(work'[w], c) = work'[w].todo[c] + work'[w].made[c]
              /\ PreOf(work'[w]) = 0
          BY <2>5, <4>1, Amounts DEF Holds, PreOf, IsPre, IsLate
        <4> HIDE DEF copy, m
        <4> QED BY <2>5, <3>0, <4>1, <4>2, Amounts
      <3> QED BY <2>4, <3>1, <3>2, <3>3
    <2> HIDE DEF copy
    <2>7. Possible1(w, c)' <= Possible1(w, c) /\ Raw1(w, c)' <= Raw1(w, c)
      BY <2>1, <2>2, <2>5, <2>6, Amounts DEF Possible1, Raw1
    <2> QED BY <2>1, <2>6, <2>7, QuietBy
  <1>3. CASE ImportCommit(w)
    <2>1. /\ work[w].task = "import" /\ work[w].at = "read" /\ queue' = queue
          /\ contacts' = [d \in Chunks |-> contacts[d] + work[w].made[d]]
          /\ UNCHANGED <<parsed, cleaned, doubled>>
      BY <1>3 DEF ImportCommit, Does, Outage, streams, faultVars
    <2>2. Moves(w, "mark", work[w].todo, Nothing)
      <3>1. work[w] \in WorkRec BY DEF WorkOK
      <3> QED BY <1>3, <3>1, ReadMoves
    <2>3. Holds(work[w], c) = Holds(work'[w], c) + work[w].made[c]
          /\ PreOf(work'[w]) = PreOf(work[w]) /\ Holds(work'[w], c) \in Int
      BY <2>1, <2>2, Amounts DEF Holds, PreOf, IsPre, IsLate, Moves, Nothing
    <2>4. contacts'[c] = contacts[c] + work[w].made[c] BY <2>1
    <2>5. Possible1(w, c)' <= Possible1(w, c) /\ Raw1(w, c)' <= Raw1(w, c)
      BY <2>1, <2>3, <2>4, Amounts DEF Possible1, Raw1
    <2>6. Others(w) /\ work[w].task # "clean" /\ work'[w].task # "clean"
      BY <2>1, <2>2 DEF Moves
    <2> QED BY <2>1, <2>5, <2>6, QuietBy
  <1>4. CASE ImportFails(w)
    <2>1. /\ work[w].task = "import" /\ queue' = queue /\ Ends(w)
          /\ UNCHANGED <<parsed, contacts, doubled>>
          /\ \/ cleaned' = cleaned
             \/ Unread(cleaned) /\ cleaned' = HandOut(cleaned)
      BY <1>4 DEF ImportFails, Does, books, faultVars
    <2>2. Cardinality(Copies(cleaned', c)) <= Cardinality(Copies(cleaned, c))
      <3>1. CASE cleaned' = cleaned BY <3>1, Amounts
      <3>2. CASE Unread(cleaned) /\ cleaned' = HandOut(cleaned)
        <4> DEFINE copy == IF NextMessage(cleaned).kind = "batch"
                               /\ NextMessage(cleaned).chunk = c THEN 1 ELSE 0
        <4>1. Cardinality(Copies(cleaned', c)) = Cardinality(Copies(cleaned, c)) - copy
          BY <1>s, <3>2, CountOf
        <4>2. copy \in {0, 1} OBVIOUS
        <4> HIDE DEF copy
        <4> QED BY <4>1, <4>2, Amounts
      <3> QED BY <2>1, <3>1, <3>2
    <2>3. Stops(w) /\ work[w].task # "clean" BY <2>1, MovesOf
    <2>4. \A t \in Tasks \ {"import"}: queue'[t] = queue[t] BY <2>1
    <2> QED BY <2>1, <2>2, <2>3, <2>4, LossBy
  <1>5. ASSUME NEW d \in Chunks, ImportWakes(w, d) PROVE Phase(c)'
    <2>1. /\ work[w].task = "import" /\ work[w].at = "blocked" /\ queue' = queue
          /\ work[w].todo[d] = 1 /\ UNCHANGED <<parsed, cleaned, contacts, doubled>>
      BY <1>5 DEF ImportWakes, Does, streams, books, faultVars
    <2>2. Moves(w, "read", Nothing, [work[w].made EXCEPT ![d] = @ + 1]) BY <1>5, ReadMoves
    <2>3. /\ work'[w].task = "import" /\ work'[w].at = "read" /\ Others(w)
          /\ work'[w].todo[c] = 0
          /\ work'[w].made[c] = work[w].made[c] + (IF c = d THEN 1 ELSE 0)
      BY <2>1, <2>2, Amounts DEF Moves, Nothing
    <2>4. /\ Holds(work'[w], c) = work'[w].todo[c] + work'[w].made[c]
          /\ Holds(work[w], c) = work[w].todo[c] + work[w].made[c]
          /\ PreOf(work'[w]) = 0
      BY <2>1, <2>3, Amounts DEF Holds, PreOf, IsPre, IsLate
    <2>5. Holds(work'[w], c) <= Holds(work[w], c) /\ Holds(work'[w], c) \in Int
      BY <2>1, <2>3, <2>4, Amounts
    <2>6. Possible1(w, c)' <= Possible1(w, c) /\ Raw1(w, c)' <= Raw1(w, c)
      BY <2>1, <2>4, <2>5, Amounts DEF Possible1, Raw1
    <2> QED BY <2>1, <2>3, <2>6, QuietBy
  <1> QED BY <1>1, <1>2, <1>3, <1>4, <1>5

\* The steps of clean keep the phase.
LEMMA CleanCopies ==
  ASSUME RestOK, WorkOK, RestOK', WorkOK', NEW c \in Chunks, Phase(c), NEW w \in Workers,
         \/ CleanStart(w) \/ CleanRead(w) \/ CleanDispatch(w) \/ CleanDone(w)
         \/ \E d \in Chunks: CleanOne(w, d)
  PROVE  Phase(c)'
  <1> DEFINE zero == 0
  <1>k. \A t \in {"process", "parse", "clean", "poll", "import"}: t \in Tasks BY DEF Tasks
  <1>n. doubled \in Nat /\ doubled' \in Nat BY NextNumbers
  <1>s. StreamOK(cleaned) /\ StreamOK(parsed) /\ work[w] \in WorkRec BY DEF RestOK, WorkOK
  <1>z. zero \in Int /\ zero = 0 OBVIOUS
  <1> HIDE DEF zero
  <1>1. CASE CleanStart(w)
    <2>1. Takes(w, "clean", "collect") /\ UNCHANGED <<parsed, cleaned, contacts, doubled>>
      BY <1>1 DEF CleanStart, streams, books, faultVars
    <2>2. /\ Others(w) /\ work[w] = Free /\ queue["clean"] > 0
          /\ queue' = [queue EXCEPT !["clean"] = @ - 1]
          /\ work'[w].task = "clean" /\ work'[w].at = "collect"
          /\ work'[w].todo = Nothing /\ work'[w].made = Nothing
      BY <1>k, <2>1, MovesOf DEF Stages
    <2>4. /\ queue'["poll"] = queue["poll"]
          /\ queue'["process"] = queue["process"] /\ queue'["parse"] = queue["parse"]
      BY <1>k, <2>2, Amounts
    <2>5. Holds(work'[w], c) = 0 /\ PreOf(work'[w]) = 0
      BY <2>2 DEF Holds, PreOf, IsPre, IsLate, Nothing
    <2>6. Possible1(w, c)' <= Possible1(w, c) + zero /\ Raw1(w, c)' <= Raw1(w, c) + zero
      BY <1>z, <2>1, <2>2, <2>4, <2>5, Amounts DEF Possible1, Raw1
    <2>7. ~NoCleaner BY <2>2 DEF NoCleaner
    <2>8. zero + zero <= 2 * (doubled' - doubled) BY <1>n, <1>z, <2>1
    <2> QED BY <1>z, <2>2, <2>6, <2>7, <2>8, CleanerBy
  <1>2. CASE CleanDone(w)
    <2>1. /\ work[w].task = "clean" /\ Ends(w) /\ Enqueue("import")
          /\ UNCHANGED <<parsed, cleaned, contacts, doubled>>
      BY <1>2 DEF CleanDone, Does, streams, books, faultVars
    <2>2. \A t \in Tasks \ {"import"}: queue'[t] = queue[t] BY <1>k, <2>1, Amounts DEF Enqueue
    <2>3. Cardinality(Copies(cleaned', c)) <= Cardinality(Copies(cleaned, c))
      BY <2>1, Amounts
    <2> QED BY <2>1, <2>2, <2>3, MovesOf, LossBy
  <1>3. CASE CleanRead(w)
    <2> DEFINE m == NextMessage(parsed)
               copy == IF m.kind = "batch" /\ m.chunk = c THEN 1 ELSE 0
    <2>1. /\ work[w].task = "clean" /\ work[w].at \in {"collect", "counted"}
          /\ Unread(parsed) /\ parsed' = HandOut(parsed) /\ queue' = queue
          /\ UNCHANGED <<contacts, doubled>>
      BY <1>3 DEF CleanRead, books, faultVars
    <2>2. Cardinality(Copies(parsed', c)) = Cardinality(Copies(parsed, c)) - copy
      BY <1>s, <2>1, CountOf
    <2>3. \/ /\ m.kind = "sentinel" /\ cleaned' = Write(cleaned, Sentinel)
             /\ Moves(w, "counted", work[w].todo, work[w].made)
          \/ /\ m.kind = "batch" /\ m.chunk \in Chunks /\ cleaned' = cleaned
             /\ Moves(w, work[w].at, [work[w].todo EXCEPT ![m.chunk] = @ + 1], work[w].made)
      BY <1>3, ReadMoves
    <2>4. copy \in {0, 1} OBVIOUS
    <2>5. Cardinality(Copies(cleaned', c)) = Cardinality(Copies(cleaned, c))
      <3>1. Cardinality(Copies(Write(cleaned, Sentinel), c)) = Cardinality(Copies(cleaned, c))
        BY <1>s, CountOf
      <3> QED BY <2>3, <3>1
    <2>6. /\ Others(w) /\ work'[w].task = "clean" /\ work'[w].at \in {"collect", "counted"}
          /\ work'[w].made = work[w].made /\ work'[w].todo[c] = work[w].todo[c] + copy
      BY <2>1, <2>3, Amounts DEF Moves
    <2>7. Holds(work'[w], c) = Holds(work[w], c) + copy
          /\ PreOf(work'[w]) = PreOf(work[w])
      <3> HIDE DEF copy, m
      <3> QED BY <2>1, <2>4, <2>6, Amounts DEF Holds, PreOf, IsPre, IsLate
    <2> DEFINE less == 0 - copy
    <2>8. copy \in Int /\ less \in Int /\ less = 0 - copy BY <2>4
    <2>9. copy + less <= 2 * (doubled' - doubled)
      <3> HIDE DEF copy, less
      <3> QED BY <1>n, <2>1, <2>8
    <2> HIDE DEF copy, m, less
    <2>10. Possible1(w, c)' <= Possible1(w, c) + copy /\ Raw1(w, c)' <= Raw1(w, c) + less
      BY <2>1, <2>2, <2>5, <2>7, <2>8, Amounts DEF Possible1, Raw1
    <2>11. ~NoCleaner BY <2>1 DEF NoCleaner
    <2> QED BY <2>6, <2>8, <2>9, <2>10, <2>11, CleanerBy
  <1>4. CASE CleanDispatch(w)
    <2>1. /\ work[w].task = "clean" /\ work[w].at \in {"collect", "counted"}
          /\ queue' = queue /\ Goes(w, "dispatch")
          /\ UNCHANGED <<parsed, cleaned, contacts, doubled>>
      BY <1>4 DEF CleanDispatch, Outage, streams, books, faultVars
    <2>2. Moves(w, "dispatch", work[w].todo, work[w].made) BY <2>1, MovesOf DEF Stages
    <2>3. Holds(work'[w], c) = Holds(work[w], c) /\ PreOf(work'[w]) = PreOf(work[w])
      BY <2>1, <2>2 DEF Holds, PreOf, IsPre, IsLate, Moves
    <2>4. Possible1(w, c)' <= Possible1(w, c) + zero /\ Raw1(w, c)' <= Raw1(w, c) + zero
      BY <1>z, <2>1, <2>3, Amounts DEF Possible1, Raw1
    <2>5. ~NoCleaner BY <2>1 DEF NoCleaner
    <2>6. zero + zero <= 2 * (doubled' - doubled) BY <1>n, <1>z, <2>1
    <2>7. Others(w) BY <2>2 DEF Moves
    <2> QED BY <1>z, <2>4, <2>5, <2>6, <2>7, CleanerBy
  <1>5. ASSUME NEW d \in Chunks, CleanOne(w, d) PROVE Phase(c)'
    <2> DEFINE copy == IF d = c THEN 1 ELSE 0
    <2>1. /\ work[w].task = "clean" /\ work[w].at = "dispatch" /\ work[w].todo[d] > 0
          /\ queue' = queue /\ UNCHANGED <<parsed, contacts>>
          /\ \/ cleaned' = Write(cleaned, Batch(d)) /\ doubled' = doubled
             \/ cleaned' = cleaned /\ doubled' = doubled
             \/ cleaned' = Write(cleaned, Batch(d) \o Batch(d)) /\ doubled' = doubled + 1
      BY <1>5 DEF CleanOne, Does, Outage, books, faultVars
    <2>2. Moves(w, "dispatch", [work[w].todo EXCEPT ![d] = @ - 1], work[w].made)
      BY <1>5, ReadMoves
    <2>3. /\ work'[w].todo[c] = work[w].todo[c] - copy /\ work'[w].made = work[w].made
          /\ copy \in {0, 1} /\ Others(w)
          /\ work'[w].task = "clean" /\ work'[w].at = "dispatch"
      BY <2>1, <2>2, Amounts DEF Moves
    <2> DEFINE more == doubled' - doubled
    <2>4. /\ Cardinality(Copies(cleaned', c)) <= Cardinality(Copies(cleaned, c)) + copy + more
          /\ more \in {0, 1} /\ doubled' = doubled + more
      <3>1. CASE cleaned' = Write(cleaned, Batch(d)) /\ doubled' = doubled
        <4>1. Cardinality(Copies(cleaned', c)) <= Cardinality(Copies(cleaned, c)) + copy
          BY <1>s, <3>1, Writes
        <4>2. more = 0 /\ doubled' = doubled + more BY <1>n, <3>1
        <4> HIDE DEF copy, more
        <4> QED BY <2>3, <4>1, <4>2, Amounts
      <3>2. CASE cleaned' = cleaned /\ doubled' = doubled
        <4>1. more = 0 /\ doubled' = doubled + more BY <1>n, <3>2
        <4> HIDE DEF copy, more
        <4> QED BY <2>3, <3>2, <4>1, Amounts
      <3>3. CASE cleaned' = Write(cleaned, Batch(d) \o Batch(d)) /\ doubled' = doubled + 1
        <4>1. Cardinality(Copies(cleaned', c))
                <= Cardinality(Copies(cleaned, c)) + (IF d = c THEN 2 ELSE 0)
          BY <1>s, <3>3, Writes
        <4>2. (IF d = c THEN 2 ELSE 0) <= copy + 1 OBVIOUS
        <4>3. more = 1 /\ doubled' = doubled + more BY <1>n, <3>3
        <4>4. (IF d = c THEN 2 ELSE 0) \in Int OBVIOUS
        <4> HIDE DEF copy, more
        <4> QED BY <2>3, <4>1, <4>2, <4>3, <4>4, Amounts
      <3> QED BY <2>1, <3>1, <3>2, <3>3
    <2>5. Holds(work'[w], c) = Holds(work[w], c) - copy /\ PreOf(work'[w]) = PreOf(work[w])
      <3> HIDE DEF copy
      <3> QED BY <2>1, <2>3, Amounts DEF Holds, PreOf, IsPre, IsLate
    <2>6. more \in Int /\ more + zero <= 2 * (doubled' - doubled)
      <3>1. more \in {0, 1} BY <2>4
      <3>2. more = doubled' - doubled OBVIOUS
      <3> HIDE DEF copy, more
      <3>3. more \in Int /\ more <= 2 * more BY <3>1
      <3>4. more + zero = more BY <1>z, <3>3
      <3> QED BY <3>2, <3>3, <3>4
    <2> HIDE DEF copy, more
    <2>7. Possible1(w, c)' <= Possible1(w, c) + more /\ Raw1(w, c)' <= Raw1(w, c) + zero
      BY <1>z, <2>1, <2>3, <2>4, <2>5, Amounts DEF Possible1, Raw1
    <2>8. ~NoCleaner BY <2>1 DEF NoCleaner
    <2> QED BY <1>z, <2>3, <2>6, <2>7, <2>8, CleanerBy
  <1> QED BY <1>1, <1>2, <1>3, <1>4, <1>5

\* A message that does not arrive is no copy any more.
LEMMA ReplyCopies ==
  ASSUME RestOK, WorkOK, RestOK', WorkOK', NEW c \in Chunks, Phase(c), NEW w \in Workers,
         ReplyLost(w)
  PROVE  Phase(c)'
  <1>1. UNCHANGED <<queue, work, contacts, doubled>> BY DEF ReplyLost, Outage, books
  <1>2. ASSUME NEW s, StreamOK(s), Unread(s)
        PROVE  /\ Cardinality(Copies(HandOut(s), c)) <= Cardinality(Copies(s, c))
               /\ Cardinality(Copies(HandOut(s), c)) \in Int
    <2> DEFINE copy == IF NextMessage(s).kind = "batch" /\ NextMessage(s).chunk = c THEN 1 ELSE 0
    <2>1. Cardinality(Copies(HandOut(s), c)) = Cardinality(Copies(s, c)) - copy
          /\ Cardinality(Copies(s, c)) \in Nat
      BY <1>2, CountOf
    <2>2. copy \in {0, 1} OBVIOUS
    <2> HIDE DEF copy
    <2> QED BY <2>1, <2>2
  <1>3. /\ Cardinality(Copies(parsed', c)) <= Cardinality(Copies(parsed, c))
        /\ Cardinality(Copies(cleaned', c)) <= Cardinality(Copies(cleaned, c))
    <2>1. StreamOK(parsed) /\ StreamOK(cleaned) BY DEF RestOK
    <2>2. /\ parsed' = parsed \/ (Unread(parsed) /\ parsed' = HandOut(parsed))
          /\ cleaned' = cleaned \/ (Unread(cleaned) /\ cleaned' = HandOut(cleaned))
      BY DEF ReplyLost
    <2> QED BY <1>2, <2>1, <2>2, Amounts
  <1>4. AllHold(c)' = AllHold(c) /\ AllPre' = AllPre BY <1>1 DEF AllHold, AllPre
  <1>5. Possible(c)' <= Possible(c) /\ Raw(c)' <= Raw(c)
    BY <1>1, <1>3, <1>4, Totals, Amounts DEF Possible, Raw
  <1>6. NoCleaner' <=> NoCleaner BY <1>1 DEF NoCleaner
  <1> QED BY <1>1, <1>5, <1>6, NextNumbers DEF Phase, Unasked, Asked

\* Every step keeps it so.
LEMMA LeftoverStep ==
  ASSUME RestOK, WorkOK, NoLeftover, [Next]_vars
  PROVE  NoLeftover'
  <1>f. Free.task = None /\ None \notin Tasks BY CsvPipelineAssumption DEF Free
  <1>k. \A t \in {"process", "parse", "clean", "poll", "import"}: t \in Tasks BY DEF Tasks
  <1>1. ASSUME work' = work PROVE NoLeftover' BY <1>1 DEF NoLeftover
  <1>2. ASSUME NEW w \in Workers, Others(w),
               work'[w].task = "import" /\ work'[w].at # "blocked" => work'[w].todo = Nothing
        PROVE  NoLeftover'
    BY <1>2 DEF NoLeftover, Others
  <1>3. ASSUME NEW w \in Workers, Stops(w) PROVE NoLeftover'
    BY <1>2, <1>3, <1>f, <1>k DEF Stops
  <1>4. ASSUME NEW w \in Workers, NEW a \in Stages, Goes(w, a), work[w].at # "blocked"
        PROVE  NoLeftover'
    <2>1. Moves(w, a, work[w].todo, work[w].made) BY <1>4, MovesOf
    <2>2. work[w].task = "import" => work[w].todo = Nothing BY <1>4 DEF NoLeftover
    <2> QED BY <1>2, <2>1, <2>2 DEF Moves
  <1>5. ASSUME NEW w \in Workers, NEW t \in Tasks, NEW a \in Stages, Takes(w, t, a)
        PROVE  NoLeftover'
    <2>1. Others(w) /\ work'[w].todo = Nothing BY <1>5, MovesOf
    <2> QED BY <1>2, <2>1
  <1>6. ASSUME NEW w \in Workers, NEW a, NEW todo, NEW made, Moves(w, a, todo, made),
               work[w].task # "import"
        PROVE  NoLeftover'
    BY <1>2, <1>6 DEF Moves
  <1>7. ASSUME NEW w \in Workers, Step(w) PROVE NoLeftover'
    <2>1. CASE Route(w) \/ ParseFails(w) BY <1>1, <2>1 DEF Route, ParseFails
    <2>2. CASE SingleStart(w) \/ ParseStart(w) \/ CleanStart(w) \/ ImportStart(w)
      <3>1. \E t \in Tasks, a \in Stages: Takes(w, t, a)
        BY <1>k, <2>2 DEF SingleStart, ParseStart, CleanStart, ImportStart, Stages
      <3> QED BY <1>5, <3>1
    <2>3. CASE Publish(w)
      <3>1. work[w].at = "publish"
            /\ Goes(w, IF work[w].task = "import" THEN "read" ELSE "write")
        BY <2>3 DEF Publish
      <3>2. \E a \in Stages: Goes(w, a) BY <3>1 DEF Stages
      <3> QED BY <1>4, <3>1, <3>2
    <2>4. CASE ParseWrite(w) \/ CleanDispatch(w) \/ PollWrites(w)
      <3>1. \E a \in Stages: Goes(w, a) /\ work[w].at # "blocked"
        BY <2>4 DEF ParseWrite, CleanDispatch, PollWrites, Does, Stages
      <3> QED BY <1>4, <3>1
    <2>11. CASE ImportCommit(w)
      <3>1. work[w].task = "import" /\ work[w].at = "read" BY <2>11 DEF ImportCommit, Does
      <3>2. work[w].todo = Nothing BY <3>1 DEF NoLeftover
      <3>3. work[w] \in WorkRec BY DEF WorkOK
      <3>4. Moves(w, "mark", work[w].todo, Nothing) BY <2>11, <3>3, ReadMoves
      <3> QED BY <1>2, <3>2, <3>4 DEF Moves
    <2>5. CASE \/ ParseRoute(w) \/ CleanDone(w) \/ PollDone(w) \/ PollFallsBack(w)
               \/ PollAgain(w) \/ ImportMark(w) \/ ImportFails(w)
      <3>1. Ends(w)
        BY <2>5 DEF ParseRoute, CleanDone, PollDone, PollFallsBack, PollAgain, ImportMark,
                    ImportFails
      <3> QED BY <1>3, <3>1, MovesOf
    <2>6. CASE PollStart(w)
      <3>1. CASE Takes(w, "poll", "answer")
        <4>1. "poll" \in Tasks /\ "answer" \in Stages BY <1>k DEF Stages
        <4> QED BY <1>5, <3>1, <4>1
      <3>2. CASE work' = work BY <1>1, <3>2
      <3> QED BY <2>6, <3>1, <3>2 DEF PollStart
    <2>7. CASE CleanRead(w)
      <3>1. work[w].task = "clean" BY <2>7 DEF CleanRead
      <3>2. \E a, todo, made: Moves(w, a, todo, made) BY <2>7, ReadMoves
      <3> QED BY <1>6, <3>1, <3>2
    <2>8. ASSUME NEW c \in Chunks, CleanOne(w, c) PROVE NoLeftover'
      <3>1. work[w].task = "clean" BY <2>8 DEF CleanOne, Does
      <3>2. Moves(w, "dispatch", [work[w].todo EXCEPT ![c] = @ - 1], work[w].made)
        BY <2>8, ReadMoves
      <3> QED BY <1>6, <3>1, <3>2
    <2>9. ASSUME NEW c \in Chunks, ImportWakes(w, c) PROVE NoLeftover'
      <3>1. Moves(w, "read", Nothing, [work[w].made EXCEPT ![c] = @ + 1]) BY <2>9, ReadMoves
      <3> QED BY <1>2, <3>1 DEF Moves
    <2>10. CASE ImportRead(w)
      <3>1. work[w].task = "import" /\ work[w].at = "read" BY <2>10 DEF ImportRead, Does
      <3>2. work[w].todo = Nothing BY <3>1 DEF NoLeftover
      <3>3. \/ work' = work
            \/ \E made: Moves(w, "read", work[w].todo, made)
            \/ \E todo, made: Moves(w, "blocked", todo, made)
        BY <2>10, ReadMoves
      <3>4. ASSUME NEW made, Moves(w, "read", work[w].todo, made) PROVE NoLeftover'
        BY <1>2, <3>2, <3>4 DEF Moves
      <3>5. ASSUME NEW todo, NEW made, Moves(w, "blocked", todo, made) PROVE NoLeftover'
        BY <1>2, <3>5 DEF Moves
      <3> QED BY <1>1, <3>3, <3>4, <3>5
    <2> QED BY <1>7, <2>1, <2>2, <2>3, <2>4, <2>5, <2>6, <2>7, <2>8, <2>9, <2>10, <2>11
            DEF Step
  <1>10. ASSUME NEW w \in Workers, ReplyLost(w) PROVE NoLeftover'
    BY <1>1, <1>10 DEF ReplyLost
  <1>8. ASSUME NEW w \in Workers, Crash(w) \/ TimeLimit(w) PROVE NoLeftover'
    <2>1. Ends(w) BY <1>8 DEF Crash, TimeLimit
    <2> QED BY <1>3, <2>1, MovesOf
  <1>9. CASE WatchdogRead \/ StatusPollRead \/ FailStale \/ UNCHANGED vars
    BY <1>1, <1>9 DEF WatchdogRead, StatusPollRead, FailStale, vars
  <1> QED BY <1>7, <1>8, <1>9, <1>10 DEF Next

\* A worker that dies, or is stopped, keeps the phase.
LEMMA DeadCopies ==
  ASSUME RestOK, WorkOK, RestOK', WorkOK', NEW c \in Chunks, Phase(c), NEW w \in Workers,
         Crash(w) \/ TimeLimit(w)
  PROVE  Phase(c)'
  <1>k. \A t \in {"process", "parse", "clean", "poll", "import"}: t \in Tasks BY DEF Tasks
  <1>f. Free.task = None /\ Free.at = None /\ None \notin Tasks \cup Stages
    BY CsvPipelineAssumption DEF Free
  <1>1. Stops(w) /\ UNCHANGED <<parsed, cleaned, contacts>>
        /\ Others(w) /\ work'[w] = Free /\ work[w] # Free
    <2>1. Ends(w) /\ UNCHANGED <<parsed, cleaned, contacts>> /\ work[w] # Free
      BY DEF Crash, TimeLimit, streams, books
    <2> QED BY <2>1, MovesOf DEF Stops
  <1>2. AtOK(work[w]) BY DEF WorkOK, Kinds
  <1>3. Cardinality(Copies(cleaned', c)) <= Cardinality(Copies(cleaned, c)) BY <1>1, Amounts
  <1>4. CASE (\A t \in Tasks \ {"import"}: queue'[t] = queue[t]) /\ doubled' = doubled
    BY <1>1, <1>3, <1>4, LossBy
  <1>5. CASE TimeLimit(w)
    <2>1. queue' = queue /\ doubled' = doubled BY <1>5 DEF TimeLimit, faultVars
    <2> QED BY <1>4, <2>1
  <1>6. CASE Crash(w)
    <2>1. /\ IF work[w].task \in AcksLate THEN Enqueue(work[w].task) ELSE UNCHANGED queue
          /\ doubled' = doubled + (IF Does(w, "poll", "written") THEN 1 ELSE 0)
      BY <1>6 DEF Crash
    <2>2. CASE work[w].task \notin {"process", "poll"}
      <3>1. doubled' = doubled
        <4>1. doubled' = doubled + 0 BY <2>1, <2>2 DEF Does
        <4> QED BY <4>1, Amounts
      <3>2. \A t \in Tasks \ {"import"}: queue'[t] = queue[t]
        BY <1>k, <2>1, <2>2, Amounts DEF Enqueue, AcksLate
      <3> QED BY <1>4, <3>1, <3>2
    <2>3. CASE work[w].task = "process"
      <3>1. Enqueue("process") BY <2>1, <2>3 DEF AcksLate
      <3>2. doubled' = doubled
        <4>1. doubled' = doubled + 0 BY <2>1, <2>3 DEF Does
        <4> QED BY <4>1, Amounts
      <3>3. queue'["clean"] = queue["clean"] /\ queue'["process"] = queue["process"] + 1
            /\ queue'["poll"] = queue["poll"] /\ queue'["parse"] = queue["parse"]
        BY <1>k, <3>1, Amounts DEF Enqueue
      <3>4. Holds(work[w], c) >= 1 /\ PreOf(work[w]) = 1
        BY <2>3, Amounts DEF Holds, PreOf, IsPre
      <3>5. Possible1(w, c)' <= Possible1(w, c) /\ Raw1(w, c)' <= Raw1(w, c)
        BY <1>1, <3>3, <3>4, Amounts DEF Possible1, Raw1
      <3>6. work[w].task # "clean" /\ work'[w].task # "clean" BY <1>1, <2>3, Amounts
      <3> QED BY <1>1, <3>2, <3>3, <3>5, <3>6, QuietBy
    <2>4. CASE work[w].task = "poll"
      <3>1. Enqueue("poll") BY <2>1, <2>4 DEF AcksLate
      <3>2. queue'["clean"] = queue["clean"] /\ queue'["poll"] = queue["poll"] + 1
            /\ queue'["process"] = queue["process"] /\ queue'["parse"] = queue["parse"]
        BY <1>k, <3>1, Amounts DEF Enqueue
      <3>3. work[w].task # "clean" /\ work'[w].task # "clean" BY <1>1, <2>4, Amounts
      <3>4. CASE work[w].at = "answer"
        <4>1. doubled' = doubled
          <5>1. doubled' = doubled + 0 BY <2>1, <3>4 DEF Does
          <5> QED BY <5>1, Amounts
        <4>2. Holds(work[w], c) >= 1 BY <2>4, <3>4, Amounts DEF Holds, IsLate
        <4>3. Possible1(w, c)' <= Possible1(w, c) /\ Raw1(w, c)' <= Raw1(w, c)
          BY <1>1, <3>2, <4>2, Amounts DEF Possible1, Raw1
        <4> QED BY <1>1, <3>2, <3>3, <4>1, <4>3, QuietBy
      <3>5. CASE work[w].at = "written"
        <4>1. doubled' = doubled + 1 BY <2>1, <2>4, <3>5 DEF Does
        <4>2. Possible1(w, c)' <= Possible1(w, c) + 1 /\ Raw1(w, c)' <= Raw1(w, c) + 1
          BY <1>1, <3>2, Amounts DEF Possible1, Raw1
        <4> QED BY <1>1, <3>2, <3>3, <4>1, <4>2, QuietBy
      <3>6. work[w].at \in {"answer", "written"} BY <1>1, <1>2, <2>4 DEF AtOK
      <3> QED BY <3>4, <3>5, <3>6
    <2> QED BY <2>2, <2>3, <2>4
  <1> QED BY <1>5, <1>6

\* Every step keeps the phase.
LEMMA CopiesStep ==
  ASSUME RestOK, WorkOK, RestOK', WorkOK', NoLeftover, CopiesInv, [Next]_vars
  PROVE  CopiesInv'
  <1> SUFFICES ASSUME NEW c \in Chunks PROVE Phase(c)' BY DEF CopiesInv
  <1>0. Phase(c) BY DEF CopiesInv
  <1>1. ASSUME NEW w \in Workers, Step(w) PROVE Phase(c)'
    BY <1>0, <1>1, ParseCopies, CleanCopies, PollCopies, ImportCopies, MarkPhase DEF Step
  <1>2. ASSUME NEW w \in Workers, Crash(w) \/ TimeLimit(w) PROVE Phase(c)'
    BY <1>0, <1>2, DeadCopies
  <1>4. ASSUME NEW w \in Workers, ReplyLost(w) PROVE Phase(c)'
    BY <1>0, <1>4, ReplyCopies
  <1>3. CASE WatchdogRead \/ StatusPollRead \/ FailStale \/ UNCHANGED vars
    <2>1. UNCHANGED <<queue, work, parsed, cleaned, contacts, doubled>>
      BY <1>3 DEF WatchdogRead, StatusPollRead, FailStale, vars, streams, books, faultVars
    <2>2. Possible(c)' = Possible(c) /\ Raw(c)' = Raw(c) /\ (NoCleaner' <=> NoCleaner)
      BY <2>1 DEF Possible, Raw, AllHold, AllPre, NoCleaner
    <2> QED BY <1>0, <2>1, <2>2 DEF Phase, Unasked, Asked
  <1> QED BY <1>1, <1>2, <1>3, <1>4 DEF Next

\* Before the first cleaning, one copy can still come of the one message.
LEMMA CopiesInitial == Init => CopiesInv /\ NoLeftover
  <1> SUFFICES ASSUME Init PROVE CopiesInv /\ NoLeftover OBVIOUS
  <1>1. /\ queue = [t \in Tasks |-> IF t = "process" THEN 1 ELSE 0]
        /\ work = [w \in Workers |-> Free]
        /\ parsed = NewStream /\ cleaned = NewStream /\ contacts = Nothing /\ doubled = 0
    BY DEF Init
  <1>2. RestOK /\ WorkOK BY TypeInitial
  <1>3. Free.task = None /\ None \notin Tasks BY CsvPipelineAssumption DEF Free
  <1>4. \A w \in Workers: work[w].task \notin Tasks BY <1>1, <1>3
  <1>5. NoCleaner BY <1>1, <1>4 DEF NoCleaner, Tasks
  <1>6. NoLeftover BY <1>4 DEF NoLeftover, Tasks
  <1>9. ASSUME NEW f, \A w \in Workers: f[w] = 0 PROVE SumFunctionOnSet(f, Workers) = 0
    <2>1. \A w \in Workers: f[w] \in {0, 1} BY <1>9
    <2>2. {w \in Workers: f[w] = 1} = {} BY <1>9
    <2> QED BY <2>1, <2>2, CsvPipelineAssumption, SumCounts, FS_EmptySet
  <1>10. ASSUME NEW c \in Chunks PROVE Unasked(c)
    <2>1. Holds(Free, c) = 0 /\ PreOf(Free) = 0
      <3>1. Free \in WorkRec BY Blank
      <3> QED BY <3>1, Weights
    <2>2. AllHold(c) = 0
      <3> DEFINE f == [w \in Workers |-> Holds(work[w], c)]
      <3>1. \A w \in Workers: f[w] = 0 BY <1>1, <2>1
      <3> HIDE DEF f
      <3>2. SumFunctionOnSet(f, Workers) = 0 BY <1>9, <3>1
      <3> QED BY <3>2 DEF AllHold, f
    <2>3. AllPre = 0
      <3> DEFINE f == [w \in Workers |-> PreOf(work[w])]
      <3>1. \A w \in Workers: f[w] = 0 BY <1>1, <2>1
      <3> HIDE DEF f
      <3>2. SumFunctionOnSet(f, Workers) = 0 BY <1>9, <3>1
      <3> QED BY <3>2 DEF AllPre, f
    <2>4. Cardinality(Copies(NewStream, c)) = 0 BY <1>2, CountOf DEF RestOK
    <2>5. contacts[c] = 0 /\ queue["process"] = 1 /\ queue["parse"] = 0 /\ queue["poll"] = 0
      BY <1>1 DEF Nothing, Tasks
    <2>6. Possible(c) = 1 /\ Raw(c) = 1 BY <1>1, <2>2, <2>3, <2>4, <2>5 DEF Possible, Raw
    <2>7. Possible(c) <= 1 + doubled /\ Raw(c) <= 1 + doubled BY <1>1, <2>6
    <2> QED BY <1>5, <2>7 DEF Unasked
  <1> QED BY <1>6, <1>10 DEF CopiesInv, Phase

\* However often messages come again, a chunk is in the address book once; and twice more
\* at most for each hand-over that was itself repeated (ContactsOnce).
THEOREM AddedAtMost == Spec => []ContactsOnce
  <1> DEFINE CInv == CopiesInv /\ NoLeftover
  <1>1. Init => CInv BY CopiesInitial
  <1>2. PipeInv /\ PipeInv' /\ CInv /\ [Next]_vars => CInv'
    BY CopiesStep, LeftoverStep DEF PipeInv
  <1>3. PipeInv /\ CInv => ContactsOnce
    <2> SUFFICES ASSUME PipeInv, CInv, NEW c \in Chunks
                 PROVE  contacts[c] <= 1 + 2 * doubled
      BY DEF ContactsOnce
    <2>0. RestOK /\ WorkOK BY DEF PipeInv
    <2>1. Possible(c) \in Nat /\ Raw(c) \in Nat /\ doubled \in Nat BY <2>0, PhaseNumbers
    <2>2. contacts[c] <= Possible(c) /\ contacts[c] \in Nat BY <2>0, Totals DEF RestOK
    <2>3. Possible(c) <= 1 + 2 * doubled
      BY <2>1 DEF CopiesInv, Phase, Unasked, Asked
    <2> QED BY <2>1, <2>2, <2>3
  <1> HIDE DEF CInv
  <1> QED BY <1>1, <1>2, <1>3, PipeInductive, PTL DEF Spec
=============================================================================
