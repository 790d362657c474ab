----------------------------- MODULE CsvPipeline -----------------------------
(***************************************************************************)
(* One CSV upload, from the row that upload_csv commits to the imported    *)
(* contacts: the Celery tasks of app/tasks/csv_pipeline.py (parse, clean,  *)
(* import, poll) over two Redis streams, the single task of                *)
(* app/tasks/csv_processing.py up to its first progress update, and the    *)
(* two places that fail an upload that takes too long.                     *)
(*                                                                         *)
(* A task is a message in a queue.  process, import and poll acknowledge   *)
(* it late, so a worker that dies gives it back; parse and clean lose it.  *)
(* A consumer group hands each message of a stream to one reader, once:    *)
(* the readers ask for ">", so what a dead reader had taken is not read    *)
(* again, acknowledged or not.                                             *)
(***************************************************************************)
EXTENDS Integers, Sequences, FiniteSets, Functions

CONSTANTS
    Chunks,           \* chunks the file is cut into
    Workers,          \* Celery worker processes
    Modes,            \* "single", "stream" or "batch": how the upload is processed
    None,             \* NULL
    MaxFaults         \* bound: dead workers, failed chunk updates, failures of Redis

Tasks == {"process", "parse", "clean", "import", "poll"}
Stages == {"publish", "write", "route", "collect", "counted", "dispatch", "answer",
           "written", "read", "blocked", "mark"}   \* how far a worker is in its task

ASSUME CsvPipelineAssumption ==
    /\ IsFiniteSet(Chunks) /\ IsFiniteSet(Workers)
    /\ Modes \subseteq {"single", "stream", "batch"}
    /\ None \notin Chunks \cup Workers \cup Tasks \cup Stages
    /\ MaxFaults \in Nat

AcksLate == {"process", "import", "poll"}
Active == {"queued", "processing"}
\* How a chunk gets lost: the batch job answered it with an error, a reader gave up
\* before it came to it, the answer of Redis never came, Redis refused its cleaned form,
\* its import died.
Losses == {"batch", "not cleaned", "not imported", "no answer", "refused", "died"}
Message == [kind: {"batch", "empty"}, chunk: Chunks] \cup [kind: {"sentinel"}]
Nothing == [c \in Chunks |-> 0]
Count(bag) == SumFunction(bag)

VARIABLES
    mode,        \* how this upload is processed (settings and size)
    row,         \* csv_uploads: [status, done (completed_at is set), job]
    lock,        \* worker whose open session has updated the row, or None
    queue,       \* messages waiting for a worker, by task
    work,        \* what each worker runs and has read
    parsed,      \* the parsed stream, and how many messages were handed out
    cleaned,     \* the cleaned stream, likewise
    originals,   \* the raw chunks are in Redis, for the batch's results
    lost,        \* history: the chunks that were lost on the way, and how
    contacts,    \* committed copies of each chunk's contacts
    awarded,     \* upload awards committed
    stale,       \* a watchdog or a status poll has read the row as overdue
    faults,
    doubled      \* faults that leave something handed over twice

streams == <<parsed, cleaned>>
books == <<contacts, awarded>>
faultVars == <<faults, doubled>>
vars == <<mode, row, lock, queue, work, streams, originals, lost, books, stale,
          faultVars>>

Free == [task |-> None, at |-> None, todo |-> Nothing, n |-> 0, made |-> Nothing]
Does(w, task, at) == work[w].task = task /\ work[w].at = at
Goes(w, at) == work' = [work EXCEPT ![w].at = at]
Ends(w) == work' = [work EXCEPT ![w] = Free]
\* Workers are alike: the first free one takes the next message of a task.
Takes(w, task, at) ==
    /\ work[w] = Free /\ w = CHOOSE v \in Workers: work[v] = Free
    /\ queue[task] > 0
    /\ work' = [work EXCEPT ![w] = [Free EXCEPT !.task = task, !.at = at]]
    /\ queue' = [queue EXCEPT ![task] = @ - 1]
Enqueue(task) == queue' = [queue EXCEPT ![task] = @ + 1]

NewStream == [msgs |-> <<>>, read |-> 0]
Unread(s) == s.read < Len(s.msgs)
Copies(s, c) == {i \in s.read + 1 .. Len(s.msgs):
                    s.msgs[i].kind = "batch" /\ s.msgs[i].chunk = c}
LeftIn(s) == {c \in Chunks: Copies(s, c) # {}}
ChunkOf(m) == {c \in Chunks: m = [kind |-> "batch", chunk |-> c]}
Lose(chunks, how) == lost' = lost \cup (chunks \X {how})
Outage == faults < MaxFaults /\ faults' = faults + 1 /\ UNCHANGED doubled
NextMessage(s) == s.msgs[s.read + 1]
HandOut(s) == [s EXCEPT !.read = @ + 1]
Write(s, msgs) == [s EXCEPT !.msgs = @ \o msgs]
Sentinel == <<[kind |-> "sentinel"]>>
Batch(c) == <<[kind |-> "batch", chunk |-> c]>>
Ordered == CHOOSE s \in [1 .. Cardinality(Chunks) -> Chunks]: IsInjective(s)
Batches == [i \in DOMAIN Ordered |-> [kind |-> "batch", chunk |-> Ordered[i]]]
-----------------------------------------------------------------------------
\* upload_csv has committed the row and sent the task.
Init ==
    /\ mode \in Modes
    /\ row = [status |-> "queued", done |-> FALSE, job |-> FALSE]
    /\ lock = None
    /\ queue = [t \in Tasks |-> IF t = "process" THEN 1 ELSE 0]
    /\ work = [w \in Workers |-> Free]
    /\ parsed = NewStream /\ cleaned = NewStream
    /\ originals = FALSE /\ lost = {}
    /\ contacts = Nothing /\ awarded = 0
    /\ stale = FALSE
    /\ faults = 0 /\ doubled = 0

-------------------------------------------- (* process_csv_upload, both paths *)
\* The task hands the file on to the pipeline; a worker that dies before its message
\* is acknowledged leaves the message behind.
Route(w) ==
    /\ mode # "single"
    /\ work[w] = Free /\ queue["process"] > 0
    /\ \/ /\ queue' = [queue EXCEPT !["process"] = @ - 1, !["parse"] = @ + 1]
          /\ UNCHANGED faultVars
       \/ /\ faults < MaxFaults
          /\ queue' = [queue EXCEPT !["parse"] = @ + 1]
          /\ faults' = faults + 1 /\ doubled' = doubled + 1
    /\ UNCHANGED <<mode, row, lock, work, streams, originals, lost, books, stale>>

\* process_csv_upload_core: the task's own session updates the row and flushes; the
\* progress update that follows opens another session.
SingleStart(w) ==
    /\ mode = "single"
    /\ lock = None /\ Takes(w, "process", "publish")
    /\ lock' = w
    /\ UNCHANGED <<mode, row, streams, originals, lost, books, stale, faultVars>>

\* _publish_progress and _update_upload: the row is read and updated in a session of
\* its own, which waits while another one has the row.
Publish(w) ==
    /\ work[w].at = "publish"
    /\ lock = None
    /\ row' = IF work[w].task = "import" THEN row ELSE [row EXCEPT !.status = "processing"]
    /\ Goes(w, IF work[w].task = "import" THEN "read" ELSE "write")
    /\ UNCHANGED <<mode, lock, queue, streams, originals, lost, books, stale, faultVars>>

-------------------------------------------------------------------- (* parse *)
ParseStart(w) ==
    /\ Takes(w, "parse", "publish")
    /\ UNCHANGED <<mode, row, lock, streams, originals, lost, books, stale, faultVars>>

\* The file does not parse.
ParseFails(w) ==
    /\ work[w] = Free /\ queue["parse"] > 0 /\ lock = None
    /\ queue' = [queue EXCEPT !["parse"] = @ - 1]
    /\ row' = [row EXCEPT !.status = "failed", !.done = TRUE]
    /\ UNCHANGED <<mode, lock, work, streams, originals, lost, books, stale, faultVars>>

ParseWrite(w) ==
    /\ Does(w, "parse", "write")
    /\ parsed' = Write(parsed, Batches \o Sentinel)
    /\ Goes(w, "route")
    /\ UNCHANGED <<mode, row, lock, queue, cleaned, originals, lost, books, stale,
                   faultVars>>

\* _submit_batch_mode stores the raw chunks (or fails to) and schedules the first poll;
\* when the job or the poll cannot be had, the chunks are cleaned one by one.
ParseRouteBoth(w) ==
    /\ Does(w, "parse", "route")
    /\ \/ mode = "stream" /\ Enqueue("clean") /\ UNCHANGED <<row, originals>>
       \/ /\ mode = "batch"
          /\ originals' \in BOOLEAN
          /\ row' = [row EXCEPT !.job = TRUE]
          /\ queue' = [queue EXCEPT !["poll"] = @ + 1, !["clean"] = @ + 1]
    /\ Ends(w)
    /\ UNCHANGED <<mode, lock, streams, lost, books, stale, faultVars>>
ParseRoute(w) ==
    /\ Does(w, "parse", "route")
    /\ \/ Enqueue("clean") /\ UNCHANGED <<row, originals>>
       \/ /\ mode = "batch"
          /\ originals' \in BOOLEAN
          /\ row' = [row EXCEPT !.job = TRUE]
          /\ Enqueue("poll")
    /\ Ends(w)
    /\ UNCHANGED <<mode, lock, streams, lost, books, stale, faultVars>>

-------------------------------------------------------------------- (* clean *)
CleanStart(w) ==
    /\ Takes(w, "clean", "collect")
    /\ UNCHANGED <<mode, row, lock, streams, originals, lost, books, stale, faultVars>>

\* A sentinel tells how many chunks there are and is passed on at once.
Enough(w) == work[w].at = "counted" /\ work[w].n >= Cardinality(Chunks)
CleanRead(w) ==
    /\ work[w].task = "clean" /\ work[w].at \in {"collect", "counted"} /\ ~Enough(w)
    /\ Unread(parsed)
    /\ parsed' = HandOut(parsed)
    /\ LET m == NextMessage(parsed) IN
        \/ /\ m.kind = "sentinel"
           /\ cleaned' = Write(cleaned, Sentinel)
           /\ Goes(w, "counted")
        \/ /\ m.kind = "batch"
           /\ work' = [work EXCEPT ![w].todo[m.chunk] = @ + 1, ![w].n = @ + 1]
           /\ UNCHANGED cleaned
    /\ UNCHANGED <<mode, row, lock, queue, originals, lost, books, stale, faultVars>>

\* All chunks are there, or sixty reads came back empty: after five minutes, or at once,
\* for stream_read_group answers [] when Redis fails, whatever is still unread.
CleanDispatch(w) ==
    /\ work[w].task = "clean" /\ work[w].at \in {"collect", "counted"}
    /\ Lose(LeftIn(parsed), "not cleaned")
    /\ IF Enough(w) \/ ~Unread(parsed) THEN UNCHANGED faultVars ELSE Outage
    /\ Goes(w, "dispatch")
    /\ UNCHANGED <<mode, row, lock, queue, streams, originals, books, stale>>

\* _clean_one, in any order.  A chunk the providers fail on is written by the fallback;
\* so is one that was written already when its status cannot be updated.  The fallback's
\* own write may be refused, which gather swallows.
CleanOneNoFallback(w, c) ==
    /\ Does(w, "clean", "dispatch") /\ work[w].todo[c] > 0
    /\ \/ cleaned' = Write(cleaned, Batch(c))
       \/ UNCHANGED cleaned
    /\ work' = [work EXCEPT ![w].todo[c] = @ - 1]
    /\ UNCHANGED <<mode, row, lock, queue, parsed, originals, lost, books, stale,
                   faultVars>>
CleanOne(w, c) ==
    /\ Does(w, "clean", "dispatch") /\ work[w].todo[c] > 0
    /\ \/ /\ cleaned' = Write(cleaned, Batch(c))
          /\ UNCHANGED <<lost, faultVars>>
       \/ /\ Outage
          /\ Lose({c}, "refused")
          /\ UNCHANGED cleaned
       \/ /\ faults < MaxFaults
          /\ cleaned' = Write(cleaned, Batch(c) \o Batch(c))
          /\ faults' = faults + 1 /\ doubled' = doubled + 1
          /\ UNCHANGED lost
    /\ work' = [work EXCEPT ![w].todo[c] = @ - 1]
    /\ UNCHANGED <<mode, row, lock, queue, parsed, originals, books, stale>>

\* gather has seen the end of every _clean_one, whatever became of its chunk.
CleanDone(w) ==
    /\ Does(w, "clean", "dispatch") /\ work[w].todo = Nothing
    /\ Enqueue("import")
    /\ Ends(w)
    /\ UNCHANGED <<mode, row, lock, streams, originals, lost, books, stale, faultVars>>

--------------------------------------------------------------------- (* poll *)
\* A poll that finds no job name on the row is over.
PollStart(w) ==
    /\ \/ row.job /\ Takes(w, "poll", "answer")
       \/ ~row.job /\ queue["poll"] > 0 /\ work[w] = Free
                   /\ queue' = [queue EXCEPT !["poll"] = @ - 1] /\ UNCHANGED work
    /\ UNCHANGED <<mode, row, lock, streams, originals, lost, books, stale, faultVars>>

\* The job succeeded: its results go to the cleaned stream, a chunk it answered with
\* an error as an empty batch.
PollWrites(w) ==
    /\ Does(w, "poll", "answer") /\ originals
    /\ \E bad \in SUBSET Chunks:
        /\ Lose(bad, "batch")
        /\ cleaned' = Write(cleaned,
             [i \in DOMAIN Ordered |->
                [kind |-> IF Ordered[i] \in bad THEN "empty" ELSE "batch",
                 chunk |-> Ordered[i]]] \o Sentinel)
    /\ Goes(w, "written")
    /\ UNCHANGED <<mode, row, lock, queue, parsed, originals, books, stale, faultVars>>

PollDone(w) ==
    /\ Does(w, "poll", "written")
    /\ originals' = FALSE
    /\ Enqueue("import")
    /\ Ends(w)
    /\ UNCHANGED <<mode, row, lock, streams, lost, books, stale, faultVars>>

\* The job failed, or the polls are used up, or the raw chunks are lost.
PollFallsBack(w) ==
    /\ Does(w, "poll", "answer")
    /\ row' = [row EXCEPT !.job = FALSE]
    /\ Enqueue("clean")
    /\ Ends(w)
    /\ UNCHANGED <<mode, lock, streams, originals, lost, books, stale, faultVars>>

PollAgain(w) ==
    /\ Does(w, "poll", "answer")
    /\ Enqueue("poll")
    /\ Ends(w)
    /\ UNCHANGED <<mode, row, lock, streams, originals, lost, books, stale, faultVars>>

\* Redis has handed a message out, and its answer does not arrive: an empty read.
ReplyLost(w) ==
    /\ Outage
    /\ \/ /\ work[w].task = "clean" /\ work[w].at \in {"collect", "counted"} /\ ~Enough(w)
          /\ Unread(parsed) /\ parsed' = HandOut(parsed)
          /\ Lose(ChunkOf(NextMessage(parsed)), "no answer")
          /\ UNCHANGED cleaned
       \/ /\ Does(w, "import", "read")
          /\ Unread(cleaned) /\ cleaned' = HandOut(cleaned)
          /\ Lose(ChunkOf(NextMessage(cleaned)), "no answer")
          /\ UNCHANGED parsed
    /\ UNCHANGED <<mode, row, lock, queue, work, originals, books, stale>>

------------------------------------------------------------------- (* import *)
ImportStart(w) ==
    /\ Takes(w, "import", "publish")
    /\ UNCHANGED <<mode, row, lock, streams, originals, lost, books, stale, faultVars>>

\* A person is in the address book once per fingerprint (idx_contacts_dedup), and the
\* cleaners need not give a second copy of a chunk the fingerprints of the first.  With
\* others it is added; with those of committed contacts it adds nobody; with those of
\* another session it waits for its end; and the rows of this session do not count as
\* known, for a contact gets its id when it is flushed: the index refuses the copy.
Rivals(w, c) == {v \in Workers \ {w}: work[v].made[c] > 0}
ImportRead(w) ==
    /\ Does(w, "import", "read") /\ Unread(cleaned)
    /\ cleaned' = HandOut(cleaned)
    /\ LET m == NextMessage(cleaned) IN
        \/ /\ m.kind = "batch" => contacts[m.chunk] > 0
           /\ UNCHANGED work
        \/ /\ m.kind = "batch"
           /\ work' = [work EXCEPT ![w].made[m.chunk] = @ + 1]
        \/ /\ m.kind = "batch" /\ Rivals(w, m.chunk) # {}
           /\ work' = [work EXCEPT ![w].at = "blocked", ![w].todo[m.chunk] = 1]
    /\ UNCHANGED <<mode, row, lock, queue, parsed, originals, lost, books, stale,
                   faultVars>>

\* The other session was rolled back, and the copy is the first after all.
ImportWakes(w, c) ==
    /\ Does(w, "import", "blocked") /\ work[w].todo[c] = 1
    /\ Rivals(w, c) = {} /\ contacts[c] = 0
    /\ work' = [work EXCEPT ![w].at = "read", ![w].todo = Nothing, ![w].made[c] = @ + 1]
    /\ UNCHANGED <<mode, row, lock, queue, streams, originals, lost, books, stale,
                   faultVars>>

\* The reading ends when all chunks are counted or with sixty empty reads, as in cleaning.
\* Contacts and award are one transaction; a daily cap that withholds it is left out.
PaidAlways(w) == 1
Paid(w) == IF Count(work[w].made) > 0 THEN 1 ELSE 0
ImportCommit(w) ==
    /\ Does(w, "import", "read")
    /\ Lose(LeftIn(cleaned), "not imported")
    /\ IF Unread(cleaned) THEN Outage ELSE UNCHANGED faultVars
    /\ contacts' = [c \in Chunks |-> contacts[c] + work[w].made[c]]
    /\ awarded' = awarded + Paid(w)
    /\ work' = [work EXCEPT ![w].at = "mark", ![w].made = Nothing]
    /\ UNCHANGED <<mode, row, lock, queue, streams, originals, stale>>

ImportMark(w) ==
    /\ Does(w, "import", "mark") /\ lock = None
    /\ row' = [row EXCEPT !.status = "completed", !.done = TRUE]
    /\ parsed' = NewStream /\ cleaned' = NewStream
    /\ Ends(w)
    /\ UNCHANGED <<mode, lock, queue, originals, lost, books, stale, faultVars>>

\* An exception, with a message in hand or not: the unique index is one that raises.  The
\* handler does not ask whether the import was committed.
ImportFails(w) ==
    /\ \/ Does(w, "import", "read") \/ Does(w, "import", "mark")
       \/ Does(w, "import", "blocked")
          /\ \E c \in Chunks: work[w].todo[c] = 1 /\ Rivals(w, c) = {}
    /\ lock = None
    /\ row' = [row EXCEPT !.status = "failed", !.done = TRUE]
    /\ \/ UNCHANGED cleaned
       \/ Does(w, "import", "read") /\ Unread(cleaned) /\ cleaned' = HandOut(cleaned)
    /\ Ends(w)
    /\ UNCHANGED <<mode, lock, queue, parsed, originals, lost, books, stale, faultVars>>

--------------------------------------------------- (* dead and overdue workers *)
KeptLocked(w) == UNCHANGED lock
Released(w) == lock' = IF lock = w THEN None ELSE lock

\* What an import has taken from the stream and not committed.
Taken(w) == {c \in Chunks: work[w].task = "import" /\ work[w].made[c] + work[w].todo[c] > 0}
Crash(w) ==
    /\ work[w] # Free /\ faults < MaxFaults
    /\ IF work[w].task \in AcksLate THEN Enqueue(work[w].task) ELSE UNCHANGED queue
    /\ faults' = faults + 1
    /\ doubled' = doubled + (IF Does(w, "poll", "written") THEN 1 ELSE 0)
    /\ Lose(Taken(w), "died")
    /\ Ends(w) /\ Released(w)
    /\ UNCHANGED <<mode, row, streams, originals, books, stale>>

\* The time limit ends a task from outside its coroutine, whose handlers do not run;
\* the message is acknowledged.  A progress update is quick unless it waits.
TimeLimit(w) ==
    /\ work[w] # Free
    /\ work[w].at = "publish" => lock # None
    /\ Ends(w) /\ Released(w)
    /\ UNCHANGED <<mode, row, queue, streams, originals, lost, books, stale, faultVars>>

\* stuck_upload_watchdog passes over rows with completed_at; get_upload_status does
\* not.  Both read the row first, and write what they decided.
WatchdogReadRunning ==
    /\ row.status = "processing" /\ ~row.done
    /\ stale' = TRUE
    /\ UNCHANGED <<mode, row, lock, queue, work, streams, originals, lost, books,
                   faultVars>>
WatchdogRead ==
    /\ row.status \in Active /\ ~row.done
    /\ stale' = TRUE
    /\ UNCHANGED <<mode, row, lock, queue, work, streams, originals, lost, books,
                   faultVars>>
StatusPollRead ==
    /\ row.status \in Active
    /\ stale' = TRUE
    /\ UNCHANGED <<mode, row, lock, queue, work, streams, originals, lost, books,
                   faultVars>>
FailStale ==
    /\ stale /\ lock = None
    /\ row' = [row EXCEPT !.status = "failed", !.done = TRUE]
    /\ stale' = FALSE
    /\ UNCHANGED <<mode, lock, queue, work, streams, originals, lost, books, faultVars>>
-----------------------------------------------------------------------------
Step(w) ==
    \/ Route(w) \/ SingleStart(w) \/ Publish(w)
    \/ ParseStart(w) \/ ParseFails(w) \/ ParseWrite(w) \/ ParseRoute(w)
    \/ CleanStart(w) \/ CleanRead(w) \/ CleanDispatch(w) \/ CleanDone(w)
    \/ \E c \in Chunks: CleanOne(w, c)
    \/ PollStart(w) \/ PollWrites(w) \/ PollDone(w) \/ PollFallsBack(w) \/ PollAgain(w)
    \/ \E c \in Chunks: ImportWakes(w, c)
    \/ ImportStart(w) \/ ImportRead(w) \/ ImportCommit(w) \/ ImportMark(w) \/ ImportFails(w)

Next ==
    \/ \E w \in Workers: Step(w) \/ ReplyLost(w) \/ Crash(w) \/ TimeLimit(w)
    \/ WatchdogRead \/ StatusPollRead \/ FailStale

Spec == Init /\ [][Next]_vars

\* Beat runs the watchdog every fifteen minutes, and no task outlives its time limit,
\* whatever else the workers do.
Watched ==
    /\ WF_vars(WatchdogRead) /\ WF_vars(FailStale)
    /\ \A w \in Workers: WF_vars(TimeLimit(w))
WatchedSpec == Spec /\ Watched

\* And the workers keep working.
FairSpec == WatchedSpec /\ \A w \in Workers: WF_vars(Step(w))
-----------------------------------------------------------------------------
\* Types.  Only the single task holds the row across steps, and it does so only while
\* it waits.
TypeOK ==
    /\ mode \in Modes
    /\ row \in [status: Active \cup {"completed", "failed"}, done: BOOLEAN, job: BOOLEAN]
    /\ lock \in Workers \cup {None}
    /\ queue \in [Tasks -> Nat]
    /\ work \in [Workers -> [task: Tasks \cup {None},
                             at: Stages \cup {None},
                             todo: [Chunks -> Nat], n: Nat, made: [Chunks -> Nat]]]
    /\ \A s \in {parsed, cleaned}: s.msgs \in Seq(Message) /\ s.read \in 0 .. Len(s.msgs)
    /\ originals \in BOOLEAN /\ lost \subseteq Chunks \X Losses /\ stale \in BOOLEAN
    /\ contacts \in [Chunks -> Nat] /\ awarded \in Nat
    /\ faults \in 0 .. MaxFaults /\ doubled \in 0 .. faults
    /\ lock # None => Does(lock, "process", "publish")

\* "completed" is said of an import that is all there, but for the chunks that are known
\* to be lost: the batch job gave them back empty, a reader gave up before them, Redis
\* refused them, or the import that had taken them died.  No chunk gets lost in any other
\* way, whatever falls back, is delivered again or fails, while no hand-over is repeated;
\* and none but the batch job's while no worker dies and Redis answers.
Missing == {e[1]: e \in lost}
Rejected == {c \in Chunks: <<c, "batch">> \in lost}
CompletedMeansImported ==
    row.status = "completed" /\ doubled = 0 =>
        \A c \in Chunks \ (IF faults = 0 THEN Rejected ELSE Missing): contacts[c] >= 1

\* Nobody is in the address book twice, though two cleanings may give a person two
\* fingerprints: an import that is delivered again, after its commit or before, adds no
\* second copy, whatever gets lost.  Only a hand-over that was itself repeated does: its
\* file and its cleaning may each bring another copy.
ContactsOnce == \A c \in Chunks: contacts[c] <= 1 + 2 * doubled

\* The same of the credits for the upload: a redelivered import does not pay again.  It
\* may when its predecessor left chunks unread, and beside a repeated hand-over: each
\* fault brings one award more at most.
LeftToImport == {c \in Chunks: <<c, "not imported">> \in lost}
AwardOnce == awarded <= IF doubled = 0 /\ LeftToImport = {} THEN 1 ELSE 1 + faults

\* An upload ends: lost tasks, lost polls, a single task blocked on its own row or a
\* dead worker, the row becomes completed or failed in the end.
UploadEnds ==
    (row.status \in Active /\ ~row.done) ~> row.status \in {"completed", "failed"}

\* "Commit progress fields in a separate transaction so polling sees them": a task that
\* is about to publish that it is processing is seen to be.
ProgressIsSeen ==
    \A w \in Workers: (work[w].at = "publish" /\ work[w].task \in {"process", "parse"})
                          ~> row.status = "processing"
=============================================================================
