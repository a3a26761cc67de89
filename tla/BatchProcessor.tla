---------------------------- MODULE BatchProcessor ----------------------------
(***************************************************************************)
(* The batch processor (batch_processor.py) as the chat endpoint uses it    *)
(* (app.py): each request's thread puts it on a queue and waits; one thread *)
(* of the processor collects a batch, has every request of it answered in   *)
(* turn, and hands out the results by their place.                         *)
(*                                                                         *)
(* A request waits for so long, and the thread collects for so long: both   *)
(* may end at any time in the model.                                       *)
(***************************************************************************)
EXTENDS Integers, Sequences, FiniteSets

CONSTANTS
    Calls,          \* the calls of submit
    Priorities,     \* INTERACTIVE (1), BATCH (2)
    BatchSize

ASSUME BatchAssumption ==
    /\ Priorities \subseteq Nat
    /\ BatchSize \in Nat \ {0}

VARIABLES
    running,
    loop,       \* where the processor's thread is: "off", "look", "collect", "process"
    batch, results,
    queue,      \* the entries of the queue: priority, number, call
    counter,
    call,       \* what each call of submit does
    ran,        \* what came of each call's turn: "no", "saved" or "failed"
    ahead       \* the calls that were in the queue before each one, none of lower priority

processor == <<running, loop, batch, results, queue, counter, call, ran, ahead>>
worker    == <<running, loop, batch, results>>

BatchInit ==
    /\ running = TRUE /\ loop = "look"
    /\ batch = <<>> /\ results = <<>>
    /\ queue = {} /\ counter = 0
    /\ call = [r \in Calls |-> [at |-> "new", priority |-> 0, number |-> 0]]
    /\ ran = [r \in Calls |-> "no"]
    /\ ahead = [r \in Calls |-> {}]

CallAt(r, at) == call[r].at = at
CallMoves(r, at) == call' = [call EXCEPT ![r].at = at]

Entry(r) == [priority |-> call[r].priority, number |-> call[r].number, call |-> r]

\* Mutant: entries are told apart by their priority alone.
ByPriority(e, f) == e.priority < f.priority

Before(e, f) == e.priority < f.priority \/ (e.priority = f.priority /\ e.number < f.number)

-----------------------------------------------------------------------------
(* submit *)

Submit(r, priority) ==
    /\ CallAt(r, "new")
    /\ call' = [call EXCEPT ![r].at = IF running THEN "count" ELSE "refused", ![r].priority = priority]
    /\ UNCHANGED <<worker, queue, counter, ran, ahead>>

\* A call that never gets to the queue.
Refuse(r) ==
    /\ CallAt(r, "new") /\ CallMoves(r, "refused")
    /\ UNCHANGED <<worker, queue, counter, ran, ahead>>

Count(r) ==
    /\ CallAt(r, "count")
    /\ call' = [call EXCEPT ![r].at = "put", ![r].number = counter]
    /\ counter' = counter + 1
    /\ ahead' = [ahead EXCEPT ![r] = {e.call : e \in {e \in queue : e.priority <= call[r].priority}}]
    /\ UNCHANGED <<worker, queue, ran>>

Put(r) ==
    /\ CallAt(r, "put")
    /\ queue' = queue \union {Entry(r)}
    /\ CallMoves(r, "wait")
    /\ UNCHANGED <<worker, counter, ran, ahead>>

\* The caller gives up, with a 504; its entry stays where it is.
TimeOut(r) ==
    /\ CallAt(r, "wait")
    /\ CallMoves(r, "gone")
    /\ UNCHANGED <<worker, queue, counter, ran, ahead>>

-----------------------------------------------------------------------------
(* The processor's thread: _process_loop, _collect_batch, _process_batch *)

\* Mutant: the thread ends when there is nothing to do.
LookNoFurther ==
    /\ loop = "look"
    /\ loop' = IF running /\ queue # {} THEN "collect" ELSE "off"
    /\ UNCHANGED <<running, batch, results, queue, counter, call, ran, ahead>>

Look ==
    /\ loop = "look"
    /\ loop' = IF running THEN "collect" ELSE "off"
    /\ UNCHANGED <<running, batch, results, queue, counter, call, ran, ahead>>

\* Mutant: an entry is read and left in the queue.
Peek ==
    /\ loop = "collect" /\ Len(batch) < BatchSize
    /\ \E e \in queue :
         /\ \A f \in queue : ~Before(f, e)
         /\ batch' = Append(batch, e.call)
    /\ UNCHANGED <<running, loop, results, queue, counter, call, ran, ahead>>

Get ==
    /\ loop = "collect" /\ Len(batch) < BatchSize
    /\ \E e \in queue :
         /\ \A f \in queue : ~Before(f, e)
         /\ queue' = queue \ {e}
         /\ batch' = Append(batch, e.call)
    /\ UNCHANGED <<running, loop, results, counter, call, ran, ahead>>

\* The batch is full, or its time is up; there may be nothing in it.
Collected ==
    /\ loop = "collect"
    /\ loop' = IF batch = <<>> THEN "look" ELSE "process"
    /\ UNCHANGED <<running, batch, results, queue, counter, call, ran, ahead>>

Turn == batch[Len(results) + 1]

\* Mutant: an exception is not kept for its call and fails the batch.
AnswerUncaught ==
    /\ loop = "process" /\ Len(results) < Len(batch)
    /\ \/ /\ ran' = [ran EXCEPT ![Turn] = "saved"]
          /\ results' = Append(results, "saved")
       \/ /\ ran' = [ran EXCEPT ![Turn] = "failed"]
          /\ results' = [k \in DOMAIN batch |-> "failed"]
    /\ UNCHANGED <<running, loop, batch, queue, counter, call, ahead>>

\* _process_chat_batch runs a call's turn and keeps an error in place of its result.
Answer ==
    /\ loop = "process" /\ Len(results) < Len(batch)
    /\ \E came \in {"saved", "failed"} :
         /\ ran' = [ran EXCEPT ![Turn] = came]
         /\ results' = Append(results, came)
    /\ UNCHANGED <<running, loop, batch, queue, counter, call, ahead>>

\* Every call of the batch gets the result in its place; one that has gone does not see it.
Deliver ==
    /\ loop = "process" /\ Len(results) = Len(batch)
    /\ call' = [r \in Calls |->
           IF CallAt(r, "wait") /\ \E k \in DOMAIN batch : batch[k] = r
           THEN [call[r] EXCEPT !.at = results[CHOOSE k \in DOMAIN batch : batch[k] = r]]
           ELSE call[r]]
    /\ batch' = <<>> /\ results' = <<>> /\ loop' = "look"
    /\ UNCHANGED <<running, queue, counter, ran, ahead>>

\* stop; the thread sees it when it has done with its batch.
Stop ==
    /\ running
    /\ running' = FALSE
    /\ UNCHANGED <<loop, batch, results, queue, counter, call, ran, ahead>>

Thread == Look \/ Get \/ Collected \/ Answer \/ Deliver

BatchNext ==
    \/ Thread \/ Stop
    \/ \E r \in Calls : \/ \E priority \in Priorities : Submit(r, priority)
                        \/ Refuse(r) \/ Count(r) \/ Put(r) \/ TimeOut(r)

BatchSpec == BatchInit /\ [][BatchNext]_processor

-----------------------------------------------------------------------------
InBatch == {batch[k] : k \in DOMAIN batch}
InQueue == {e.call : e \in queue}

\* A call's entry is in the queue, in the batch or done with, its turn not yet run in the
\* first two cases but for the calls of the batch that have their results.
BatchTypeOK ==
    /\ running \in BOOLEAN
    /\ loop \in {"off", "look", "collect", "process"}
    /\ Len(batch) <= BatchSize /\ Len(results) <= Len(batch)
    /\ \A r \in Calls :
         /\ call[r].at \in {"new", "refused", "count", "put", "wait", "gone", "saved", "failed"}
         /\ ran[r] \in {"no", "saved", "failed"}
    /\ \A e \in queue : e = Entry(e.call) /\ e.call \notin InBatch /\ ran[e.call] = "no"
    /\ \A k \in DOMAIN batch :
         /\ \A l \in DOMAIN batch : batch[k] = batch[l] => k = l
         /\ IF k <= Len(results) THEN ran[batch[k]] = results[k] ELSE ran[batch[k]] = "no"

\* A caller that gets an answer gets the truth: its own turn was saved, or it failed,
\* whatever became of the other calls of the batch.
ToldTheTruth ==
    \A r \in Calls :
        /\ CallAt(r, "saved")  => ran[r] = "saved"
        /\ CallAt(r, "failed") => ran[r] = "failed"
        /\ CallAt(r, "refused") => ran[r] = "no"

\* No call is answered before one that was in the queue ahead of it, of its own or a higher
\* priority, though callers give up and threads put their entries in any order.
FirstComeFirstServed ==
    \A r \in Calls : ran[r] # "no" => \A q \in ahead[r] : ran[q] # "no"

\* An entry that is in the queue is answered, even one whose caller has gone, unless the
\* processor is stopped.
Served == \A r \in Calls : (r \in InQueue) ~> (ran[r] # "no" \/ ~running)

=============================================================================
