------------------------------ MODULE Batcher ------------------------------
(***************************************************************************)
(* QueryBatcher: callers leave queries and take futures, a worker thread   *)
(* collects the queries of a time window into one search, flush() does the *)
(* same in the caller's thread, and the owner starts, stops and destroys   *)
(* the batcher.  The mutex guards the pending queries only and is never    *)
(* held across another step, so a critical section is one action.          *)
(*                                                                         *)
(* wait_for() may return at any time: because the window is over, because  *)
(* it was notified and the predicate holds, or (the standard allows it)    *)
(* for no reason at all.  That a notification is lost costs time only, and *)
(* notifications are left out.                                             *)
(***************************************************************************)
EXTENDS Naturals, Sequences, SequencesExt, FiniteSets

CONSTANTS
    Queries,        \* the calls of enqueue(); each is made once
    Flushers,       \* threads that may call flush()
    Worker,         \* the thread that start() makes
    Depths, DepthOf,\* the k of each query
    MaxBatch,
    MaxStarts,      \* bound on the calls of start()
    MaxFlushes      \* bound on the calls of flush()

ASSUME BatcherAssumption ==
    /\ Worker \notin Flushers
    /\ DepthOf \in [Queries -> Depths] /\ Depths \subseteq Nat
    /\ MaxBatch \in Nat \ {0}
    /\ MaxStarts \in Nat /\ MaxFlushes \in Nat

VARIABLES
    pending,    \* pending_
    running,    \* running_
    searching,  \* whether search_fn_ has been set
    worker,     \* where the worker thread is
    owner,      \* the owner: "idle", inside stop() or the destructor, "gone"
    batch,      \* the local batch of the worker and of every flush()
    future,     \* what the future of a query holds
    starts, flushes,
    arrived,    \* auxiliary: queries in the order of their enqueue()
    taken       \* auxiliary: queries in the order in which they left pending_

life == <<running, searching, owner, starts, flushes>>
batcherVars == <<pending, worker, batch, future, life, arrived, taken>>

Threads == Flushers \union {Worker}

-----------------------------------------------------------------------------
(* Futures. *)

Answer(k) == [kind |-> "answer", k |-> k]
Plain(x) == [kind |-> x, k |-> 0]

Unsent == Plain("unsent")
Waiting == Plain("waiting")
Empty == Plain("empty")     \* a value without results
Failed == Plain("failed")   \* the exception of the search
Broken == Plain("broken")   \* the promise was destroyed

\* A promise of the batch that is set; all others keep what they have.
Settle(qs, Outcome(_)) ==
    future' = [q \in Queries |-> IF \E i \in DOMAIN qs : qs[i] = q
                                 THEN Outcome(CHOOSE i \in DOMAIN qs : qs[i] = q)
                                 ELSE future[q]]

-----------------------------------------------------------------------------
\* Nobody calls a batcher that is being destroyed.
Usable == owner \notin {"destroying", "gone"}

Enqueue(q) ==
    /\ Usable /\ future[q] = Unsent
    /\ pending' = Append(pending, q)
    /\ arrived' = Append(arrived, q)
    /\ future' = [future EXCEPT ![q] = Waiting]
    /\ UNCHANGED <<worker, batch, life, taken>>

\* Mutant: what is taken stays pending as well.
TakeAndKeep(t, n) ==
    /\ batch' = [batch EXCEPT ![t] = SubSeq(pending, 1, n)]
    /\ taken' = taken \o SubSeq(pending, 1, n)
    /\ UNCHANGED pending

\* The oldest n queries become the batch of a thread.
Take(t, n) ==
    /\ batch' = [batch EXCEPT ![t] = SubSeq(pending, 1, n)]
    /\ taken' = taken \o SubSeq(pending, 1, n)
    /\ pending' = SubSeq(pending, n + 1, Len(pending))

-----------------------------------------------------------------------------
(* The worker thread. *)

GoTo(label) == worker' = label

LoopTest ==
    /\ worker = "loop"
    /\ GoTo(IF running THEN "lock" ELSE "exited")
    /\ UNCHANGED <<pending, batch, future, life, arrived, taken>>

Due == Len(pending) >= MaxBatch \/ ~running

\* Mutant: the worker takes all there is.
Everything == Len(pending)

BatchSize == IF Len(pending) <= MaxBatch THEN Len(pending) ELSE MaxBatch

\* With the mutex, after wait_for: nothing to do, or a batch to take.
Proceed ==
    IF pending = <<>>
    THEN /\ GoTo(IF running THEN "loop" ELSE "exited")
         /\ UNCHANGED <<pending, batch, taken>>
    ELSE /\ Take(Worker, BatchSize)
         /\ GoTo("search")

\* wait_for tests its predicate before it sleeps.
WaitFor ==
    /\ worker = "lock"
    /\ IF Due THEN Proceed ELSE GoTo("asleep") /\ UNCHANGED <<pending, batch, taken>>
    /\ UNCHANGED <<future, life, arrived>>

\* Mutant: wait() in the place of wait_for(), which has no time limit.
WakeUpWhenDue ==
    /\ worker = "asleep" /\ Due
    /\ Proceed
    /\ UNCHANGED <<future, life, arrived>>

WakeUp ==
    /\ worker = "asleep"
    /\ Proceed
    /\ UNCHANGED <<future, life, arrived>>

\* Without a search_fn_ the batch goes with its promises.  With one, it is asked
\* for the k of the first query, and returns a list per query, or fewer, or
\* throws; Rest is what becomes of queries without a list.
Searched(t, Rest) ==
    IF ~searching
    THEN Settle(batch[t], LAMBDA i : Broken)
    ELSE \/ \E m \in 0..Len(batch[t]) :
               Settle(batch[t], LAMBDA i : IF i <= m THEN Answer(DepthOf[batch[t][1]]) ELSE Rest)
         \/ Settle(batch[t], LAMBDA i : Failed)

Search ==
    /\ worker = "search"
    /\ Searched(Worker, Empty)
    /\ batch' = [batch EXCEPT ![Worker] = <<>>]
    /\ GoTo("loop")
    /\ UNCHANGED <<pending, life, arrived, taken>>

-----------------------------------------------------------------------------
(* flush(), which takes everything, however much that is. *)

Flush(t) ==
    /\ Usable /\ batch[t] = <<>> /\ flushes < MaxFlushes
    /\ flushes' = flushes + 1
    /\ Take(t, Len(pending))
    /\ UNCHANGED <<running, searching, worker, owner, future, starts, arrived>>

\* Queries that get no list go with their promises.
FlushSearch(t) ==
    /\ batch[t] # <<>>
    /\ Searched(t, Broken)
    /\ batch' = [batch EXCEPT ![t] = <<>>]
    /\ UNCHANGED <<pending, worker, life, arrived, taken>>

-----------------------------------------------------------------------------
(* The owner. start() on a batcher whose worker has not been joined ends the *)
(* program; set_search_fn() beside a thread that searches is a data race.    *)
(* Neither is among its calls.                                               *)

SetSearchFn ==
    /\ owner = "idle" /\ worker = "none" /\ \A t \in Flushers : batch[t] = <<>>
    /\ searching' = TRUE
    /\ UNCHANGED <<pending, running, worker, owner, batch, future, starts, flushes, arrived, taken>>

Start ==
    /\ owner = "idle" /\ worker = "none" /\ starts < MaxStarts
    /\ starts' = starts + 1
    /\ running' = TRUE
    /\ GoTo("loop")
    /\ UNCHANGED <<pending, searching, owner, batch, future, flushes, arrived, taken>>

\* Mutant: the worker is told to look, and not that it is over.
NotifyOnly == UNCHANGED running

Signal == running' = FALSE

\* stop(), or the destructor, which begins with it.
Stop ==
    /\ owner = "idle"
    /\ \E call \in {"stopping", "destroying"} :
          /\ call = "destroying" => \A t \in Flushers : batch[t] = <<>>
          /\ owner' = call
    /\ Signal
    /\ UNCHANGED <<pending, searching, worker, batch, future, starts, flushes, arrived, taken>>

Joinable == worker \in {"exited", "none"}

\* The worker is joined; the destructor then destroys the pending promises.
Join ==
    /\ owner \in {"stopping", "destroying"}
    /\ Joinable
    /\ GoTo("none")
    /\ IF owner = "stopping"
       THEN owner' = "idle" /\ UNCHANGED <<pending, future>>
       ELSE /\ owner' = "gone"
            /\ pending' = <<>>
            /\ Settle(pending, LAMBDA i : Broken)
    /\ UNCHANGED <<running, searching, batch, starts, flushes, arrived, taken>>

-----------------------------------------------------------------------------
BatcherInit ==
    /\ pending = <<>> /\ running = FALSE /\ searching = FALSE /\ worker = "none" /\ owner = "idle"
    /\ batch = [t \in Threads |-> <<>>]
    /\ future = [q \in Queries |-> Unsent]
    /\ starts = 0 /\ flushes = 0
    /\ arrived = <<>> /\ taken = <<>>

WorkerStep == LoopTest \/ WaitFor \/ WakeUp \/ Search

BatcherNext ==
    \/ \E q \in Queries : Enqueue(q)
    \/ WorkerStep
    \/ \E t \in Flushers : Flush(t) \/ FlushSearch(t)
    \/ SetSearchFn \/ Start \/ Stop \/ Join

BatcherSpec == BatcherInit /\ [][BatcherNext]_batcherVars

\* The worker and the threads inside a call are run, wait_for() comes back and
\* search_fn_ returns.  Nobody has to call anything.
FairSpec ==
    /\ BatcherSpec
    /\ WF_batcherVars(WorkerStep) /\ WF_batcherVars(Join)
    /\ \A t \in Flushers : WF_batcherVars(FlushSearch(t))

-----------------------------------------------------------------------------
(* Properties. *)

Outcomes == {Unsent, Waiting, Empty, Failed, Broken} \union {Answer(k) : k \in Depths}

BatcherTypeOK ==
    /\ pending \in Seq(Queries) /\ running \in BOOLEAN /\ searching \in BOOLEAN
    /\ worker \in {"none", "loop", "lock", "asleep", "search", "exited"}
    /\ owner \in {"idle", "stopping", "destroying", "gone"}
    /\ batch \in [Threads -> Seq(Queries)]
    /\ Len(batch[Worker]) <= MaxBatch
    /\ future \in [Queries -> Outcomes]
    /\ starts \in 0..MaxStarts /\ flushes \in 0..MaxFlushes
    /\ arrived \in Seq(Queries) /\ taken \in Seq(Queries)

\* Queries leave in the order in which they came, each one once, whoever takes
\* them; and those whose future is not settled are pending or in a batch.
NoQueryIsLost ==
    /\ BatcherTypeOK
    /\ owner # "gone" => taken \o pending = arrived
    /\ {q \in Queries : future[q] = Waiting} =
           ToSet(pending) \union UNION {ToSet(batch[t]) : t \in Threads}

\* A promise is set once: neither a flush beside the worker nor an exception in
\* the middle of a batch answers a query a second time.
AnsweredOnce ==
    [][\A q \in Queries : future[q] \notin {Unsent, Waiting} => future'[q] = future[q]]_batcherVars

\* A query left while the worker is running is answered, if only by the end of
\* the window, unless the batcher is stopped first.
RunningMeansAnswered ==
    \A q \in Queries :
        running /\ future[q] = Waiting ~> ~running \/ future[q] # Waiting

\* stop() and the destructor return: the worker sees the end from every place
\* it can be in.
StopReturns == owner \in {"stopping", "destroying"} ~> owner \in {"idle", "gone"}
=============================================================================
