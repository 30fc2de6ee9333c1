------------------------------ MODULE UsageLog ------------------------------
(***************************************************************************)
(* Usage records on their way from a finished request to PostgreSQL.       *)
(*                                                                         *)
(* A recording goroutine executes the pipeline of RecordUsage (increment   *)
(* the counters, then RPUSH the log entry on usage_log_queue); FlushWorker *)
(* moves entries from the queue to usage_logs every five seconds, at most  *)
(* Batch per tick, and puts an entry back at the tail when its INSERT      *)
(* fails; on SIGTERM main stops the HTTP server, cancels the worker's      *)
(* context, runs FlushAll and exits.  Redis and PostgreSQL survive the     *)
(* process, what a goroutine holds does not.                               *)
(*                                                                         *)
(* Every request has a record of its own.  Entries are parsed back from    *)
(* what RecordUsage marshalled, so the parse errors of the two flush loops *)
(* cannot happen and are not modelled.                                     *)
(*                                                                         *)
(* The Redis client main builds sends a command, or a whole pipeline,      *)
(* again when its connection breaks or its answer is late (go-redis, three *)
(* retries by default).  What was executed is then executed once more: an  *)
(* LPOP takes a further entry, an RPUSH adds a second copy of the same     *)
(* one.  To tell copies apart an entry is a pair of its record and the     *)
(* number of the RPUSH that added it; no action depends on that number.    *)
(***************************************************************************)
EXTENDS Naturals, Sequences

CONSTANTS
    Records,    \* usage records, one per request
    NoEntry,    \* the absence of an entry
    Poison,     \* records PostgreSQL always rejects
    Batch,      \* entries moved per tick (100 in flushOnce)
    Faults,     \* the faults that may occur, a subset of AllFaults
    MaxStops,   \* bound of the model: how often the process stops
    MaxRows,    \* bound of the model: rows one entry may get by "commit"
    MaxCopies   \* bound of the model: entries of one record, by resends

\* lpop: LPOP fails; reply: LPOP is executed but its answer is lost;
\* insert: INSERT fails; commit: INSERT is committed but an error is reported;
\* rpush: the re-queueing RPUSH fails; exec: the pipeline of RecordUsage fails;
\* resend: the answer to a pipeline or an RPUSH is lost and it is sent again;
\* crash: the process dies; timeout: handlers outlive srv.Shutdown's 30 s;
\* evict: Redis, at maxmemory under allkeys-lru, evicts the queue.
AllFaults ==
    {"lpop", "reply", "insert", "commit", "rpush", "exec", "resend", "crash", "timeout",
     "evict"}

\* An entry of usage_log_queue: a record and which of its RPUSHes added it.
Entries == Records \X (1 .. MaxCopies)

ASSUME EntryAssumption == NoEntry \notin Entries
ASSUME PoisonAssumption == Poison \subseteq Records
ASSUME BatchAssumption == Batch \in Nat \ {0}
ASSUME FaultsAssumption == Faults \subseteq AllFaults
ASSUME BoundsAssumption == MaxStops \in Nat /\ MaxRows \in Nat /\ MaxCopies \in Nat \ {0}

VARIABLES
    phase,   \* main: running, draining (srv.Shutdown), flushing (FlushAll), exited
    rec,     \* the producer of each record, see RecSteps
    copies,  \* history: how often an RPUSH has added an entry of a record
    queue,   \* Redis list usage_log_queue
    fpc,     \* FlushWorker: wait (select), pop, insert, requeue, stopped
    fitem,   \* the entry flushOnce has popped
    fcount,  \* flushOnce's loop counter i
    mpc,     \* FlushAll in main: off, pop, insert, done
    mitem,   \* the entry FlushAll has popped
    rows,    \* number of usage_logs rows written from each entry
    logged,  \* history: entries whose INSERT was reported successful
    lost,    \* history: entries taken from the queue and dropped, with no
             \*   INSERT reported successful
    unsure,  \* history: entries one of whose INSERTs was committed and then
             \*   reported as failed
    resent,  \* history: records whose RPUSH was executed and sent again
    byRedis, \* history: entries lost with the answer to an LPOP, with a
             \*   failed RPUSH or by an eviction
    stops    \* history: how often the process was told to stop or died

flusher == <<fpc, fitem, fcount>>
flushAll == <<mpc, mitem>>
history == <<copies, logged, lost, unsure, resent, byRedis, stops>>
vars == <<phase, rec, queue, flusher, flushAll, rows, history>>

\* new: no request yet; handler: being served; pending: goroutine started;
\* half: counters incremented, an RPUSH is due; done: ended, entry pushed;
\* dropped: ended without a charge; unlogged: charged, the push failed.
RecSteps == {"new", "handler", "pending", "half", "done", "dropped", "unlogged"}

InQueue(e) == \E i \in 1 .. Len(queue) : queue[i] = e

Queued == {e \in Entries : InQueue(e)}

RecordOf(e) == e[1]

\* The entry was added to the queue at some time.
Pushed(e) == e[2] <= copies[RecordOf(e)]

\* The entry that the next RPUSH of a record adds.
NextCopy(r) == <<r, copies[r] + 1>>

\* flushCancel() has been called.
Cancelled == phase \in {"flushing", "exited"}

\* The process is alive: goroutines run.
Up == phase # "exited"

Init ==
    /\ phase = "running"
    /\ rec = [r \in Records |-> "new"]
    /\ queue = <<>>
    /\ fpc = "wait" /\ fitem = NoEntry /\ fcount = 0
    /\ mpc = "off" /\ mitem = NoEntry
    /\ rows = [e \in Entries |-> 0]
    /\ copies = [r \in Records |-> 0]
    /\ logged = {}
    /\ lost = {}
    /\ unsure = {} /\ resent = {} /\ byRedis = {}
    /\ stops = 0

-----------------------------------------------------------------------------
(* The producer of a record. *)

\* A request passes the middleware; a stopping server accepts none.
Accept(r) ==
    /\ phase = "running"
    /\ rec[r] = "new"
    /\ rec' = [rec EXCEPT ![r] = "handler"]
    /\ UNCHANGED <<phase, queue, flusher, flushAll, rows, history>>

\* The handler starts the recording goroutine and returns its response.
Respond(r) ==
    /\ Up
    /\ rec[r] = "handler"
    /\ rec' = [rec EXCEPT ![r] = "pending"]
    /\ UNCHANGED <<phase, queue, flusher, flushAll, rows, history>>

\* Redis executes the increments of the pipeline.
ExecIncr(r) ==
    /\ Up
    /\ rec[r] = "pending"
    /\ rec' = [rec EXCEPT ![r] = "half"]
    /\ UNCHANGED <<phase, queue, flusher, flushAll, rows, history>>

\* The bound of the model leaves room for a resend of r besides the RPUSH due.
Spare(r) == copies[r] + (IF rec[r] = "half" THEN 1 ELSE 0) < MaxCopies

\* An RPUSH of an entry of r is executed.
Push(r) ==
    /\ queue' = Append(queue, NextCopy(r))
    /\ copies' = [copies EXCEPT ![r] = @ + 1]

\* Redis executes the RPUSH of the pipeline: the commands of other clients may
\* come in between, and the sender may be gone.
ExecPush(r) ==
    /\ rec[r] = "half"
    /\ Push(r)
    /\ rec' = [rec EXCEPT ![r] = "done"]
    /\ UNCHANGED <<phase, flusher, flushAll, rows, logged, lost, unsure, resent, byRedis, stops>>

\* The pipeline is executed and its answer lost: the client sends it again, the
\* counters are incremented once more and another RPUSH is due.
ExecAgain(r) ==
    /\ "resend" \in Faults
    /\ Up
    /\ rec[r] = "half"
    /\ Spare(r)
    /\ Push(r)
    /\ resent' = resent \cup {r}
    /\ UNCHANGED <<phase, rec, flusher, flushAll, rows, logged, lost, unsure, byRedis, stops>>

\* The pipeline fails for the last time, before or after the increments;
\* recordUsage ignores it.  An RPUSH that was executed before stays.
ExecError(r) ==
    /\ "exec" \in Faults
    /\ \/ rec[r] = "pending" /\ rec' = [rec EXCEPT ![r] = "dropped"]
       \/ /\ rec[r] = "half"
          /\ rec' = [rec EXCEPT ![r] = IF copies[r] = 0 THEN "unlogged" ELSE "done"]
    /\ UNCHANGED <<phase, queue, flusher, flushAll, rows, history>>

-----------------------------------------------------------------------------
(* FlushWorker and flushOnce. *)

FlusherSleeps == fpc' = "wait" /\ fitem' = NoEntry /\ fcount' = 0

\* The ticker fires and the context is not done.
Tick ==
    /\ fpc = "wait"
    /\ ~Cancelled
    /\ fpc' = "pop"
    /\ UNCHANGED <<phase, rec, queue, fitem, fcount, flushAll, rows, history>>

\* ctx.Done(): FlushWorker returns.
WorkerReturns ==
    /\ fpc = "wait"
    /\ phase = "flushing"
    /\ fpc' = "stopped"
    /\ UNCHANGED <<phase, rec, queue, fitem, fcount, flushAll, rows, history>>

\* Mutant of FlushPop: the entry is read and stays in the queue.
FlushPopPeek ==
    /\ fpc = "pop"
    /\ ~Cancelled
    /\ queue # <<>>
    /\ fitem' = Head(queue)
    /\ fpc' = "insert"
    /\ UNCHANGED <<phase, rec, queue, fcount, flushAll, rows, history>>

\* LPOP succeeds.
FlushPop ==
    /\ fpc = "pop"
    /\ ~Cancelled
    /\ queue # <<>>
    /\ fitem' = Head(queue)
    /\ queue' = Tail(queue)
    /\ fpc' = "insert"
    /\ UNCHANGED <<phase, rec, fcount, flushAll, rows, history>>

\* LPOP answers nil or fails, or its context is cancelled: the loop ends.
FlushPopNothing ==
    /\ fpc = "pop"
    /\ Up
    /\ queue = <<>> \/ Cancelled \/ "lpop" \in Faults
    /\ FlusherSleeps
    /\ UNCHANGED <<phase, rec, queue, flushAll, rows, history>>

\* LPOP is executed, the answer never arrives: the entry is gone, and the client
\* sends the LPOP again or reports the error, which ends the loop.
FlushPopReplyLost ==
    /\ fpc = "pop"
    /\ "reply" \in Faults
    /\ ~Cancelled
    /\ queue # <<>>
    /\ lost' = lost \cup {Head(queue)}
    /\ byRedis' = byRedis \cup {Head(queue)}
    /\ queue' = Tail(queue)
    /\ FlusherSleeps \/ UNCHANGED flusher
    /\ UNCHANGED <<phase, rec, flushAll, rows, copies, logged, unsure, resent, stops>>

\* Mutant of FlushInsert: the popped entry is inserted and kept for requeueing.
FlushInsertTwice ==
    /\ fpc = "insert"
    /\ ~Cancelled
    /\ RecordOf(fitem) \notin Poison
    /\ rows' = [rows EXCEPT ![fitem] = @ + 1]
    /\ fpc' = "requeue"
    /\ UNCHANGED <<phase, rec, queue, fitem, fcount, flushAll, history>>

\* Create succeeds; the loop goes on until Batch entries are moved.
FlushInsert ==
    /\ fpc = "insert"
    /\ ~Cancelled
    /\ RecordOf(fitem) \notin Poison
    /\ rows' = [rows EXCEPT ![fitem] = @ + 1]
    /\ logged' = logged \cup {fitem}
    /\ IF fcount + 1 < Batch
       THEN fpc' = "pop" /\ fitem' = NoEntry /\ fcount' = fcount + 1
       ELSE FlusherSleeps
    /\ UNCHANGED <<phase, rec, queue, flushAll, copies, lost, unsure, resent, byRedis, stops>>

\* Create fails: the row is rejected, PostgreSQL is away, or the context was
\* cancelled after the LPOP.
FlushInsertError ==
    /\ fpc = "insert"
    /\ Up
    /\ Cancelled \/ RecordOf(fitem) \in Poison \/ "insert" \in Faults
    /\ fpc' = "requeue"
    /\ UNCHANGED <<phase, rec, queue, fitem, fcount, flushAll, rows, history>>

\* The row is committed and the connection lost before Create returns.
FlushInsertUnknown ==
    /\ fpc = "insert"
    /\ "commit" \in Faults
    /\ ~Cancelled
    /\ RecordOf(fitem) \notin Poison
    /\ rows[fitem] < MaxRows
    /\ rows' = [rows EXCEPT ![fitem] = @ + 1]
    /\ unsure' = unsure \cup {fitem}
    /\ fpc' = "requeue"
    /\ UNCHANGED <<phase, rec, queue, fitem, fcount, flushAll, copies, logged, lost, resent,
                   byRedis, stops>>

\* Mutant of Requeue: the entry goes back to the head of the queue.
RequeueHead ==
    /\ fpc = "requeue"
    /\ ~Cancelled
    /\ queue' = <<fitem>> \o queue
    /\ FlusherSleeps
    /\ UNCHANGED <<phase, rec, flushAll, rows, history>>

\* Mutant of Requeue: the failed entry is not put back.
RequeueForgotten ==
    /\ fpc = "requeue"
    /\ ~Cancelled
    /\ lost' = lost \cup {fitem}
    /\ FlusherSleeps
    /\ UNCHANGED <<phase, rec, queue, flushAll, rows, copies, logged, unsure, resent, byRedis,
                   stops>>

\* RPUSH puts the entry at the tail and the loop ends.
Requeue ==
    /\ fpc = "requeue"
    /\ ~Cancelled
    /\ queue' = Append(queue, fitem)
    /\ FlusherSleeps
    /\ UNCHANGED <<phase, rec, flushAll, rows, history>>

\* RPUSH is executed and its answer lost: the client sends it again, and what it
\* added stays.
RequeueAgain ==
    /\ "resend" \in Faults
    /\ fpc = "requeue"
    /\ ~Cancelled
    /\ Spare(RecordOf(fitem))
    /\ Push(RecordOf(fitem))
    /\ resent' = resent \cup {RecordOf(fitem)}
    /\ UNCHANGED <<phase, rec, flusher, flushAll, rows, logged, lost, unsure, byRedis, stops>>

\* The RPUSH uses the same context: once it is cancelled the entry is dropped.
RequeueError ==
    /\ fpc = "requeue"
    /\ Up
    /\ Cancelled \/ "rpush" \in Faults
    /\ lost' = lost \cup {fitem}
    /\ byRedis' = byRedis \cup {fitem}
    /\ FlusherSleeps
    /\ UNCHANGED <<phase, rec, queue, flushAll, rows, copies, logged, unsure, resent, stops>>

-----------------------------------------------------------------------------
(* main: signal, srv.Shutdown, flushCancel, FlushAll, exit. *)

Signal ==
    /\ phase = "running"
    /\ stops < MaxStops
    /\ stops' = stops + 1
    /\ phase' = "draining"
    /\ UNCHANGED <<rec, queue, flusher, flushAll, rows, copies, logged, lost, unsure, resent,
                   byRedis>>

\* srv.Shutdown returns when no handler runs or its 30 seconds are over; the
\* recording goroutines are not waited for.  Then flushCancel() and FlushAll.
ShutdownReturns ==
    /\ phase = "draining"
    /\ "timeout" \in Faults \/ \A r \in Records : rec[r] # "handler"
    /\ phase' = "flushing"
    /\ mpc' = "pop"
    /\ UNCHANGED <<rec, queue, flusher, mitem, rows, history>>

FlushAllPop ==
    /\ mpc = "pop"
    /\ queue # <<>>
    /\ mitem' = Head(queue)
    /\ queue' = Tail(queue)
    /\ mpc' = "insert"
    /\ UNCHANGED <<phase, rec, flusher, rows, history>>

\* LPOP answers nil or fails: FlushAll returns.
FlushAllPopNothing ==
    /\ mpc = "pop"
    /\ queue = <<>> \/ "lpop" \in Faults
    /\ mpc' = "done"
    /\ UNCHANGED <<phase, rec, queue, flusher, mitem, rows, history>>

\* LPOP is executed, the answer never arrives: it is sent again, or FlushAll
\* returns with the error.
FlushAllPopReplyLost ==
    /\ mpc = "pop"
    /\ "reply" \in Faults
    /\ queue # <<>>
    /\ lost' = lost \cup {Head(queue)}
    /\ byRedis' = byRedis \cup {Head(queue)}
    /\ queue' = Tail(queue)
    /\ mpc' \in {"pop", "done"}
    /\ UNCHANGED <<phase, rec, flusher, mitem, rows, copies, logged, unsure, resent, stops>>

FlushAllInsert ==
    /\ mpc = "insert"
    /\ RecordOf(mitem) \notin Poison
    /\ rows' = [rows EXCEPT ![mitem] = @ + 1]
    /\ logged' = logged \cup {mitem}
    /\ mpc' = "pop" /\ mitem' = NoEntry
    /\ UNCHANGED <<phase, rec, queue, flusher, copies, lost, unsure, resent, byRedis, stops>>

\* FlushAll does not put the entry back: it is dropped and the loop ends.
FlushAllInsertError ==
    /\ mpc = "insert"
    /\ RecordOf(mitem) \in Poison \/ "insert" \in Faults
    /\ lost' = lost \cup {mitem}
    /\ mpc' = "done" /\ mitem' = NoEntry
    /\ UNCHANGED <<phase, rec, queue, flusher, rows, copies, logged, unsure, resent, byRedis,
                   stops>>

\* The row is committed, Create reports an error: the loop ends.
FlushAllInsertUnknown ==
    /\ mpc = "insert"
    /\ "commit" \in Faults
    /\ RecordOf(mitem) \notin Poison
    /\ rows[mitem] < MaxRows
    /\ rows' = [rows EXCEPT ![mitem] = @ + 1]
    /\ unsure' = unsure \cup {mitem}
    /\ lost' = lost \cup {mitem}
    /\ mpc' = "done" /\ mitem' = NoEntry
    /\ UNCHANGED <<phase, rec, queue, flusher, copies, logged, resent, byRedis, stops>>

\* The goroutines end with the process: a request in service and a goroutine
\* that has not reached Redis leave nothing, a popped entry is gone.
ProcessEnds ==
    /\ phase' = "exited"
    /\ rec' = [r \in Records |->
                  IF rec[r] \in {"handler", "pending"} THEN "dropped" ELSE rec[r]]
    /\ lost' = lost \cup ({fitem, mitem} \ {NoEntry})
    /\ fpc' = "stopped" /\ fitem' = NoEntry /\ fcount' = 0
    /\ mpc' = "off" /\ mitem' = NoEntry
    /\ UNCHANGED <<queue, rows, copies, logged, unsure, resent, byRedis>>

Exit ==
    /\ mpc = "done"
    /\ ProcessEnds
    /\ UNCHANGED stops

Crash ==
    /\ "crash" \in Faults
    /\ Up
    /\ stops < MaxStops
    /\ stops' = stops + 1
    /\ ProcessEnds

\* The next process finds the queue as it was.
Restart ==
    /\ phase = "exited"
    /\ phase' = "running"
    /\ fpc' = "wait"
    /\ UNCHANGED <<rec, queue, fitem, fcount, flushAll, rows, history>>

-----------------------------------------------------------------------------
Producer(r) ==
    \/ Accept(r) \/ Respond(r)
    \/ ExecIncr(r) \/ ExecPush(r) \/ ExecAgain(r) \/ ExecError(r)

Flusher ==
    \/ Tick \/ WorkerReturns
    \/ FlushPop \/ FlushPopNothing \/ FlushPopReplyLost
    \/ FlushInsert \/ FlushInsertError \/ FlushInsertUnknown
    \/ Requeue \/ RequeueAgain \/ RequeueError

\* Redis evicts the whole list.
Evict ==
    /\ "evict" \in Faults
    /\ queue # <<>>
    /\ queue' = <<>>
    /\ lost' = lost \cup Queued
    /\ byRedis' = byRedis \cup Queued
    /\ UNCHANGED <<phase, rec, flusher, flushAll, rows, copies, logged, unsure, resent, stops>>

\* What main does once it was told to stop.
Stopping ==
    \/ ShutdownReturns
    \/ FlushAllPop \/ FlushAllPopNothing \/ FlushAllPopReplyLost
    \/ FlushAllInsert \/ FlushAllInsertError \/ FlushAllInsertUnknown
    \/ Exit

Main == Signal \/ Stopping \/ Crash \/ Restart

Next == (\E r \in Records : Producer(r)) \/ Flusher \/ Main \/ Evict

Spec == Init /\ [][Next]_vars

(***************************************************************************)
(* The Go scheduler runs every goroutine that can run, the ticker fires    *)
(* for ever, docker restarts the process, and Redis and PostgreSQL do not  *)
(* fail for ever: an LPOP or an INSERT of a given entry that is attempted  *)
(* again and again succeeds.                                               *)
(***************************************************************************)
Fairness ==
    /\ \A r \in Records : /\ WF_vars(Respond(r)) /\ WF_vars(ExecIncr(r))
                          /\ WF_vars(ExecPush(r))
    /\ \A e \in Entries : SF_vars(FlushInsert /\ fitem = e)
    /\ WF_vars(Tick)
    /\ SF_vars(FlushPop)
    /\ WF_vars(FlushInsertError) /\ WF_vars(Requeue)
    /\ WF_vars(Stopping) /\ WF_vars(Restart)

FairSpec == Spec /\ Fairness

-----------------------------------------------------------------------------
(***************************************************************************)
(* Types; the flusher holds an entry exactly between LPOP and INSERT or    *)
(* RPUSH, FlushAll exactly between LPOP and INSERT, the worker's loop      *)
(* counter stays below the batch size, and no worker outlives the process. *)
(***************************************************************************)
TypeOK ==
    /\ phase \in {"running", "draining", "flushing", "exited"}
    /\ rec \in [Records -> RecSteps]
    /\ queue \in Seq(Entries)
    /\ fpc \in {"wait", "pop", "insert", "requeue", "stopped"}
    /\ fitem \in Entries \cup {NoEntry}
    /\ fpc \in {"insert", "requeue"} <=> fitem # NoEntry
    /\ phase = "exited" => fpc = "stopped"
    /\ fcount \in 0 .. Batch - 1
    /\ mpc \in {"off", "pop", "insert", "done"}
    /\ mitem \in Entries \cup {NoEntry}
    /\ mpc = "insert" <=> mitem # NoEntry
    /\ mpc # "off" => phase = "flushing"
    /\ rows \in [Entries -> Nat]
    /\ copies \in [Records -> 0 .. MaxCopies]
    /\ logged \subseteq Entries /\ lost \subseteq Entries
    /\ unsure \subseteq Entries /\ byRedis \subseteq Entries
    /\ resent \subseteq Records
    /\ stops \in 0 .. MaxStops

\* The five places an entry can be in exclude each other.
InOnePlace(e) ==
    /\ InQueue(e) => fitem # e /\ mitem # e /\ e \notin logged /\ e \notin lost
    /\ fitem = e => mitem # e /\ e \notin logged /\ e \notin lost
    /\ mitem = e => e \notin logged /\ e \notin lost
    /\ e \in logged => e \notin lost

\* An entry that was pushed, and no other, is in one of them.
Somewhere(e) ==
    Pushed(e) <=> InQueue(e) \/ fitem = e \/ mitem = e \/ e \in logged \/ e \in lost

QueuedOnce ==
    \A i, j \in 1 .. Len(queue) : queue[i] = queue[j] => i = j

(***************************************************************************)
(* Conservation of usage records: whatever faults, resends, crashes,       *)
(* restarts and shutdowns occur, and although the worker and FlushAll pop  *)
(* from the same list, every entry an RPUSH has added, each copy counted   *)
(* for itself, is at any time in exactly one place: in the queue, in the   *)
(* hand of the worker, in the hand of FlushAll, logged, or lost.           *)
(***************************************************************************)
Conservation == QueuedOnce /\ \A e \in Entries : InOnePlace(e) /\ Somewhere(e)

(***************************************************************************)
(* What puts a second row for one request into usage_logs: an entry yields *)
(* two rows only if PostgreSQL commits an INSERT of it that Create reports *)
(* as failed, and two entries of one record exist only if the Redis client *)
(* sent an executed RPUSH again.  Neither the worker and FlushAll popping  *)
(* side by side nor any requeueing, crash or restart does.  And a row is   *)
(* only there for a request whose cost was charged to the counters before. *)
(***************************************************************************)
LoggedAtMostOnce ==
    /\ \A e \in Entries : rows[e] > 1 => e \in unsure
    /\ \A d, e \in Entries :
          rows[d] > 0 /\ rows[e] > 0 /\ RecordOf(d) = RecordOf(e) /\ d # e =>
              RecordOf(d) \in resent
    /\ \A e \in Entries : rows[e] > 0 => rec[RecordOf(e)] \in {"half", "done"}

(***************************************************************************)
(* While the process runs, failing INSERTs and failing LPOPs lose nothing: *)
(* before the process is stopped for the first time an entry can be lost   *)
(* only with the answer to an LPOP, with a failed RPUSH or by an eviction. *)
(***************************************************************************)
NothingLostWhileUp ==
    stops = 0 => lost \subseteq byRedis

(***************************************************************************)
(* usage_logs only grows, and a logged entry never leaves it or returns    *)
(* to the queue: no step of any actor undoes a flush.                      *)
(***************************************************************************)
LoggedIsFinal ==
    [][\A e \in Entries :
          /\ rows'[e] >= rows[e]
          /\ e \in logged => e \in logged' /\ ~InQueue(e)']_vars

\* Some copy of the record has been logged.
Logged(r) == \E e \in logged : RecordOf(e) = r

\* An RPUSH of the record is due, or a copy of it is on its way.
OnItsWay(r) ==
    rec[r] = "half" \/ \E n \in 1 .. copies[r] : <<r, n>> \notin lost

\* What has become of a record, as UsageLedger sees it.
Fate(r) ==
    CASE rec[r] \in {"new", "handler", "pending"} -> "open"
      [] rec[r] = "dropped" -> "free"
      [] OTHER -> IF Logged(r) THEN "logged" ELSE IF OnItsWay(r) THEN "charged" ELSE "gone"

Ledger == INSTANCE UsageLedger WITH fate <- [r \in Records |-> Fate(r)]

(***************************************************************************)
(* The pipeline, the worker, FlushAll and main implement the ledger: a     *)
(* record is logged only after it was charged, and what is logged, or lost *)
(* with all its copies, stays so, through resends, retries, shutdowns,     *)
(* crashes and restarts.                                                   *)
(***************************************************************************)
ImplementsLedger == Ledger!Spec

\* The producer is through with the record, and each of its entries is in
\* usage_logs or is one of those that Conservation writes off.
Settled(r) ==
    /\ rec[r] \in {"done", "dropped", "unlogged"}
    /\ \A n \in 1 .. copies[r] : rows[<<r, n>>] > 0 \/ <<r, n>> \in lost

(***************************************************************************)
(* Every request that is served is eventually in usage_logs or written     *)
(* off by a fault, although INSERTs fail now and then, although the        *)
(* process stops and restarts, and although a record that PostgreSQL       *)
(* always rejects is in the queue with it: the re-queueing at the tail     *)
(* keeps that record from blocking the others.                             *)
(***************************************************************************)
EventuallySettled ==
    \A r \in Records \ Poison : rec[r] = "handler" ~> Settled(r)

(***************************************************************************)
(* What core/billing/service.go:56 says: "FlushAll drains all remaining    *)
(* usage logs (e.g. on shutdown)."  When the process has exited, every     *)
(* entry that was pushed is in usage_logs, or at least waits in Redis for  *)
(* the next process.                                                       *)
(***************************************************************************)
DrainedOnExit ==
    phase = "exited" =>
        \A e \in Entries : Pushed(e) => rows[e] > 0 \/ InQueue(e)

-----------------------------------------------------------------------------
\* What makes LoggedAtMostOnce inductive: a row comes from a pushed entry and a
\* reported INSERT, and only a resend makes a second copy or outlives the first.
RowsFromLogged ==
    \A e \in Entries :
        /\ e \notin unsure => rows[e] = IF e \in logged THEN 1 ELSE 0
        /\ rows[e] > 0 => Pushed(e)

CopiesFromResends ==
    \A r \in Records :
        /\ copies[r] > 0 => rec[r] = "done" \/ (rec[r] = "half" /\ r \in resent)
        /\ rec[r] = "done" => copies[r] > 0
        /\ copies[r] > 1 => r \in resent
        /\ rec[r] = "half" => copies[r] < MaxCopies

\* What makes NothingLostWhileUp inductive.
StopsCounted == phase # "running" => stops > 0

Inv ==
    /\ TypeOK /\ Conservation
    /\ RowsFromLogged /\ CopiesFromResends
    /\ StopsCounted /\ NothingLostWhileUp
=============================================================================
