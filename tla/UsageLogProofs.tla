--------------------------- MODULE UsageLogProofs ---------------------------
(***************************************************************************)
(* Conservation of usage records and the absence of loss and duplication,  *)
(* for any set of records, any batch size, any set of faults and any       *)
(* number of resends.                                                      *)
(***************************************************************************)
EXTENDS UsageLog, TLAPS

\* RPUSH adds exactly the pushed entry, once if it was not there.
LEMMA QueueAppend ==
    ASSUME queue \in Seq(Entries), NEW r \in Entries, queue' = Append(queue, r)
    PROVE  /\ queue' \in Seq(Entries)
           /\ \A x : InQueue(x)' <=> InQueue(x) \/ x = r
           /\ QueuedOnce /\ ~InQueue(r) => QueuedOnce'
<1>1. /\ queue' \in Seq(Entries)
      /\ Len(queue') = Len(queue) + 1
      /\ Len(queue) \in Nat
      /\ \A i \in 1 .. Len(queue) : queue'[i] = queue[i]
      /\ queue'[Len(queue) + 1] = r
  OBVIOUS
<1>2. \A x : InQueue(x)' <=> InQueue(x) \/ x = r
  BY <1>1 DEF InQueue
<1>3. ASSUME QueuedOnce, ~InQueue(r) PROVE QueuedOnce'
  BY <1>1, <1>3 DEF QueuedOnce, InQueue
<1> QED
  BY <1>1, <1>2, <1>3

\* LPOP removes exactly the head.
LEMMA QueueTail ==
    ASSUME queue \in Seq(Entries), queue # <<>>, QueuedOnce, queue' = Tail(queue)
    PROVE  /\ queue' \in Seq(Entries)
           /\ Head(queue) \in Entries
           /\ InQueue(Head(queue))
           /\ \A x : InQueue(x)' <=> InQueue(x) /\ x # Head(queue)
           /\ QueuedOnce'
<1>1. /\ queue' \in Seq(Entries)
      /\ Len(queue) \in Nat \ {0}
      /\ Len(queue') = Len(queue) - 1
      /\ \A i \in 1 .. Len(queue') : queue'[i] = queue[i + 1]
      /\ Head(queue) = queue[1]
      /\ Head(queue) \in Entries
  OBVIOUS
<1>2. InQueue(Head(queue))
  BY <1>1 DEF InQueue
<1>3. \A x : InQueue(x)' => InQueue(x) /\ x # Head(queue)
  BY <1>1 DEF InQueue, QueuedOnce
<1>4. ASSUME NEW x, InQueue(x), x # Head(queue) PROVE InQueue(x)'
  <2>1. PICK i \in 1 .. Len(queue) : queue[i] = x
    BY <1>4 DEF InQueue
  <2>2. i - 1 \in 1 .. Len(queue') /\ queue'[i - 1] = x
    BY <1>1, <1>4, <2>1
  <2> QED BY <2>2 DEF InQueue
<1>5. QueuedOnce'
  BY <1>1 DEF QueuedOnce
<1> QED
  BY <1>1, <1>2, <1>3, <1>4, <1>5

\* The entry an RPUSH adds is a new one, and no other becomes a pushed one.
LEMMA PushAdds ==
    ASSUME Inv, NEW r \in Records, copies[r] < MaxCopies, Push(r)
    PROVE  /\ queue' \in Seq(Entries) /\ QueuedOnce'
           /\ NextCopy(r) \in Entries /\ ~Pushed(NextCopy(r))
           /\ \A x : InQueue(x)' <=> InQueue(x) \/ x = NextCopy(r)
           /\ \A x \in Entries : Pushed(x)' <=> Pushed(x) \/ x = NextCopy(r)
           /\ copies' \in [Records -> 0 .. MaxCopies]
           /\ copies' = [copies EXCEPT ![r] = @ + 1]
<1>1. copies \in [Records -> 0 .. MaxCopies] /\ queue \in Seq(Entries) /\ QueuedOnce
  BY DEF Inv, TypeOK, Conservation
<1>2. NextCopy(r) \in Entries /\ ~Pushed(NextCopy(r))
  BY <1>1, BoundsAssumption DEF NextCopy, Entries, Pushed, RecordOf
<1>3. ~InQueue(NextCopy(r))
  BY <1>2 DEF Inv, Conservation, Somewhere
<1>4. queue' = Append(queue, NextCopy(r))
  BY DEF Push
<1>5. /\ queue' \in Seq(Entries) /\ QueuedOnce'
      /\ \A x : InQueue(x)' <=> InQueue(x) \/ x = NextCopy(r)
  BY <1>1, <1>2, <1>3, <1>4, QueueAppend
<1>6. copies' \in [Records -> 0 .. MaxCopies] /\ copies' = [copies EXCEPT ![r] = @ + 1]
  BY <1>1, BoundsAssumption DEF Push
<1>7. ASSUME NEW x \in Entries PROVE Pushed(x)' <=> Pushed(x) \/ x = NextCopy(r)
  <2>1. x[1] \in Records /\ x[2] \in Nat /\ x = <<x[1], x[2]>>
    BY BoundsAssumption DEF Entries
  <2>2. CASE x[1] = r
    BY <1>1, <1>6, <2>1, <2>2 DEF Pushed, RecordOf, NextCopy
  <2>3. CASE x[1] # r
    BY <1>1, <1>6, <2>1, <2>3 DEF Pushed, RecordOf, NextCopy
  <2> QED BY <2>2, <2>3
<1> QED
  BY <1>2, <1>5, <1>6, <1>7

-----------------------------------------------------------------------------
LEMMA InitInv == Init => Inv
<1> SUFFICES ASSUME Init PROVE Inv
  OBVIOUS
<1>1. \A e \in Entries : RecordOf(e) \in Records /\ e[2] \in 1 .. MaxCopies
  BY DEF Entries, RecordOf
<1>2. \A e \in Entries : ~Pushed(e) /\ ~InQueue(e) /\ rows[e] = 0
  BY <1>1, BoundsAssumption DEF Init, Pushed, InQueue
<1>3. TypeOK
  BY EntryAssumption, BatchAssumption, BoundsAssumption DEF Init, TypeOK, RecSteps
<1>4. Conservation
  BY <1>2, EntryAssumption DEF Init, Conservation, QueuedOnce, InOnePlace, Somewhere
<1>5. RowsFromLogged /\ CopiesFromResends /\ StopsCounted /\ NothingLostWhileUp
  BY <1>2, BoundsAssumption
  DEF Init, RowsFromLogged, CopiesFromResends, StopsCounted, NothingLostWhileUp
<1> QED
  BY <1>3, <1>4, <1>5 DEF Inv

\* The steps of a producer that push nothing touch only rec.
LEMMA ProducerInv ==
    ASSUME Inv, NEW r \in Records,
           Accept(r) \/ Respond(r) \/ ExecIncr(r) \/ ExecError(r)
    PROVE  Inv'
<1> USE DEF Accept, Respond, ExecIncr, ExecError, flusher, flushAll, history
<1>1. rec' \in [Records -> RecSteps]
  BY DEF Inv, TypeOK, RecSteps
<1>2. TypeOK'
  BY <1>1 DEF Inv, TypeOK
<1>3. Conservation'
  BY DEF Inv, Conservation, QueuedOnce, InOnePlace, Somewhere, InQueue, Pushed
<1>4. RowsFromLogged' /\ StopsCounted' /\ NothingLostWhileUp'
  BY DEF Inv, RowsFromLogged, Pushed, StopsCounted, NothingLostWhileUp
<1>5. CopiesFromResends'
  BY BoundsAssumption DEF Inv, TypeOK, CopiesFromResends
<1> QED BY <1>2, <1>3, <1>4, <1>5 DEF Inv

\* An RPUSH that adds an entry: of the pipeline, or resent by it or by the worker.
LEMMA PushInv ==
    ASSUME Inv, NEW r \in Records,
           ExecPush(r) \/ ExecAgain(r) \/ (RequeueAgain /\ r = RecordOf(fitem))
    PROVE  Inv'
<1> USE DEF ExecPush, ExecAgain, RequeueAgain, flusher, flushAll
<1>1. copies[r] < MaxCopies /\ Push(r) /\ copies \in [Records -> 0 .. MaxCopies]
  BY BoundsAssumption DEF Inv, TypeOK, CopiesFromResends, Spare
<1>2. PICK p : p = NextCopy(r)
  OBVIOUS
<1>3. /\ queue' \in Seq(Entries) /\ QueuedOnce'
      /\ p \in Entries /\ ~Pushed(p)
      /\ \A x : InQueue(x)' <=> InQueue(x) \/ x = p
      /\ \A x \in Entries : Pushed(x)' <=> Pushed(x) \/ x = p
      /\ copies' \in [Records -> 0 .. MaxCopies]
      /\ copies' = [copies EXCEPT ![r] = @ + 1]
  BY <1>1, <1>2, PushAdds
<1>4. /\ logged' = logged /\ lost' = lost /\ fitem' = fitem /\ mitem' = mitem
      /\ rows' = rows /\ unsure' = unsure /\ byRedis' = byRedis /\ stops' = stops
      /\ phase' = phase /\ fpc' = fpc /\ mpc' = mpc /\ fcount' = fcount
  OBVIOUS
<1>5. /\ rec' \in [Records -> RecSteps]
      /\ resent' \subseteq Records
  BY DEF Inv, TypeOK, RecSteps
<1>6. TypeOK'
  BY <1>3, <1>4, <1>5 DEF Inv, TypeOK
<1>7. Conservation'
  <2>1. fitem # p /\ mitem # p /\ p \notin logged /\ p \notin lost
    BY <1>3 DEF Inv, Conservation, Somewhere
  <2>2. ASSUME NEW e \in Entries PROVE InOnePlace(e)' /\ Somewhere(e)'
    BY <1>3, <1>4, <2>1 DEF Inv, Conservation, InOnePlace, Somewhere
  <2> QED BY <1>3, <2>2 DEF Conservation
<1>8. RowsFromLogged' /\ StopsCounted' /\ NothingLostWhileUp'
  BY <1>3, <1>4 DEF Inv, RowsFromLogged, StopsCounted, NothingLostWhileUp
<1>9. CopiesFromResends'
  <2> SUFFICES ASSUME NEW q \in Records
               PROVE  /\ copies'[q] > 0 => rec'[q] = "done" \/ (rec'[q] = "half" /\ q \in resent')
                      /\ rec'[q] = "done" => copies'[q] > 0
                      /\ copies'[q] > 1 => q \in resent'
                      /\ rec'[q] = "half" => copies'[q] < MaxCopies
    BY DEF CopiesFromResends
  <2>0. rec \in [Records -> RecSteps] /\ resent \subseteq resent'
    BY DEF Inv, TypeOK
  <2>1. CASE q # r
    BY <1>3, <2>0, <2>1 DEF Inv, CopiesFromResends
  <2>2. CASE q = r /\ ExecPush(r)
    BY <1>1, <1>3, <2>0, <2>2 DEF Inv, CopiesFromResends
  <2>3. CASE q = r /\ ExecAgain(r)
    BY <1>1, <1>3, <2>0, <2>3, BoundsAssumption DEF Inv, CopiesFromResends, Spare
  <2>4. CASE q = r /\ RequeueAgain /\ r = RecordOf(fitem)
    <3>1. fitem \in Entries /\ Pushed(fitem)
      BY <2>4 DEF Inv, TypeOK, Conservation, Somewhere
    <3>2. copies[r] > 0
      BY <1>1, <2>4, <3>1 DEF Pushed, RecordOf, Entries
    <3>3. rec'[r] = rec[r] /\ r \in resent' /\ copies'[r] = copies[r] + 1
      BY <1>1, <1>3, <2>4
    <3>4. rec[r] = "half" => copies[r] + 1 < MaxCopies
      BY <1>1, <2>4 DEF Spare
    <3> QED
      BY <1>1, <2>4, <3>2, <3>3, <3>4 DEF Inv, CopiesFromResends
  <2> QED BY <2>1, <2>2, <2>3, <2>4
<1> QED
  BY <1>6, <1>7, <1>8, <1>9 DEF Inv

\* Taking an entry from the queue, by the worker or by FlushAll.
LEMMA PopInv ==
    ASSUME Inv,
           FlushPop \/ FlushPopReplyLost \/ FlushAllPop \/ FlushAllPopReplyLost
    PROVE  Inv'
<1> DEFINE h == Head(queue)
<1> USE DEF FlushPop, FlushPopReplyLost, FlushAllPop, FlushAllPopReplyLost,
        FlusherSleeps, flusher, flushAll, history
<1>1. /\ queue' \in Seq(Entries)
      /\ h \in Entries
      /\ InQueue(h)
      /\ \A x : InQueue(x)' <=> InQueue(x) /\ x # h
      /\ QueuedOnce'
  BY QueueTail DEF Inv, TypeOK, Conservation
<1> HIDE DEF h
<1>2. \/ fitem' = h /\ mitem' = mitem /\ lost' = lost
      \/ fitem' = NoEntry /\ mitem' = mitem /\ lost' = lost \cup {h}
      \/ fitem' = fitem /\ mitem' = h /\ lost' = lost
      \/ fitem' = fitem /\ mitem' = mitem /\ lost' = lost \cup {h}
  BY DEF h
<1>3. /\ rec' = rec /\ logged' = logged /\ rows' = rows /\ stops' = stops /\ phase' = phase
      /\ fitem' # fitem => fitem = NoEntry
      /\ mitem' # mitem => mitem = NoEntry
  BY DEF Inv, TypeOK
<1>4. TypeOK'
  BY <1>1, EntryAssumption, BatchAssumption DEF Inv, TypeOK, h
<1>5. Conservation'
  BY <1>1, <1>2, <1>3, EntryAssumption
  DEF Inv, TypeOK, Conservation, InOnePlace, Somewhere, Pushed
<1>6. RowsFromLogged' /\ StopsCounted'
  BY <1>3 DEF Inv, RowsFromLogged, Pushed, StopsCounted
<1>7. NothingLostWhileUp'
  BY DEF Inv, TypeOK, NothingLostWhileUp, StopsCounted
<1>c. CopiesFromResends'
  BY DEF Inv, CopiesFromResends
<1> QED
  BY <1>4, <1>5, <1>6, <1>7, <1>c DEF Inv

\* An INSERT that is reported successful.
LEMMA InsertInv ==
    ASSUME Inv, FlushInsert \/ FlushAllInsert
    PROVE  Inv'
<1> USE DEF FlushInsert, FlushAllInsert, FlusherSleeps, flusher, flushAll, history
<1> DEFINE Logs(r) ==
             /\ \/ fitem = r /\ fitem' = NoEntry /\ mitem' = mitem
                \/ mitem = r /\ mitem' = NoEntry /\ fitem' = fitem
             /\ logged' = logged \cup {r}
             /\ rows' = [rows EXCEPT ![r] = @ + 1]
<1>a. FlushInsert => fitem \in Entries /\ Logs(fitem)
  BY DEF Inv, TypeOK
<1>b. FlushAllInsert => mitem \in Entries /\ Logs(mitem)
  BY DEF Inv, TypeOK
<1>1. PICK r \in Entries : Logs(r)
  BY <1>a, <1>b
<1>2. /\ queue' = queue /\ rec' = rec /\ lost' = lost /\ stops' = stops /\ phase' = phase
      /\ copies' = copies
  OBVIOUS
<1>3. TypeOK'
  <2>1. fcount' \in 0 .. Batch - 1
    BY BatchAssumption DEF Inv, TypeOK
  <2> QED
    BY <1>1, <1>2, <2>1, EntryAssumption DEF Inv, TypeOK
<1>4. Conservation'
  <2> HIDE DEF FlushInsert, FlushAllInsert
  <2>1. QueuedOnce'
    BY <1>2 DEF Inv, Conservation, QueuedOnce
  <2>2. ASSUME NEW e \in Entries
        PROVE  /\ InQueue(e)' <=> InQueue(e)
               /\ Pushed(e)' <=> Pushed(e)
               /\ InOnePlace(e) /\ Somewhere(e)
    BY <1>2 DEF Inv, Conservation, InQueue, Pushed
  <2>3. ASSUME NEW e \in Entries, e # r
        PROVE  InOnePlace(e)' /\ Somewhere(e)'
    BY <1>1, <1>2, <2>2, <2>3, EntryAssumption DEF InOnePlace, Somewhere
  <2>4. InOnePlace(r)' /\ Somewhere(r)'
    BY <1>1, <1>2, <2>2, EntryAssumption DEF InOnePlace, Somewhere
  <2> QED
    BY <2>1, <2>3, <2>4 DEF Conservation
<1>5. RowsFromLogged'
  BY <1>1, <1>2 DEF Inv, TypeOK, Conservation, InOnePlace, Somewhere, RowsFromLogged, Pushed
<1>6. StopsCounted' /\ NothingLostWhileUp'
  BY <1>2 DEF Inv, StopsCounted, NothingLostWhileUp
<1>c. CopiesFromResends'
  BY DEF Inv, CopiesFromResends
<1> QED
  BY <1>3, <1>4, <1>5, <1>6, <1>c DEF Inv

\* The entry goes back to the tail.
LEMMA RequeueInv ==
    ASSUME Inv, Requeue
    PROVE  Inv'
<1> USE DEF Requeue, FlusherSleeps, flushAll, history
<1>1. fitem \in Entries /\ ~InQueue(fitem) /\ QueuedOnce
  BY DEF Inv, TypeOK, Conservation, InOnePlace
<1>2. /\ queue' \in Seq(Entries)
      /\ \A x : InQueue(x)' <=> InQueue(x) \/ x = fitem
      /\ QueuedOnce'
  BY <1>1, QueueAppend DEF Inv, TypeOK
<1>3. TypeOK'
  BY <1>2, BatchAssumption DEF Inv, TypeOK
<1>4. Conservation'
  BY <1>1, <1>2, EntryAssumption DEF Inv, TypeOK, Conservation, InOnePlace, Somewhere, Pushed
<1>5. RowsFromLogged' /\ StopsCounted' /\ NothingLostWhileUp'
  BY DEF Inv, RowsFromLogged, Pushed, StopsCounted, NothingLostWhileUp
<1>c. CopiesFromResends'
  BY DEF Inv, CopiesFromResends
<1> QED
  BY <1>3, <1>4, <1>5, <1>c DEF Inv

\* An entry in hand is dropped, by the worker or by FlushAll.
LEMMA DropInv ==
    ASSUME Inv, RequeueError \/ FlushAllInsertError \/ FlushAllInsertUnknown
    PROVE  Inv'
<1> USE DEF RequeueError, FlushAllInsertError, FlushAllInsertUnknown, FlusherSleeps,
        flusher, flushAll, history, Cancelled, Up
<1> DEFINE Drops(r) ==
             /\ \/ fitem = r /\ fitem' = NoEntry /\ mitem' = mitem
                \/ mitem = r /\ mitem' = NoEntry /\ fitem' = fitem
             /\ lost' = lost \cup {r}
             /\ \/ rows' = rows /\ unsure' = unsure
                \/ unsure' = unsure \cup {r} /\ rows' = [rows EXCEPT ![r] = @ + 1]
<1>a. RequeueError => fitem \in Entries /\ Drops(fitem)
  BY DEF Inv, TypeOK
<1>b. FlushAllInsertError => mitem \in Entries /\ Drops(mitem)
  BY DEF Inv, TypeOK
<1>d. FlushAllInsertUnknown => mitem \in Entries /\ Drops(mitem)
  BY DEF Inv, TypeOK
<1>1. PICK r \in Entries : Drops(r)
  BY <1>a, <1>b, <1>d
<1>2. queue' = queue /\ rec' = rec /\ logged' = logged /\ stops' = stops /\ phase' = phase
  OBVIOUS
<1>3. TypeOK'
  BY <1>1, <1>2, EntryAssumption, BatchAssumption DEF Inv, TypeOK
<1>4. Conservation'
  BY <1>1, <1>2, EntryAssumption
  DEF Inv, TypeOK, Conservation, QueuedOnce, InOnePlace, Somewhere, Pushed, InQueue
<1>5. RowsFromLogged'
  BY <1>1, <1>2 DEF Inv, TypeOK, Conservation, Somewhere, RowsFromLogged, Pushed
<1>6. StopsCounted' /\ NothingLostWhileUp'
  BY <1>2 DEF Inv, TypeOK, StopsCounted, NothingLostWhileUp
<1>c. CopiesFromResends'
  BY DEF Inv, CopiesFromResends
<1> QED
  BY <1>3, <1>4, <1>5, <1>6, <1>c DEF Inv

\* Steps of the worker and of main that move no entry.
LEMMA QuietInv ==
    ASSUME Inv,
           \/ Tick \/ WorkerReturns \/ FlushPopNothing \/ FlushInsertError
           \/ FlushInsertUnknown \/ FlushAllPopNothing
           \/ Signal \/ ShutdownReturns \/ Restart
    PROVE  Inv'
<1> USE DEF Tick, WorkerReturns, FlushPopNothing, FlushInsertError, FlushInsertUnknown,
        FlushAllPopNothing, Signal, ShutdownReturns, Restart, FlusherSleeps, flusher,
        flushAll, history, Cancelled, Up
<1>1. /\ queue' = queue /\ rec' = rec /\ logged' = logged /\ lost' = lost
      /\ fitem' = fitem /\ mitem' = mitem
      /\ \/ rows' = rows /\ unsure' = unsure
         \/ /\ unsure' = unsure \cup {fitem} /\ fitem \in Entries
            /\ rows' = [rows EXCEPT ![fitem] = @ + 1]
  BY DEF Inv, TypeOK
<1>2. TypeOK'
  <2>1. rows' \in [Entries -> Nat]
    BY <1>1 DEF Inv, TypeOK
  <2>2. fcount' = fcount \/ fcount' = 0
    OBVIOUS
  <2>3. stops' = stops \/ (stops < MaxStops /\ stops' = stops + 1)
    OBVIOUS
  <2>4. fcount' \in 0 .. Batch - 1 /\ stops' \in 0 .. MaxStops
    BY <2>2, <2>3, BatchAssumption, BoundsAssumption DEF Inv, TypeOK
  <2>5. /\ phase' \in {"running", "draining", "flushing", "exited"}
        /\ fpc' \in {"wait", "pop", "insert", "requeue", "stopped"}
        /\ fpc' \in {"insert", "requeue"} <=> fitem' # NoEntry
        /\ mpc' \in {"off", "pop", "insert", "done"}
        /\ mpc' = "insert" <=> mitem' # NoEntry
        /\ mpc' # "off" => phase' = "flushing"
        /\ phase' = "exited" => fpc' = "stopped"
    BY <1>1 DEF Inv, TypeOK
  <2> QED
    BY <1>1, <2>1, <2>4, <2>5 DEF Inv, TypeOK
<1>3. Conservation'
  BY <1>1 DEF Inv, Conservation, QueuedOnce, InOnePlace, Somewhere, Pushed, InQueue
<1>4. RowsFromLogged'
  BY <1>1 DEF Inv, TypeOK, Conservation, Somewhere, RowsFromLogged, Pushed
<1>5. StopsCounted' /\ NothingLostWhileUp'
  BY <1>1 DEF Inv, TypeOK, StopsCounted, NothingLostWhileUp
<1>c. CopiesFromResends'
  BY DEF Inv, CopiesFromResends
<1> QED
  BY <1>2, <1>3, <1>4, <1>5, <1>c DEF Inv

\* An eviction: what was queued, and nothing else, is lost.
LEMMA EvictInv ==
    ASSUME Inv, Evict
    PROVE  Inv'
<1> USE DEF Evict, flusher, flushAll
<1>1. /\ queue' = <<>> /\ lost' = lost \cup Queued /\ byRedis' = byRedis \cup Queued
      /\ rec' = rec /\ logged' = logged /\ rows' = rows /\ stops' = stops
      /\ phase' = phase /\ fitem' = fitem /\ mitem' = mitem /\ unsure' = unsure
  OBVIOUS
<1>2. queue' \in Seq(Entries) /\ QueuedOnce' /\ \A x : ~InQueue(x)'
  BY <1>1 DEF QueuedOnce, InQueue
<1>3. TypeOK'
  BY <1>1, <1>2 DEF Inv, TypeOK, Queued
<1>4. Conservation'
  BY <1>1, <1>2 DEF Inv, Conservation, InOnePlace, Somewhere, Pushed, Queued
<1>5. RowsFromLogged' /\ StopsCounted' /\ NothingLostWhileUp'
  BY <1>1 DEF Inv, RowsFromLogged, Pushed, StopsCounted, NothingLostWhileUp
<1>c. CopiesFromResends'
  BY DEF Inv, CopiesFromResends
<1> QED
  BY <1>3, <1>4, <1>5, <1>c DEF Inv

\* The process ends: what the worker and FlushAll hold is lost.
LEMMA EndInv ==
    ASSUME Inv, Exit \/ Crash
    PROVE  Inv'
<1> USE DEF Exit, Crash, ProcessEnds
<1>1. /\ queue' = queue /\ rows' = rows /\ logged' = logged
      /\ fitem' = NoEntry /\ mitem' = NoEntry /\ phase' = "exited"
      /\ lost' = lost \cup ({fitem, mitem} \ {NoEntry})
  OBVIOUS
<1>2. copies' = copies /\ resent' = resent /\ rec \in [Records -> RecSteps]
  BY DEF Inv, TypeOK
<1>3. TypeOK'
  <2>1. rec' \in [Records -> RecSteps]
    BY DEF Inv, TypeOK, RecSteps
  <2>2. stops' \in 0 .. MaxStops /\ fcount' \in 0 .. Batch - 1
    BY BatchAssumption, BoundsAssumption DEF Inv, TypeOK
  <2>3. lost' \subseteq Entries
    BY <1>1 DEF Inv, TypeOK
  <2> QED
    BY <2>1, <2>2, <2>3 DEF Inv, TypeOK
<1>4. Conservation'
  BY <1>1, <1>2, EntryAssumption
  DEF Inv, TypeOK, Conservation, QueuedOnce, InOnePlace, Somewhere, Pushed, InQueue
<1>5. RowsFromLogged'
  BY <1>1, <1>2 DEF Inv, RowsFromLogged, Pushed
<1>6. stops' > 0
  BY BoundsAssumption DEF Inv, TypeOK, StopsCounted
<1>7. StopsCounted' /\ NothingLostWhileUp'
  BY <1>6 DEF StopsCounted, NothingLostWhileUp
<1>c. CopiesFromResends'
  BY DEF Inv, CopiesFromResends
<1> QED
  BY <1>3, <1>4, <1>5, <1>7, <1>c DEF Inv

LEMMA NextInv == Inv /\ [Next]_vars => Inv'
<1> SUFFICES ASSUME Inv, [Next]_vars PROVE Inv'
  OBVIOUS
<1>1. CASE UNCHANGED vars
  BY <1>1 DEF vars, flusher, flushAll, history, Inv, TypeOK, Conservation, QueuedOnce,
     InOnePlace, Somewhere, InQueue, Pushed, RowsFromLogged, CopiesFromResends,
     StopsCounted, NothingLostWhileUp
<1>2. CASE \E r \in Records : Producer(r)
  BY <1>2, ProducerInv, PushInv DEF Producer
<1>3. CASE Flusher
  <2>1. CASE RequeueAgain
    <3>1. fitem \in Entries
      BY <2>1 DEF RequeueAgain, Inv, TypeOK
    <3>2. RecordOf(fitem) \in Records
      BY <3>1 DEF RecordOf, Entries
    <3> QED BY <2>1, <3>2, PushInv
  <2> QED
    BY <1>3, <2>1, PopInv, InsertInv, RequeueInv, DropInv, QuietInv DEF Flusher
<1>4. CASE Main
  BY <1>4, PopInv, InsertInv, DropInv, QuietInv, EndInv DEF Main, Stopping
<1>5. CASE Evict
  BY <1>5, EvictInv
<1> QED
  BY <1>1, <1>2, <1>3, <1>4, <1>5 DEF Next

-----------------------------------------------------------------------------
\* The whole inductive invariant always holds.
THEOREM InvariantHolds == Spec => []Inv
  BY InitInv, NextInv, PTL DEF Spec

\* The state keeps its types, and exactly the steps between LPOP and INSERT or
\* RPUSH hold an entry.
THEOREM TypeCorrect == Spec => []TypeOK
<1>1. Inv => TypeOK
  BY DEF Inv
<1> QED
  BY <1>1, InvariantHolds, PTL

\* Every pushed entry is in exactly one place, under any faults, crashes and
\* restarts, whatever the worker and FlushAll do at the same time.
THEOREM RecordsConserved == Spec => []Conservation
<1>1. Inv => Conservation
  BY DEF Inv
<1> QED
  BY <1>1, InvariantHolds, PTL

\* A second row of a usage record comes from a committed INSERT that was reported
\* failed or from an executed RPUSH that was sent again, and from nothing else.
THEOREM NoDoubleLogging == Spec => []LoggedAtMostOnce
<1>1. Inv => LoggedAtMostOnce
  <2> SUFFICES ASSUME Inv PROVE LoggedAtMostOnce
    OBVIOUS
  <2>1. \A e \in Entries : RecordOf(e) \in Records /\ e[2] \in 1 .. MaxCopies
                           /\ e = <<RecordOf(e), e[2]>>
    BY DEF Entries, RecordOf
  <2>2. \A e \in Entries : rows[e] > 0 => Pushed(e)
    BY DEF Inv, RowsFromLogged
  <2>3. copies \in [Records -> 0 .. MaxCopies]
    BY DEF Inv, TypeOK
  <2>4. ASSUME NEW e \in Entries, rows[e] > 1 PROVE e \in unsure
    BY <2>4 DEF Inv, RowsFromLogged
  <2>5. ASSUME NEW e \in Entries, rows[e] > 0 PROVE rec[RecordOf(e)] \in {"half", "done"}
    <3>1. copies[RecordOf(e)] > 0
      BY <2>1, <2>2, <2>3, <2>5, BoundsAssumption DEF Pushed
    <3> QED BY <2>1, <3>1 DEF Inv, CopiesFromResends
  <2>6. ASSUME NEW d \in Entries, NEW e \in Entries, rows[d] > 0, rows[e] > 0,
               RecordOf(d) = RecordOf(e), d # e
        PROVE  RecordOf(d) \in resent
    <3>1. d[2] # e[2] /\ d[2] <= copies[RecordOf(d)] /\ e[2] <= copies[RecordOf(d)]
      BY <2>1, <2>2, <2>6 DEF Pushed
    <3>2. copies[RecordOf(d)] > 1
      BY <2>1, <2>3, <3>1, BoundsAssumption
    <3> QED BY <2>1, <3>2 DEF Inv, CopiesFromResends
  <2> QED
    BY <2>4, <2>5, <2>6 DEF LoggedAtMostOnce
<1> QED
  BY <1>1, InvariantHolds, PTL

\* Failing INSERTs and LPOPs lose nothing while the process runs.
THEOREM NoLossWhileUp == Spec => []NothingLostWhileUp
<1>1. Inv => NothingLostWhileUp
  BY DEF Inv
<1> QED
  BY <1>1, InvariantHolds, PTL

\* A logged entry stays logged and never returns to the queue.
THEOREM LoggedForGood == Spec => LoggedIsFinal
<1> DEFINE A == \A e \in Entries :
                   /\ rows'[e] >= rows[e]
                   /\ e \in logged => e \in logged' /\ ~InQueue(e)'
<1>1. Inv /\ Inv' /\ [Next]_vars => [A]_vars
  <2> SUFFICES ASSUME Inv, Inv', Next, NEW r \in Entries
               PROVE  rows'[r] >= rows[r] /\ (r \in logged => r \in logged' /\ ~InQueue(r)')
    BY DEF vars
  <2>0. rows \in [Entries -> Nat]
    BY DEF Inv, TypeOK
  <2>a. ASSUME FlushInsert \/ FlushInsertUnknown \/ FlushAllInsert \/ FlushAllInsertUnknown
        PROVE  rows'[r] >= rows[r] /\ (r \in logged => r \in logged')
    BY <2>0, <2>a DEF FlushInsert, FlushInsertUnknown, FlushAllInsert, FlushAllInsertUnknown
  <2>b. ASSUME ~(FlushInsert \/ FlushInsertUnknown \/ FlushAllInsert \/ FlushAllInsertUnknown)
        PROVE  rows'[r] >= rows[r] /\ (r \in logged => r \in logged')
    <3>1. UNCHANGED <<rows, logged>>
      BY <2>b DEF Next, Producer, Flusher, Main, Stopping, Accept, Respond, ExecIncr,
         ExecPush, ExecAgain, ExecError, Tick, WorkerReturns, FlushPop, FlushPopNothing,
         FlushPopReplyLost, FlushInsertError, Requeue, RequeueAgain, RequeueError, Signal,
         ShutdownReturns, FlushAllPop, FlushAllPopNothing, FlushAllPopReplyLost,
         FlushAllInsertError, Exit, Crash, Restart, ProcessEnds, Evict, history
    <3> QED BY <2>0, <3>1
  <2>1. rows'[r] >= rows[r] /\ (r \in logged => r \in logged')
    BY <2>0, <2>a, <2>b
  <2>2. r \in logged' => ~InQueue(r)'
    BY DEF Inv, Conservation, InOnePlace
  <2> QED
    BY <2>1, <2>2
<1> QED
  BY <1>1, InvariantHolds, PTL DEF Spec, LoggedIsFinal

-----------------------------------------------------------------------------
(* The pipeline implements the ledger. *)

\* A step that frees or loses some records, and changes no other fate, is a Lose.
LEMMA Losing ==
    ASSUME \A r \in Records : \/ Fate(r)' = Fate(r)
                              \/ Fate(r) = "open" /\ Fate(r)' = "free"
                              \/ Fate(r) = "charged" /\ Fate(r)' = "gone"
    PROVE  Ledger!Next
<1> DEFINE S == {r \in Records : Fate(r)' # Fate(r)}
<1>1. S \in SUBSET Records
  OBVIOUS
<1>2. Ledger!Lose(S)
  BY DEF Ledger!Lose
<1> QED
  BY <1>1, <1>2 DEF Ledger!Next

\* A step that changes the fate of one record as Charge and Log do.
LEMMA Moving ==
    ASSUME NEW r \in Records,
           \/ Fate(r) = "open" /\ Fate(r)' = "charged"
           \/ Fate(r) = "charged" /\ Fate(r)' = "logged",
           \A q \in Records \ {r} : Fate(q)' = Fate(q)
    PROVE  Ledger!Next
<1>1. Ledger!Charge(r) \/ Ledger!Log(r)
  BY DEF Ledger!Charge, Ledger!Log
<1> QED
  BY <1>1 DEF Ledger!Next

LEMMA Staying ==
    ASSUME \A r \in Records : Fate(r)' = Fate(r)
    PROVE  UNCHANGED [r \in Records |-> Fate(r)]
  OBVIOUS

\* The fate of a record is read from these variables.
LEMMA QuietStep ==
    ASSUME UNCHANGED <<rec, copies, logged, lost>>
    PROVE  \A q \in Records : Fate(q)' = Fate(q)
  BY DEF Fate, Logged, OnItsWay

\* A pushed entry's record is charged; it has a fate beyond that only if a copy is
\* logged, or all are lost.
LEMMA PushedCharged ==
    ASSUME Inv, NEW e \in Entries, Pushed(e)
    PROVE  /\ RecordOf(e) \in Records
           /\ rec[RecordOf(e)] \in {"half", "done"}
           /\ e = <<RecordOf(e), e[2]>> /\ e[2] \in 1 .. copies[RecordOf(e)]
<1>1. /\ RecordOf(e) \in Records /\ e[2] \in 1 .. MaxCopies
      /\ e = <<RecordOf(e), e[2]>>
  BY DEF Entries, RecordOf
<1>2. copies[RecordOf(e)] \in 0 .. MaxCopies
  BY <1>1 DEF Inv, TypeOK
<1>3. e[2] \in 1 .. copies[RecordOf(e)] /\ copies[RecordOf(e)] > 0
  BY <1>1, <1>2, BoundsAssumption DEF Pushed
<1> QED
  BY <1>1, <1>3 DEF Inv, CopiesFromResends

\* A record without copies has none that is logged.
LEMMA UnpushedUnlogged ==
    ASSUME Inv, NEW r \in Records, copies[r] = 0
    PROVE  ~Logged(r)
<1> SUFFICES ASSUME NEW e \in logged, RecordOf(e) = r PROVE FALSE
  BY DEF Logged
<1>1. e \in Entries /\ Pushed(e)
  BY DEF Inv, TypeOK, Conservation, Somewhere
<1> QED
  BY <1>1, PushedCharged

\* The steps of a producer that push nothing.
LEMMA ProducerStep ==
    ASSUME Inv, NEW r \in Records, Accept(r) \/ Respond(r) \/ ExecIncr(r) \/ ExecError(r)
    PROVE  [Ledger!Next]_[q \in Records |-> Fate(q)]
<1> USE DEF Accept, Respond, ExecIncr, ExecError, history
<1>1. rec \in [Records -> RecSteps] /\ UNCHANGED <<copies, logged, lost>>
  BY DEF Inv, TypeOK
<1>2. \A q \in Records \ {r} : Fate(q)' = Fate(q)
  BY <1>1 DEF Fate, Logged, OnItsWay
<1>3. rec[r] = "pending" => copies[r] = 0
  BY DEF Inv, TypeOK, CopiesFromResends
<1>4. CASE Accept(r) \/ Respond(r)
  <2>1. Fate(r)' = Fate(r)
    BY <1>1, <1>4 DEF Fate
  <2> QED BY <1>2, <2>1, Staying
<1>5. CASE ExecIncr(r)
  <2>1. rec'[r] = "half" /\ ~Logged(r)' /\ OnItsWay(r)'
    BY <1>1, <1>3, <1>5, UnpushedUnlogged DEF Logged, OnItsWay
  <2>2. Fate(r) = "open" /\ Fate(r)' = "charged"
    BY <1>5, <2>1 DEF Fate
  <2> QED BY <1>2, <2>2, Moving
<1>6. CASE ExecError(r) /\ rec[r] = "pending"
  <2>1. Fate(r) = "open" /\ Fate(r)' = "free"
    BY <1>1, <1>6 DEF Fate
  <2> QED BY <1>2, <2>1, Losing
<1>7. CASE ExecError(r) /\ rec[r] = "half"
  <2>1. OnItsWay(r) /\ rec'[r] \in {"unlogged", "done"} /\ (Logged(r)' <=> Logged(r))
    BY <1>1, <1>7 DEF OnItsWay, Logged
  <2>2. \/ Fate(r)' = Fate(r)
        \/ Fate(r) = "charged" /\ Fate(r)' = "gone"
    BY <1>7, <2>1 DEF Fate
  <2> QED BY <1>2, <2>2, Losing
<1> QED
  BY <1>4, <1>5, <1>6, <1>7

\* Another copy in the queue changes no fate.
LEMMA PushingStep ==
    ASSUME Inv, NEW r \in Records,
           ExecPush(r) \/ ExecAgain(r) \/ (RequeueAgain /\ r = RecordOf(fitem))
    PROVE  [Ledger!Next]_[q \in Records |-> Fate(q)]
<1> USE DEF ExecPush, ExecAgain, RequeueAgain
<1>1. /\ copies' = [copies EXCEPT ![r] = @ + 1] /\ UNCHANGED <<logged, lost>>
      /\ copies \in [Records -> 0 .. MaxCopies] /\ rec \in [Records -> RecSteps]
      /\ copies[r] < MaxCopies
  BY BoundsAssumption DEF Push, Inv, TypeOK, CopiesFromResends, Spare
<1>2. \A q \in Records \ {r} : Fate(q)' = Fate(q)
  BY <1>1 DEF Fate, Logged, OnItsWay
<1>3. rec[r] \in {"half", "done"} /\ OnItsWay(r)
  <2>1. CASE rec[r] = "half"
    BY <2>1 DEF OnItsWay
  <2>2. CASE RequeueAgain /\ r = RecordOf(fitem)
    <3>1. fitem \in Entries /\ Pushed(fitem) /\ fitem \notin lost
      BY <2>2 DEF Inv, TypeOK, Conservation, Somewhere, InOnePlace
    <3> QED
      BY <2>2, <3>1, PushedCharged DEF OnItsWay
  <2> QED BY <2>1, <2>2
<1>4. rec'[r] \in {"half", "done"}
  BY <1>1, <1>3
<1>5. OnItsWay(r)'
  <2>1. <<r, copies[r] + 1>> \in Entries /\ ~Pushed(<<r, copies[r] + 1>>)
    BY <1>1, BoundsAssumption DEF Entries, Pushed, RecordOf
  <2>2. <<r, copies[r] + 1>> \notin lost
    BY <2>1 DEF Inv, Conservation, Somewhere
  <2>3. copies[r] + 1 \in 1 .. copies'[r]
    BY <1>1, BoundsAssumption
  <2> QED BY <1>1, <2>2, <2>3 DEF OnItsWay
<1>6. Logged(r)' <=> Logged(r)
  BY <1>1 DEF Logged
<1>7. Fate(r)' = Fate(r)
  BY <1>3, <1>4, <1>5, <1>6 DEF Fate
<1> QED
  BY <1>2, <1>7, Staying

\* The INSERT of the worker or of FlushAll is reported successful.
LEMMA LoggingStep ==
    ASSUME Inv, NEW e \in Entries, fitem = e \/ mitem = e,
           logged' = logged \cup {e}, UNCHANGED <<rec, copies, lost>>
    PROVE  [Ledger!Next]_[q \in Records |-> Fate(q)]
<1>1. Pushed(e) /\ e \notin lost
  BY DEF Inv, Conservation, InOnePlace, Somewhere
<1>2. PICK r \in Records : r = RecordOf(e)
  BY <1>1, PushedCharged
<1>3. rec[r] \in {"half", "done"} /\ OnItsWay(r) /\ Logged(r)'
  BY <1>1, <1>2, PushedCharged DEF OnItsWay, Logged
<1>4. \A q \in Records \ {r} : Fate(q)' = Fate(q)
  BY <1>2 DEF Fate, Logged, OnItsWay
<1>5. Fate(r)' = "logged" /\ Fate(r) \in {"logged", "charged"}
  BY <1>3 DEF Fate
<1>6. CASE Fate(r) = "charged"
  BY <1>4, <1>5, <1>6, Moving
<1>7. CASE Fate(r) = "logged"
  BY <1>4, <1>5, <1>7, Staying
<1> QED
  BY <1>5, <1>6, <1>7

\* Entries are lost, and what a process held before a charge with it.
LEMMA LosingStep ==
    ASSUME Inv, lost \subseteq lost', UNCHANGED <<copies, logged>>,
           \A r \in Records : \/ rec'[r] = rec[r]
                              \/ rec[r] \in {"handler", "pending"} /\ rec'[r] = "dropped"
    PROVE  Ledger!Next
<1>1. ASSUME NEW r \in Records
      PROVE  \/ Fate(r)' = Fate(r)
             \/ Fate(r) = "open" /\ Fate(r)' = "free"
             \/ Fate(r) = "charged" /\ Fate(r)' = "gone"
  <2>1. CASE rec'[r] # rec[r]
    BY <2>1 DEF Fate
  <2>2. CASE rec'[r] = rec[r]
    <3>1. (Logged(r)' <=> Logged(r)) /\ (OnItsWay(r)' => OnItsWay(r))
      BY <2>2 DEF Logged, OnItsWay
    <3> QED BY <2>2, <3>1 DEF Fate
  <2> QED BY <2>1, <2>2
<1> QED
  BY <1>1, Losing

\* The recording goroutines, the worker, FlushAll and main implement the ledger:
\* every step of theirs is a step of UsageLedger or leaves all fates alone.
THEOREM LedgerImplemented == Spec => ImplementsLedger
<1>1. Init => Ledger!Init
  BY DEF Init, Ledger!Init, Fate
<1>2. Inv /\ [Next]_vars => [Ledger!Next]_[r \in Records |-> Fate(r)]
  <2> SUFFICES ASSUME Inv, [Next]_vars
               PROVE  [Ledger!Next]_[r \in Records |-> Fate(r)]
    OBVIOUS
  <2>1. CASE \E r \in Records : Producer(r)
    BY <2>1, ProducerStep, PushingStep DEF Producer
  <2>2. CASE \/ Tick \/ WorkerReturns \/ FlushPop \/ FlushPopNothing \/ FlushInsertError
             \/ FlushInsertUnknown \/ Requeue \/ Signal \/ ShutdownReturns \/ FlushAllPop
             \/ FlushAllPopNothing \/ Restart \/ UNCHANGED vars
    <3>1. UNCHANGED <<rec, copies, logged, lost>>
      BY <2>2 DEF Tick, WorkerReturns, FlushPop, FlushPopNothing, FlushInsertError,
         FlushInsertUnknown, Requeue, Signal, ShutdownReturns, FlushAllPop,
         FlushAllPopNothing, Restart, vars, history
    <3> QED
      BY <3>1, QuietStep, Staying
  <2>3. CASE FlushInsert \/ FlushAllInsert
    <3>1. PICK e \in Entries : /\ fitem = e \/ mitem = e
                               /\ logged' = logged \cup {e}
                               /\ UNCHANGED <<rec, copies, lost>>
      BY <2>3 DEF FlushInsert, FlushAllInsert, Inv, TypeOK
    <3> QED
      BY <3>1, LoggingStep
  <2>4. CASE RequeueAgain
    <3>1. fitem \in Entries
      BY <2>4 DEF RequeueAgain, Inv, TypeOK
    <3>2. RecordOf(fitem) \in Records
      BY <3>1 DEF RecordOf, Entries
    <3> QED BY <2>4, <3>2, PushingStep
  <2>5. CASE \/ FlushPopReplyLost \/ FlushAllPopReplyLost \/ RequeueError
             \/ FlushAllInsertError \/ FlushAllInsertUnknown \/ Evict
    <3>1. lost \subseteq lost' /\ UNCHANGED <<copies, logged, rec>>
      BY <2>5 DEF FlushPopReplyLost, FlushAllPopReplyLost, RequeueError, FlushAllInsertError,
         FlushAllInsertUnknown, Evict
    <3> QED
      BY <3>1, LosingStep
  <2>6. CASE Exit \/ Crash
    <3>1. lost \subseteq lost' /\ UNCHANGED <<copies, logged>>
      BY <2>6 DEF Exit, Crash, ProcessEnds
    <3>2. \A r \in Records : \/ rec'[r] = rec[r]
                             \/ rec[r] \in {"handler", "pending"} /\ rec'[r] = "dropped"
      BY <2>6 DEF Exit, Crash, ProcessEnds
    <3> QED
      BY <3>1, <3>2, LosingStep
  <2> QED
    BY <2>1, <2>2, <2>3, <2>4, <2>5, <2>6 DEF Next, Flusher, Main, Stopping
<1> QED
  BY <1>1, <1>2, InvariantHolds, PTL DEF Spec, ImplementsLedger, Ledger!Spec
=============================================================================
