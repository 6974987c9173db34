---------------------------- MODULE MultiHalPoll ----------------------------
(***************************************************************************)
(* The event path of sensors/multihal.cpp: one writerTask thread per       *)
(* sub-HAL device fills its SensorEventQueue, the framework's poll()       *)
(* thread drains the queues round-robin.  All queues share queue_mutex;    *)
(* a sub-HAL's poll() writes into the queue's array WITHOUT the mutex.     *)
(*                                                                         *)
(* A writer touches shared state only inside its two critical sections,    *)
(* so each of them is one step guarded by the mutex being free.  poll()    *)
(* is one step per iteration of its scanning loop, with the mutex held     *)
(* throughout, so that the unlocked writes of the sub-HALs fall between    *)
(* its reads.                                                              *)
(***************************************************************************)
EXTENDS Integers, Sequences

CONSTANTS NumSubs,        \* queueCount: devices that open_sensors added
          Capacity,       \* SENSOR_EVENT_QUEUE_CAPACITY
          MaxReads,       \* size of the buffer the framework passes to poll()
          MaxEvents,      \* bound: events a sub-HAL produces
          EventKinds,     \* EventKinds[n]: what the n-th event of a sub-HAL may
                          \*   be, a set of [type, handle] with local handles
          full_to_global  \* [<<sub index, local handle>> -> global handle]

Subs == 0 .. NumSubs - 1
NoHandle == -1

ASSUME NumSubsAssumption == NumSubs \in Nat \ {0}
ASSUME CapacityAssumption == Capacity \in Nat \ {0}
ASSUME MaxReadsAssumption == MaxReads \in Nat \ {0}
ASSUME MaxEventsAssumption == MaxEvents \in Nat
ASSUME HandleAssumption ==
    /\ \A n \in 1 .. MaxEvents :
          EventKinds[n] \subseteq [type : {"data", "meta_data"}, handle : Int]
    /\ DOMAIN full_to_global \subseteq Subs \X Int
    /\ \A f \in DOMAIN full_to_global : full_to_global[f] \in Nat \ {0}

(***************************************************************************)
(* A sensors_event_t: a META_DATA event has sensor = 0 and names the       *)
(* sensor it is about in meta; id tells the events of one sub-HAL apart.   *)
(***************************************************************************)
Event == [type : {"data", "meta_data"}, sensor : Int, meta : Int, id : Nat]

\* An uninitialised slot: its contents are never a written event (id = 0).
Blank == [type |-> "data", sensor |-> NoHandle, meta |-> 0, id |-> 0]

SubHalEvents(n) ==
    {[type |-> k.type,
      sensor |-> IF k.type = "data" THEN k.handle ELSE 0,
      meta |-> IF k.type = "data" THEN 0 ELSE k.handle,
      id |-> n] : k \in EventKinds[n]}

Q == INSTANCE SensorEventQueue WITH mCapacity <- Capacity, Slot <- Event

VARIABLES
    queue_mutex,       \* "free", or "poll" while poll() holds it
    queues,            \* queues[s]: the SensorEventQueue of sub-HAL s
    wpc,               \* where writerTask s is
    buffer,            \* buffer[s]: the region sub-HAL s may write, and how
                       \*   many events it has written to it so far
    ppc,               \* where the framework's poll() thread is
    data,              \* the caller's buffer: events read by this poll()
    empties,           \* empty queues seen in a row
    nextReadIndex,     \* the queue to look at next
    waiting_for_data,
    accepted,          \* history: events marked as written, per sub-HAL
    bypassed           \* history: events taken from other queues while the
                       \*   queue had one, since its own last turn

writerVars == <<wpc, buffer, accepted>>
pollVars == <<ppc, data, empties, nextReadIndex, waiting_for_data, bypassed>>
vars == <<queue_mutex, queues, writerVars, pollVars>>

NoRegion == [first |-> 0, len |-> 0, polled |-> 0]

Init ==
    /\ queue_mutex = "free"
    /\ queues = [s \in Subs |-> Q!NewQueue(Blank)]
    /\ wpc = [s \in Subs |-> "lock"]
    /\ buffer = [s \in Subs |-> NoRegion]
    /\ ppc = "idle"
    /\ data = <<>>
    /\ empties = 0
    /\ nextReadIndex = 0
    /\ waiting_for_data = FALSE
    /\ accepted = [s \in Subs |-> 0]
    /\ bypassed = [s \in Subs |-> 0]

-----------------------------------------------------------------------------
\* writerTask

\* waitForSpace() on a full queue: wait on mSpaceAvailableCondition, which
\* releases the mutex.
WriterWaitsForSpace(s) ==
    /\ wpc[s] = "lock"
    /\ queue_mutex = "free"
    /\ queues[s].mSize = Capacity
    /\ wpc' = [wpc EXCEPT ![s] = "waitForSpace"]
    /\ UNCHANGED <<queue_mutex, queues, buffer, accepted, pollVars>>

\* There is space: take a region and unlock before polling the sub-HAL.
WriterTakesRegion(s) ==
    /\ wpc[s] = "lock"
    /\ queue_mutex = "free"
    /\ queues[s].mSize # Capacity
    /\ LET r == Q!getWritableRegion(queues[s], Capacity)
       IN  buffer' = [buffer EXCEPT ![s] = [first |-> r.first, len |-> r.len, polled |-> 0]]
    /\ wpc' = [wpc EXCEPT ![s] = "poll"]
    /\ UNCHANGED <<queue_mutex, queues, accepted, pollVars>>

\* Inside device->poll(): the sub-HAL writes one more event to its region,
\* without the mutex.
SubHalWrites(s) ==
    /\ wpc[s] = "poll"
    /\ buffer[s].polled < buffer[s].len
    /\ accepted[s] + buffer[s].polled < MaxEvents
    /\ \E e \in SubHalEvents(accepted[s] + buffer[s].polled + 1) :
          queues' = [queues EXCEPT ![s].mData[buffer[s].first + buffer[s].polled] = e]
    /\ buffer' = [buffer EXCEPT ![s].polled = @ + 1]
    /\ UNCHANGED <<queue_mutex, wpc, accepted, pollVars>>

\* device->poll() returns the number of events it wrote.
SubHalReturns(s) ==
    /\ wpc[s] = "poll"
    /\ buffer[s].polled > 0
    /\ wpc' = [wpc EXCEPT ![s] = "mark"]
    /\ UNCHANGED <<queue_mutex, queues, buffer, accepted, pollVars>>

\* device->poll() returns zero or an error: what it wrote is ignored.
SubHalFails(s) ==
    /\ wpc[s] = "poll"
    /\ buffer' = [buffer EXCEPT ![s] = NoRegion]
    /\ wpc' = [wpc EXCEPT ![s] = "lock"]
    /\ UNCHANGED <<queue_mutex, queues, accepted, pollVars>>

\* Mutant: the broadcast is left out.
BroadcastDataAvailable_Lost == UNCHANGED ppc

\* "if (waiting_for_data) pthread_cond_broadcast(&data_available_cond)"
BroadcastDataAvailable ==
    ppc' = IF waiting_for_data /\ ppc = "wait" THEN "woken" ELSE ppc

\* The second critical section: publish the events, wake poll().
WriterMarks(s) ==
    /\ wpc[s] = "mark"
    /\ queue_mutex = "free"
    /\ queues' = [queues EXCEPT ![s] = Q!markAsWritten(@, buffer[s].polled)]
    /\ accepted' = [accepted EXCEPT ![s] = @ + buffer[s].polled]
    /\ BroadcastDataAvailable
    /\ buffer' = [buffer EXCEPT ![s] = NoRegion]
    /\ wpc' = [wpc EXCEPT ![s] = "lock"]
    /\ UNCHANGED <<queue_mutex, data, empties, nextReadIndex, waiting_for_data, bypassed>>

\* POSIX allows a condition wait to end without a broadcast; waitForSpace()
\* checks the size again.
WriterWakesSpuriously(s) ==
    /\ wpc[s] = "waitForSpace"
    /\ wpc' = [wpc EXCEPT ![s] = "lock"]
    /\ UNCHANGED <<queue_mutex, queues, buffer, accepted, pollVars>>

-----------------------------------------------------------------------------
\* sensors_poll_context_t::poll

get_global_handle(s, h) ==
    IF <<s, h>> \in DOMAIN full_to_global THEN full_to_global[<<s, h>>] ELSE NoHandle

\* A META_DATA event keeps sensor = 0, its payload is rewritten instead.
copy_event_remap_handle(s, e) ==
    IF e.type = "meta_data"
    THEN [e EXCEPT !.meta = get_global_handle(s, @)]
    ELSE [e EXCEPT !.sensor = get_global_handle(s, @)]

\* "data[eventsRead].sensor == -1"
BadHandle(e) == e.sensor = NoHandle

ScanGoesOn == empties < NumSubs /\ Len(data) < MaxReads

PollCall ==
    /\ ppc = "idle"
    /\ queue_mutex = "free"
    /\ queue_mutex' = "poll"
    /\ ppc' = "scan"
    /\ data' = <<>>
    /\ empties' = 0
    /\ UNCHANGED <<queues, writerVars, nextReadIndex, waiting_for_data, bypassed>>

\* Mutant: a queue that had an event keeps its turn.
NextReadIndex_Sticky == IF queues[nextReadIndex].mSize = 0
                        THEN (nextReadIndex + 1) % NumSubs
                        ELSE nextReadIndex

NextReadIndex == (nextReadIndex + 1) % NumSubs

PollSkipsEmptyQueue ==
    /\ ppc = "scan"
    /\ ScanGoesOn
    /\ queues[nextReadIndex].mSize = 0
    /\ empties' = empties + 1
    /\ nextReadIndex' = NextReadIndex
    /\ UNCHANGED <<queue_mutex, queues, writerVars, ppc, data, waiting_for_data, bypassed>>

\* Mutant: the broadcast tests the size after the decrement.
BroadcastSpaceAvailable_Late(s) ==
    wpc' = IF queues[s].mSize - 1 = Capacity /\ wpc[s] = "waitForSpace"
           THEN [wpc EXCEPT ![s] = "lock"] ELSE wpc

\* dequeue() broadcasts mSpaceAvailableCondition only when the queue was full.
BroadcastSpaceAvailable(s) ==
    wpc' = IF queues[s].mSize = Capacity /\ wpc[s] = "waitForSpace"
           THEN [wpc EXCEPT ![s] = "lock"] ELSE wpc

PollReadsEvent ==
    LET s == nextReadIndex
        e == copy_event_remap_handle(s, Q!peek(queues[s]))
    IN  /\ ppc = "scan"
        /\ ScanGoesOn
        /\ queues[s].mSize > 0
        /\ empties' = 0
        /\ data' = IF BadHandle(e) THEN data ELSE Append(data, e)
        /\ BroadcastSpaceAvailable(s)
        /\ queues' = [queues EXCEPT ![s] = Q!dequeue(@)]
        /\ nextReadIndex' = NextReadIndex
        /\ bypassed' = [t \in Subs |-> IF t = s \/ queues[t].mSize = 0 THEN 0
                                       ELSE bypassed[t] + 1]
        /\ UNCHANGED <<queue_mutex, buffer, accepted, ppc, waiting_for_data>>

\* All queues were scanned and nothing was read: wait, releasing the mutex.
PollWaits ==
    /\ ppc = "scan"
    /\ ~ScanGoesOn
    /\ data = <<>>
    /\ waiting_for_data' = TRUE
    /\ queue_mutex' = "free"
    /\ ppc' = "wait"
    /\ UNCHANGED <<queues, writerVars, data, empties, nextReadIndex, bypassed>>

\* pthread_cond_wait() has the mutex back.
PollResumes ==
    /\ ppc = "woken"
    /\ queue_mutex = "free"
    /\ queue_mutex' = "poll"
    /\ waiting_for_data' = FALSE
    /\ empties' = 0
    /\ ppc' = "scan"
    /\ UNCHANGED <<queues, writerVars, data, nextReadIndex, bypassed>>

PollReturns ==
    /\ ppc = "scan"
    /\ ~ScanGoesOn
    /\ data # <<>>
    /\ queue_mutex' = "free"
    /\ ppc' = "idle"
    /\ data' = <<>>
    /\ UNCHANGED <<queues, writerVars, empties, nextReadIndex, waiting_for_data, bypassed>>

PollWakesSpuriously ==
    /\ ppc = "wait"
    /\ ppc' = "woken"
    /\ UNCHANGED <<queue_mutex, queues, writerVars, data, empties, nextReadIndex,
                   waiting_for_data, bypassed>>

-----------------------------------------------------------------------------
Writer(s) == \/ WriterWaitsForSpace(s) \/ WriterTakesRegion(s)
             \/ SubHalWrites(s) \/ SubHalReturns(s) \/ SubHalFails(s)
             \/ WriterMarks(s) \/ WriterWakesSpuriously(s)

Poller == \/ PollCall \/ PollSkipsEmptyQueue \/ PollReadsEvent
          \/ PollWaits \/ PollResumes \/ PollReturns \/ PollWakesSpuriously

Next == Poller \/ \E s \in Subs : Writer(s)

\* The framework calls poll() again after every return (SensorService's
\* polling thread), and the loop of poll() runs while it holds the mutex.  A
\* thread that wants the mutex gets it although others take it in between
\* (strong fairness).  Nothing is assumed of the sub-HALs or of spurious
\* wakeups.
Fairness ==
    /\ SF_vars(PollCall) /\ SF_vars(PollResumes)
    /\ WF_vars(PollSkipsEmptyQueue \/ PollReadsEvent \/ PollWaits \/ PollReturns)
    /\ \A s \in Subs : SF_vars(WriterTakesRegion(s)) /\ SF_vars(WriterMarks(s))

Spec == Init /\ [][Next]_vars
FairSpec == Spec /\ Fairness

-----------------------------------------------------------------------------
TypeOK ==
    /\ queue_mutex \in {"free", "poll"}
    /\ queues \in [Subs -> Q!Queue]
    /\ wpc \in [Subs -> {"lock", "waitForSpace", "poll", "mark"}]
    /\ buffer \in [Subs -> [first : Q!Index, len : 0 .. Capacity, polled : 0 .. Capacity]]
    /\ ppc \in {"idle", "scan", "wait", "woken"}
    /\ data \in Seq(Event)
    /\ empties \in 0 .. NumSubs
    /\ nextReadIndex \in Subs
    /\ waiting_for_data \in BOOLEAN
    /\ accepted \in [Subs -> Nat]
    /\ bypassed \in [Subs -> Nat]

\* While a sub-HAL may write to its region without the mutex (device->poll()
\* of writerTask), no slot of that region is readable, whatever poll() has
\* dequeued since the region was taken (SensorEventQueue.h: "Reading can be
\* done safely after grabbing the mutex lock, while poll() writing").
NoSlotIsReadAndWritten ==
    \A s \in Subs : wpc[s] \in {"poll", "mark"} =>
        Q!RegionSlots(buffer[s]) \cap Q!ReadableSlots(queues[s]) = {}

\* The region a writer fills is still the place where markAsWritten() will
\* publish it: poll() may have moved mStart and mSize meanwhile, but not their
\* sum, and the region still fits.
RegionStaysInPlace ==
    \A s \in Subs : wpc[s] \in {"poll", "mark"} =>
        /\ buffer[s].first = Q!FirstWritable(queues[s])
        /\ buffer[s].len > 0
        /\ buffer[s].polled <= buffer[s].len
        /\ buffer[s].first + buffer[s].len <= Capacity
        /\ buffer[s].len + queues[s].mSize <= Capacity

\* No wakeup is lost: poll() never sleeps on data_available_cond while some
\* queue holds an event, and writerTask never sleeps on
\* mSpaceAvailableCondition while its queue has room.
NoLostWakeup ==
    /\ ppc = "wait" => waiting_for_data /\ \A s \in Subs : queues[s].mSize = 0
    /\ \A s \in Subs : wpc[s] = "waitForSpace" => queues[s].mSize = Capacity

\* Round robin: while a queue holds an event, poll() takes at most one event
\* from each other queue before it takes one from this queue, even across
\* calls (nextReadIndex survives the call).
BoundedBypass == \A s \in Subs : bypassed[s] <= NumSubs - 1

\* How many queues back, in scanning order, the queue of s was last looked at.
Ago(s) == IF s < nextReadIndex THEN nextReadIndex - s ELSE nextReadIndex - s + NumSubs

\* The mutex is held exactly while poll() scans.
MutexWhileScanning ==
    /\ queue_mutex = "poll" <=> ppc = "scan"
    /\ waiting_for_data <=> ppc \in {"wait", "woken"}
    /\ ppc # "scan" => data = <<>>

ScannedQueuesEmpty ==
    ppc = "scan" => \A s \in Subs : Ago(s) <= empties => queues[s].mSize = 0

BypassedLessThanAgo ==
    \A s \in Subs :
        /\ bypassed[s] < Ago(s)
        /\ queues[s].mSize = 0 => bypassed[s] = 0

\* The strengthening behind NoLostWakeup and BoundedBypass: poll() holds the
\* mutex exactly while it scans and announces exactly its condition wait;
\* because of that the last "empties" queues it looked at are still empty; and
\* a queue was bypassed less often than poll() has moved on since its turn.
ScanInvariant == MutexWhileScanning /\ ScannedQueuesEmpty /\ BypassedLessThanAgo

\* poll() hands upstream exactly what the sub-HALs published, per sub-HAL in
\* order, without loss, duplication or torn records, in non-empty batches of at
\* most MaxReads events.
Fifo == INSTANCE EventFifo WITH
            Remap <- copy_event_remap_handle,
            Dropped <- BadHandle,
            pending <- [s \in Subs |-> Q!Contents(queues[s])],
            batch <- data
FifoSpec == Fifo!Spec

\* Every published event is consumed by poll(), also when the queue was full,
\* the other queues are busy or a sub-HAL returns errors for ever: a queue that
\* does not run empty again and again is read again and again, from its head.
EveryEventConsumed ==
    \A s \in Subs : \/ []<>(queues[s].mSize = 0)
                    \/ []<><<PollReadsEvent /\ nextReadIndex = s>>_vars

\* writerTask never stays blocked on a full queue.
WriterUnblocks == \A s \in Subs : wpc[s] = "waitForSpace" ~> wpc[s] = "poll"

\* "Bad handle, do not pass corrupted event upstream !" (multihal.cpp:370): an
\* event whose handle is unknown never reaches the framework.
NoCorruptEventUpstream ==
    \A i \in 1 .. Len(data) : data[i].sensor # NoHandle /\ data[i].meta # NoHandle
=============================================================================
