------------------------- MODULE MultiHalPollProofs -------------------------
(***************************************************************************)
(* Proofs, for every number of sub-HALs, queue capacity, read size and     *)
(* event bound, of the invariants that MCMultiHalPoll checks on small      *)
(* instances, of the refinement of EventFifo, and of what the test for     *)
(* bad handles keeps from the framework.                                   *)
(***************************************************************************)
EXTENDS MultiHalPoll, TLAPS, SequenceTheorems

(***************************************************************************)
(* The modular arithmetic of the ring, once and for all.                   *)
(***************************************************************************)

\* Below twice the capacity, % is one conditional subtraction.
LEMMA ModOnce ==
    ASSUME NEW n \in Nat \ {0}, NEW a \in Nat, a < 2 * n
    PROVE  a % n = IF a < n THEN a ELSE a - n
  BY Z3

\* The same for an index advanced by at most one turn.
LEMMA RingIndex ==
    ASSUME NEW n \in Nat \ {0}, NEW a \in 0 .. n - 1, NEW b \in 0 .. n
    PROVE  (a + b) % n = IF a + b < n THEN a + b ELSE a + b - n
<1> DEFINE c == a + b
<1>1. c \in Nat /\ c < 2 * n
  OBVIOUS
<1> HIDE DEF c
<1>2. c % n = IF c < n THEN c ELSE c - n
  BY <1>1, ModOnce
<1> QED
  BY <1>2 DEF c

\* Advancing the start by one and shortening the length by one keeps the end.
LEMMA RingAdvance ==
    ASSUME NEW n \in Nat \ {0}, NEW a \in 0 .. n - 1, NEW b \in 1 .. n
    PROVE  /\ (a + 1) % n \in 0 .. n - 1
           /\ (((a + 1) % n) + (b - 1)) % n = (a + b) % n
<1> DEFINE x == (a + 1) % n
           y == b - 1
<1>0. 1 \in 0 .. n /\ y \in 0 .. n /\ b \in 0 .. n
  OBVIOUS
<1>1. x = IF a + 1 < n THEN a + 1 ELSE a + 1 - n
  BY <1>0, RingIndex
<1>2. (a + b) % n = IF a + b < n THEN a + b ELSE a + b - n
  BY <1>0, RingIndex
<1> HIDE DEF x
<1>3. x \in 0 .. n - 1
  BY <1>1
<1>4. (x + y) % n = IF x + y < n THEN x + y ELSE x + y - n
  <2> HIDE DEF y
  <2> QED BY <1>0, <1>3, RingIndex
<1>5. (x + y) % n = (a + b) % n
  <2> DEFINE u == (x + y) % n
             v == (a + b) % n
  <2>1. u = (IF x + y < n THEN x + y ELSE x + y - n) /\ v = (IF a + b < n THEN a + b ELSE a + b - n)
    BY <1>2, <1>4
  <2> HIDE DEF u, v
  <2>2. u = v
    BY <1>1, <2>1
  <2> QED BY <2>2 DEF u, v
<1> QED
  BY <1>3, <1>5 DEF x

\* getWritableRegion() keeps the contract of SensorEventQueue.h:34-37: the
\* region is empty only when there is no space, fits the request, the array
\* and the free space, and starts right after the readable records.
LEMMA WritableRegion ==
    ASSUME NEW q \in Q!Queue, NEW k \in Nat \ {0}, q.mSize # Capacity
    PROVE  LET r == Q!getWritableRegion(q, k)
           IN  /\ r.first \in Q!Index /\ r.first = Q!FirstWritable(q)
               /\ r.len \in 1 .. Capacity /\ r.len <= k
               /\ r.first + r.len <= Capacity
               /\ r.len + q.mSize <= Capacity
<1>1. /\ q.mStart \in 0 .. Capacity - 1 /\ q.mSize \in 0 .. Capacity
      /\ Capacity \in Nat \ {0}
  BY CapacityAssumption DEF Q!Queue, Q!Index
<1>2. (q.mStart + q.mSize) % Capacity =
         IF q.mStart + q.mSize < Capacity THEN q.mStart + q.mSize
         ELSE q.mStart + q.mSize - Capacity
  BY <1>1, RingIndex
<1> DEFINE first == Q!FirstWritable(q)
           last  == Q!LastWritable(q, k)
           r     == Q!getWritableRegion(q, k)
<1>3. first = IF q.mStart + q.mSize < Capacity THEN q.mStart + q.mSize
              ELSE q.mStart + q.mSize - Capacity
  BY <1>2 DEF Q!FirstWritable
<1>4. last = LET inArray == IF first + k - 1 > Capacity - 1 THEN Capacity - 1 ELSE first + k - 1
             IN  IF first < q.mStart /\ inArray >= q.mStart THEN q.mStart - 1 ELSE inArray
  BY DEF Q!LastWritable
<1>5. r.first = first /\ r.len = last - first + 1
  BY <1>1 DEF Q!getWritableRegion
<1> HIDE DEF first, last, r
<1>6. /\ first \in 0 .. Capacity - 1
      /\ last \in Int /\ last >= first /\ last <= Capacity - 1 /\ last <= first + k - 1
      /\ last - first + 1 + q.mSize <= Capacity
  BY <1>1, <1>3, <1>4
<1>7. /\ r.first \in 0 .. Capacity - 1 /\ r.first = first
      /\ r.len \in 1 .. Capacity /\ r.len <= k
      /\ r.first + r.len <= Capacity
      /\ r.len + q.mSize <= Capacity
  BY <1>1, <1>5, <1>6
<1> QED
  BY <1>7 DEF r, first, Q!Index

\* dequeue() keeps the place where the writer continues.
LEMMA DequeueKeepsFirstWritable ==
    ASSUME NEW q \in Q!Queue, q.mSize > 0
    PROVE  /\ Q!dequeue(q) \in Q!Queue
           /\ Q!dequeue(q).mSize = q.mSize - 1
           /\ Q!FirstWritable(Q!dequeue(q)) = Q!FirstWritable(q)
<1> DEFINE d == Q!dequeue(q)
<1>1. /\ q.mStart \in 0 .. Capacity - 1 /\ q.mSize \in 1 .. Capacity
      /\ Capacity \in Nat \ {0}
  BY CapacityAssumption DEF Q!Queue, Q!Index
<1>2. /\ (q.mStart + 1) % Capacity \in 0 .. Capacity - 1
      /\ (((q.mStart + 1) % Capacity) + (q.mSize - 1)) % Capacity = (q.mStart + q.mSize) % Capacity
  BY <1>1, RingAdvance
<1>3. /\ d = [q EXCEPT !.mSize = q.mSize - 1, !.mStart = (q.mStart + 1) % Capacity]
      /\ d.mSize = q.mSize - 1 /\ d.mStart = (q.mStart + 1) % Capacity
  BY <1>1 DEF Q!dequeue, Q!Queue
<1>4. d \in Q!Queue
  <2>1. (q.mStart + 1) % Capacity \in Q!Index /\ q.mSize - 1 \in 0 .. Capacity
    BY <1>1, <1>2 DEF Q!Index
  <2> QED
    BY <1>3, <2>1 DEF Q!Queue
<1>5. Q!FirstWritable(d) = Q!FirstWritable(q)
  BY <1>2, <1>3 DEF Q!FirstWritable
<1> QED
  BY <1>3, <1>4, <1>5

\* A region that starts at FirstWritable and fits the free space holds no
\* readable slot.
LEMMA RegionAvoidsReadable ==
    ASSUME NEW q \in Q!Queue, NEW r \in [first : Q!Index, len : 0 .. Capacity, polled : 0 .. Capacity],
           r.first = Q!FirstWritable(q),
           r.first + r.len <= Capacity,
           r.len + q.mSize <= Capacity
    PROVE  Q!RegionSlots(r) \cap Q!ReadableSlots(q) = {}
<1>1. /\ q.mStart \in 0 .. Capacity - 1 /\ q.mSize \in 0 .. Capacity
      /\ Capacity \in Nat \ {0} /\ r.first \in 0 .. Capacity - 1 /\ r.len \in 0 .. Capacity
  BY CapacityAssumption DEF Q!Queue, Q!Index
<1>2. r.first = IF q.mStart + q.mSize < Capacity THEN q.mStart + q.mSize
                ELSE q.mStart + q.mSize - Capacity
  BY <1>1, RingIndex DEF Q!FirstWritable
<1>3. SUFFICES ASSUME NEW i \in 0 .. q.mSize - 1,
                      (q.mStart + i) % Capacity \in r.first .. r.first + r.len - 1
               PROVE  FALSE
  BY DEF Q!RegionSlots, Q!ReadableSlots
<1>4. q.mStart + i \in Nat /\ q.mStart + i < 2 * Capacity
  BY <1>1
<1>5. (q.mStart + i) % Capacity =
         IF q.mStart + i < Capacity THEN q.mStart + i ELSE q.mStart + i - Capacity
  BY <1>1, <1>4, ModOnce
<1> QED
  BY <1>1, <1>2, <1>3, <1>4, <1>5

-----------------------------------------------------------------------------
(***************************************************************************)
(* The inductive invariant.  TypeOK needs RegionStaysInPlace (a sub-HAL's  *)
(* write stays inside the array, markAsWritten() inside the capacity);     *)
(* NoLostWakeup needs ScanInvariant (a full scan saw only empty queues).   *)
(***************************************************************************)
IndInv == TypeOK /\ RegionStaysInPlace /\ NoLostWakeup /\ ScanInvariant

\* Remapping a handle leaves an event an event.
LEMMA RemapType ==
    ASSUME NEW s, NEW e \in Event
    PROVE  copy_event_remap_handle(s, e) \in Event
  BY HandleAssumption DEF copy_event_remap_handle, get_global_handle, Event, NoHandle

\* The events a sub-HAL writes are events.
LEMMA SubHalEventsType ==
    ASSUME NEW n \in 1 .. MaxEvents
    PROVE  SubHalEvents(n) \subseteq Event
<1> SUFFICES ASSUME NEW k \in EventKinds[n]
             PROVE  [type |-> k.type, sensor |-> IF k.type = "data" THEN k.handle ELSE 0,
                     meta |-> IF k.type = "data" THEN 0 ELSE k.handle, id |-> n] \in Event
  BY DEF SubHalEvents
<1>1. k.type \in {"data", "meta_data"} /\ k.handle \in Int
  BY HandleAssumption
<1> QED
  BY <1>1, MaxEventsAssumption DEF Event

\* The next queue to look at is a queue, one further on the ring.
LEMMA NextReadIndexStep ==
    ASSUME nextReadIndex \in Subs
    PROVE  /\ NextReadIndex \in Subs
           /\ NextReadIndex = IF nextReadIndex + 1 < NumSubs THEN nextReadIndex + 1 ELSE 0
<1>1. nextReadIndex \in 0 .. NumSubs - 1 /\ 1 \in 0 .. NumSubs /\ NumSubs \in Nat \ {0}
  BY NumSubsAssumption DEF Subs
<1>2. (nextReadIndex + 1) % NumSubs =
         IF nextReadIndex + 1 < NumSubs THEN nextReadIndex + 1 ELSE nextReadIndex + 1 - NumSubs
  BY <1>1, RingIndex
<1>3. NextReadIndex = IF nextReadIndex + 1 < NumSubs THEN nextReadIndex + 1 ELSE 0
  BY <1>1, <1>2 DEF NextReadIndex
<1> QED
  BY <1>1, <1>3 DEF Subs

\* The first state satisfies the invariant.
LEMMA InitIndInv == Init => IndInv
<1> SUFFICES ASSUME Init PROVE IndInv
  OBVIOUS
<1>1. Blank \in Event /\ 0 \in Q!Index /\ 0 \in 0 .. Capacity /\ 0 \in Subs /\ 0 \in 0 .. NumSubs
  BY CapacityAssumption, NumSubsAssumption DEF Blank, Event, NoHandle, Q!Index, Subs
<1>2. Q!NewQueue(Blank) \in Q!Queue /\ Q!NewQueue(Blank).mSize = 0
  BY <1>1 DEF Q!NewQueue, Q!Queue
<1>3. TypeOK
  BY <1>1, <1>2 DEF Init, TypeOK, NoRegion
<1>4. RegionStaysInPlace
  BY DEF Init, RegionStaysInPlace
<1>5. NoLostWakeup
  BY DEF Init, NoLostWakeup
<1>6. ScanInvariant
  BY <1>2, NumSubsAssumption DEF Init, ScanInvariant, MutexWhileScanning, ScannedQueuesEmpty,
      BypassedLessThanAgo, Ago, Subs
<1> QED
  BY <1>3, <1>4, <1>5, <1>6 DEF IndInv

\* Every step keeps the types.
LEMMA TypeStep == IndInv /\ [Next]_vars => TypeOK'
<1> SUFFICES ASSUME IndInv, [Next]_vars PROVE TypeOK'
  OBVIOUS
<1> USE CapacityAssumption, NumSubsAssumption DEF IndInv, TypeOK
<1>1. CASE PollCall
  BY <1>1 DEF PollCall, writerVars
<1>2. CASE PollSkipsEmptyQueue
  BY <1>2, NextReadIndexStep DEF PollSkipsEmptyQueue, writerVars, ScanGoesOn
<1>3. CASE PollReadsEvent
  <2> DEFINE s == nextReadIndex
             e == copy_event_remap_handle(s, Q!peek(queues[s]))
  <2>1. s \in Subs /\ queues[s] \in Q!Queue /\ queues[s].mSize > 0
    BY <1>3 DEF PollReadsEvent
  <2>2. e \in Event
    BY <2>1, RemapType DEF Q!peek, Q!Queue
  <2>3. Q!dequeue(queues[s]) \in Q!Queue
    BY <2>1, DequeueKeepsFirstWritable
  <2>4. queues' \in [Subs -> Q!Queue]
    BY <1>3, <2>3 DEF PollReadsEvent
  <2>5. data' \in Seq(Event)
    BY <1>3, <2>2 DEF PollReadsEvent
  <2>6. wpc' \in [Subs -> {"lock", "waitForSpace", "poll", "mark"}]
    BY <1>3 DEF PollReadsEvent, BroadcastSpaceAvailable
  <2>7. nextReadIndex' \in Subs /\ empties' \in 0 .. NumSubs
    BY <1>3, NextReadIndexStep DEF PollReadsEvent
  <2>8. bypassed' \in [Subs -> Nat]
    BY <1>3 DEF PollReadsEvent
  <2> QED
    BY <1>3, <2>4, <2>5, <2>6, <2>7, <2>8 DEF PollReadsEvent
<1>4. CASE PollWaits
  BY <1>4 DEF PollWaits, writerVars
<1>5. CASE PollResumes
  <2>1. empties' \in 0 .. NumSubs
    BY <1>5 DEF PollResumes
  <2> QED
    BY <1>5, <2>1 DEF PollResumes, writerVars
<1>6. CASE PollReturns
  BY <1>6 DEF PollReturns, writerVars
<1>7. CASE PollWakesSpuriously
  BY <1>7 DEF PollWakesSpuriously, writerVars
<1>8. ASSUME NEW s \in Subs, WriterWaitsForSpace(s) PROVE TypeOK'
  BY <1>8 DEF WriterWaitsForSpace, pollVars
<1>9. ASSUME NEW s \in Subs, WriterTakesRegion(s) PROVE TypeOK'
  <2> DEFINE r == Q!getWritableRegion(queues[s], Capacity)
  <2>1. r.first \in Q!Index /\ r.len \in 0 .. Capacity
    BY <1>9, WritableRegion DEF WriterTakesRegion
  <2> QED
    BY <1>9, <2>1 DEF WriterTakesRegion, pollVars
<1>10. ASSUME NEW s \in Subs, SubHalWrites(s) PROVE TypeOK'
  <2> DEFINE k == buffer[s].first + buffer[s].polled
  <2>1. /\ buffer[s].polled + 1 \in 0 .. Capacity
        /\ k \in Q!Index
        /\ accepted[s] + buffer[s].polled + 1 \in 1 .. MaxEvents
    <3>1. /\ buffer[s].first \in 0 .. Capacity - 1 /\ buffer[s].len \in 0 .. Capacity
          /\ buffer[s].polled \in 0 .. Capacity /\ accepted[s] \in Nat
      BY <1>10 DEF Q!Index
    <3>2. /\ buffer[s].polled < buffer[s].len /\ buffer[s].first + buffer[s].len <= Capacity
          /\ accepted[s] + buffer[s].polled < MaxEvents
      BY <1>10 DEF SubHalWrites, RegionStaysInPlace
    <3> HIDE DEF IndInv, TypeOK
    <3> QED
      BY <3>1, <3>2, MaxEventsAssumption DEF Q!Index
  <2>2. PICK e \in Event : queues' = [queues EXCEPT ![s].mData[k] = e]
    BY <1>10, <2>1, SubHalEventsType DEF SubHalWrites
  <2>3. queues' \in [Subs -> Q!Queue]
    BY <2>1, <2>2, ZenonT(60) DEF Q!Queue
  <2>4. buffer' \in [Subs -> [first : Q!Index, len : 0 .. Capacity, polled : 0 .. Capacity]]
    BY <1>10, <2>1, ZenonT(60) DEF SubHalWrites
  <2> QED
    BY <1>10, <2>3, <2>4 DEF SubHalWrites, pollVars
<1>11. ASSUME NEW s \in Subs, SubHalReturns(s) PROVE TypeOK'
  BY <1>11 DEF SubHalReturns, pollVars
<1>12. ASSUME NEW s \in Subs, SubHalFails(s) PROVE TypeOK'
  BY <1>12 DEF SubHalFails, pollVars, NoRegion, Q!Index
<1>13. ASSUME NEW s \in Subs, WriterMarks(s) PROVE TypeOK'
  <2>1. queues[s].mSize + buffer[s].polled \in 0 .. Capacity
    BY <1>13, SMTT(30) DEF WriterMarks, RegionStaysInPlace, Q!Queue
  <2>2. queues' \in [Subs -> Q!Queue]
    BY <1>13, <2>1, ZenonT(60) DEF WriterMarks, Q!markAsWritten, Q!Queue
  <2>3. buffer' \in [Subs -> [first : Q!Index, len : 0 .. Capacity, polled : 0 .. Capacity]]
    BY <1>13 DEF WriterMarks, NoRegion, Q!Index
  <2>4. accepted' \in [Subs -> Nat]
    BY <1>13 DEF WriterMarks
  <2> QED
    BY <1>13, <2>2, <2>3, <2>4 DEF WriterMarks, BroadcastDataAvailable
<1>14. ASSUME NEW s \in Subs, WriterWakesSpuriously(s) PROVE TypeOK'
  BY <1>14 DEF WriterWakesSpuriously, pollVars
<1>15. CASE UNCHANGED vars
  BY <1>15 DEF vars, writerVars, pollVars
<1> QED
  BY <1>1, <1>2, <1>3, <1>4, <1>5, <1>6, <1>7, <1>8, <1>9, <1>10, <1>11, <1>12, <1>13,
     <1>14, <1>15 DEF Next, Poller, Writer

\* Every step keeps the region of each writer where it is.  Only WriterTakesRegion
\* makes a region; poll() may dequeue under it, a sub-HAL may write to it.
LEMMA RegionStep == IndInv /\ [Next]_vars => RegionStaysInPlace'
<1> SUFFICES ASSUME IndInv, [Next]_vars, NEW t \in Subs, wpc'[t] \in {"poll", "mark"}
             PROVE  /\ buffer'[t].first = Q!FirstWritable(queues'[t])
                    /\ buffer'[t].len > 0
                    /\ buffer'[t].polled <= buffer'[t].len
                    /\ buffer'[t].first + buffer'[t].len <= Capacity
                    /\ buffer'[t].len + queues'[t].mSize <= Capacity
  BY DEF RegionStaysInPlace, Q!FirstWritable
<1>0. /\ TypeOK /\ RegionStaysInPlace
      /\ queues[t] \in Q!Queue /\ queues[t].mSize \in 0 .. Capacity
      /\ buffer[t].first \in Int /\ buffer[t].len \in 0 .. Capacity
      /\ buffer[t].polled \in 0 .. Capacity /\ Capacity \in Nat \ {0}
  BY CapacityAssumption, SMTT(30) DEF IndInv, TypeOK, Q!Queue, Q!Index
<1>1. CASE UNCHANGED <<queues, buffer, wpc>>
  BY <1>0, <1>1 DEF RegionStaysInPlace
<1>2. CASE PollReadsEvent
  <2>1. wpc[t] \in {"poll", "mark"} /\ buffer' = buffer
    BY <1>0, <1>2 DEF PollReadsEvent, BroadcastSpaceAvailable, TypeOK
  <2>2. CASE t = nextReadIndex
    <3>1. queues[t].mSize > 0 /\ queues'[t] = Q!dequeue(queues[t])
      BY <1>0, <1>2, <2>2 DEF PollReadsEvent, TypeOK
    <3>2. /\ Q!FirstWritable(queues'[t]) = Q!FirstWritable(queues[t])
          /\ queues'[t].mSize = queues[t].mSize - 1
      BY <1>0, <3>1, DequeueKeepsFirstWritable
    <3> QED
      BY <1>0, <2>1, <3>2 DEF RegionStaysInPlace
  <2>3. CASE t # nextReadIndex
    <3>1. queues'[t] = queues[t]
      BY <1>0, <1>2, <2>3 DEF PollReadsEvent, TypeOK
    <3> QED
      BY <1>0, <2>1, <3>1 DEF RegionStaysInPlace
  <2> QED
    BY <2>2, <2>3
<1>3. ASSUME NEW s \in Subs, Writer(s), s # t PROVE UNCHANGED <<queues[t], buffer[t], wpc[t]>>
  <2> USE <1>0 DEF TypeOK
  <2>1. CASE WriterWaitsForSpace(s)
    BY <1>3, <2>1 DEF WriterWaitsForSpace
  <2>2. CASE WriterTakesRegion(s)
    BY <1>3, <2>2 DEF WriterTakesRegion
  <2>3. CASE SubHalWrites(s)
    BY <1>3, <2>3 DEF SubHalWrites
  <2>4. CASE SubHalReturns(s)
    BY <1>3, <2>4 DEF SubHalReturns
  <2>5. CASE SubHalFails(s)
    BY <1>3, <2>5 DEF SubHalFails
  <2>6. CASE WriterMarks(s)
    BY <1>3, <2>6 DEF WriterMarks
  <2>7. CASE WriterWakesSpuriously(s)
    BY <1>3, <2>7 DEF WriterWakesSpuriously
  <2> QED
    BY <1>3, <2>1, <2>2, <2>3, <2>4, <2>5, <2>6, <2>7 DEF Writer
<1>4. CASE WriterTakesRegion(t)
  <2> DEFINE r == Q!getWritableRegion(queues[t], Capacity)
  <2>1. /\ r.first = Q!FirstWritable(queues[t]) /\ r.len \in 1 .. Capacity
        /\ r.first + r.len <= Capacity /\ r.len + queues[t].mSize <= Capacity
    BY <1>0, <1>4, WritableRegion DEF WriterTakesRegion
  <2>2. buffer'[t] = [first |-> r.first, len |-> r.len, polled |-> 0] /\ queues' = queues
    BY <1>0, <1>4 DEF WriterTakesRegion, TypeOK
  <2> HIDE DEF r
  <2> QED
    BY <1>0, <2>1, <2>2
<1>5. CASE SubHalWrites(t)
  <2>1. /\ wpc[t] = "poll" /\ buffer[t].polled < buffer[t].len
        /\ buffer'[t].first = buffer[t].first /\ buffer'[t].len = buffer[t].len
        /\ buffer'[t].polled = buffer[t].polled + 1
    BY <1>0, <1>5 DEF SubHalWrites, TypeOK
  <2>2. queues'[t].mStart = queues[t].mStart /\ queues'[t].mSize = queues[t].mSize
    BY <1>0, <1>5 DEF SubHalWrites, TypeOK, Q!Queue
  <2>3. Q!FirstWritable(queues'[t]) = Q!FirstWritable(queues[t])
    BY <2>2 DEF Q!FirstWritable
  <2> QED
    BY <1>0, <2>1, <2>2, <2>3 DEF RegionStaysInPlace
<1>6. CASE SubHalReturns(t)
  BY <1>0, <1>6 DEF SubHalReturns, TypeOK, RegionStaysInPlace
<1>7. CASE WriterWaitsForSpace(t) \/ SubHalFails(t) \/ WriterMarks(t) \/ WriterWakesSpuriously(t)
  BY <1>0, <1>7 DEF WriterWaitsForSpace, SubHalFails, WriterMarks, WriterWakesSpuriously, TypeOK
<1>8. CASE \E s \in Subs : Writer(s)
  <2>1. CASE Writer(t)
    BY <2>1, <1>4, <1>5, <1>6, <1>7 DEF Writer
  <2>2. ASSUME NEW s \in Subs, Writer(s), s # t PROVE UNCHANGED <<queues[t], buffer[t], wpc[t]>>
    BY <2>2, <1>3
  <2> QED
    BY <1>8, <1>0, <2>1, <2>2 DEF RegionStaysInPlace
<1> QED
  BY <1>1, <1>2, <1>8 DEF Next, Poller, PollCall, PollSkipsEmptyQueue, PollWaits, PollResumes,
     PollReturns, PollWakesSpuriously, vars, writerVars

\* Every step keeps the condition waits honest: poll() starts to wait only after
\* a scan of empty queues with the mutex held, a writer only on a full queue.
LEMMA WakeupStep == IndInv /\ [Next]_vars => NoLostWakeup'
<1> SUFFICES ASSUME IndInv, [Next]_vars PROVE NoLostWakeup'
  OBVIOUS
<1> USE DEF IndInv, TypeOK
<1>1. CASE PollCall
  BY <1>1 DEF PollCall, NoLostWakeup, writerVars
<1>2. CASE PollSkipsEmptyQueue
  BY <1>2 DEF PollSkipsEmptyQueue, NoLostWakeup, writerVars
<1>3. CASE PollReadsEvent
  <2>1. ppc' = "scan"
    BY <1>3 DEF PollReadsEvent
  <2>2. ASSUME NEW t \in Subs, wpc'[t] = "waitForSpace" PROVE queues'[t].mSize = Capacity
    <3>1. wpc[t] = "waitForSpace" /\ queues[t].mSize = Capacity /\ t # nextReadIndex
      BY <1>3, <2>2 DEF PollReadsEvent, BroadcastSpaceAvailable, NoLostWakeup
    <3> QED
      BY <1>3, <3>1 DEF PollReadsEvent
  <2> QED
    BY <2>1, <2>2 DEF NoLostWakeup
<1>4. CASE PollWaits
  <2>1. empties = NumSubs
    BY <1>4, MaxReadsAssumption, NumSubsAssumption DEF PollWaits, ScanGoesOn
  <2>2. ASSUME NEW s \in Subs PROVE Ago(s) <= NumSubs
    BY NumSubsAssumption DEF Ago, Subs
  <2>3. \A s \in Subs : queues[s].mSize = 0
    BY <1>4, <2>1, <2>2 DEF PollWaits, ScanInvariant, MutexWhileScanning, ScannedQueuesEmpty,
      BypassedLessThanAgo
  <2> QED
    BY <1>4, <2>3 DEF PollWaits, NoLostWakeup, writerVars
<1>5. CASE PollResumes
  BY <1>5 DEF PollResumes, NoLostWakeup, writerVars
<1>6. CASE PollReturns
  BY <1>6 DEF PollReturns, NoLostWakeup, writerVars
<1>7. CASE PollWakesSpuriously
  BY <1>7 DEF PollWakesSpuriously, NoLostWakeup, writerVars
<1>8. ASSUME NEW s \in Subs, WriterWaitsForSpace(s) PROVE NoLostWakeup'
  BY <1>8 DEF WriterWaitsForSpace, NoLostWakeup, pollVars
<1>9. ASSUME NEW s \in Subs, WriterTakesRegion(s) PROVE NoLostWakeup'
  BY <1>9 DEF WriterTakesRegion, NoLostWakeup, pollVars
<1>10. ASSUME NEW s \in Subs, SubHalWrites(s) PROVE NoLostWakeup'
  <2>1. \A t \in Subs : queues'[t].mSize = queues[t].mSize
    BY <1>10 DEF SubHalWrites, Q!Queue
  <2> QED
    BY <1>10, <2>1 DEF SubHalWrites, NoLostWakeup, pollVars
<1>11. ASSUME NEW s \in Subs, SubHalReturns(s) PROVE NoLostWakeup'
  BY <1>11 DEF SubHalReturns, NoLostWakeup, pollVars
<1>12. ASSUME NEW s \in Subs, SubHalFails(s) PROVE NoLostWakeup'
  BY <1>12 DEF SubHalFails, NoLostWakeup, pollVars
<1>13. ASSUME NEW s \in Subs, WriterMarks(s) PROVE NoLostWakeup'
  <2>1. ppc' # "wait"
    BY <1>13 DEF WriterMarks, BroadcastDataAvailable, ScanInvariant, MutexWhileScanning,
      ScannedQueuesEmpty, BypassedLessThanAgo
  <2>2. \A t \in Subs : wpc'[t] = "waitForSpace" =>
           t # s /\ wpc[t] = "waitForSpace" /\ queues'[t] = queues[t]
    BY <1>13 DEF WriterMarks
  <2> QED
    BY <2>1, <2>2 DEF NoLostWakeup
<1>14. ASSUME NEW s \in Subs, WriterWakesSpuriously(s) PROVE NoLostWakeup'
  BY <1>14 DEF WriterWakesSpuriously, NoLostWakeup, pollVars
<1>15. CASE UNCHANGED vars
  BY <1>15 DEF vars, writerVars, pollVars, NoLostWakeup
<1> QED
  BY <1>1, <1>2, <1>3, <1>4, <1>5, <1>6, <1>7, <1>8, <1>9, <1>10, <1>11, <1>12, <1>13,
     <1>14, <1>15 DEF Next, Poller, Writer

\* What a move of nextReadIndex does to Ago: the queue just looked at is one
\* back, every other one a step further.
LEMMA AgoStep ==
    ASSUME nextReadIndex \in Subs, nextReadIndex' = NextReadIndex, NEW t \in Subs
    PROVE  /\ Ago(t) \in 1 .. NumSubs /\ Ago(t)' \in 1 .. NumSubs
           /\ Ago(t)' = IF t = nextReadIndex THEN 1 ELSE Ago(t) + 1
           /\ t = nextReadIndex => Ago(t) = NumSubs
<1>1. /\ t \in 0 .. NumSubs - 1 /\ nextReadIndex \in 0 .. NumSubs - 1
      /\ NumSubs \in Nat \ {0}
  BY NumSubsAssumption DEF Subs
<1>2. nextReadIndex' = IF nextReadIndex + 1 < NumSubs THEN nextReadIndex + 1 ELSE 0
  BY NextReadIndexStep
<1> QED
  BY <1>1, <1>2 DEF Ago

\* Every step keeps what poll() knows about the queues it has scanned.
LEMMA ScanStep == IndInv /\ [Next]_vars => ScanInvariant'
<1> SUFFICES ASSUME IndInv, [Next]_vars PROVE ScanInvariant'
  OBVIOUS
<1>0. /\ TypeOK /\ ScanInvariant /\ NumSubs \in Nat \ {0}
      /\ \A t \in Subs : Ago(t) \in 1 .. NumSubs
  BY NumSubsAssumption DEF IndInv, TypeOK, Ago, Subs
<1>1. CASE PollCall
  BY <1>0, <1>1 DEF PollCall, ScanInvariant, MutexWhileScanning, ScannedQueuesEmpty,
      BypassedLessThanAgo, writerVars, Ago
<1>2. CASE PollSkipsEmptyQueue
  <2>1. /\ nextReadIndex \in Subs /\ nextReadIndex' = NextReadIndex /\ queues' = queues
        /\ empties' = empties + 1 /\ empties \in Nat /\ queues[nextReadIndex].mSize = 0
        /\ bypassed' = bypassed /\ ppc = "scan" /\ bypassed \in [Subs -> Nat]
    BY <1>0, <1>2 DEF PollSkipsEmptyQueue, TypeOK
  <2>2. ASSUME NEW t \in Subs
        PROVE  /\ Ago(t)' <= empties' => queues'[t].mSize = 0
               /\ bypassed'[t] < Ago(t)'
               /\ queues'[t].mSize = 0 => bypassed'[t] = 0
    <3>1. /\ Ago(t) \in 1 .. NumSubs /\ Ago(t)' \in 1 .. NumSubs
          /\ Ago(t)' = IF t = nextReadIndex THEN 1 ELSE Ago(t) + 1
      BY <2>1, AgoStep
    <3>2. /\ Ago(t) <= empties => queues[t].mSize = 0
          /\ bypassed[t] < Ago(t)
          /\ queues[t].mSize = 0 => bypassed[t] = 0
      BY <1>0, <2>1 DEF ScanInvariant, ScannedQueuesEmpty, BypassedLessThanAgo
    <3>3. bypassed[t] \in Nat
      BY <2>1
    <3> QED
      BY <2>1, <3>1, <3>2, <3>3
  <2> QED
    BY <1>0, <1>2, <2>2 DEF PollSkipsEmptyQueue, ScanInvariant, MutexWhileScanning,
      ScannedQueuesEmpty, BypassedLessThanAgo
<1>3. CASE PollReadsEvent
  <2>1. /\ nextReadIndex \in Subs /\ nextReadIndex' = NextReadIndex
        /\ empties' = 0 /\ bypassed \in [Subs -> Nat]
        /\ queues \in [Subs -> Q!Queue] /\ queues[nextReadIndex].mSize > 0
    BY <1>0, <1>3 DEF PollReadsEvent, TypeOK
  <2>2. ASSUME NEW t \in Subs
        PROVE  /\ ~ (Ago(t)' <= empties')
               /\ bypassed'[t] < Ago(t)'
               /\ queues'[t].mSize = 0 => bypassed'[t] = 0
    <3>1. /\ Ago(t) \in 1 .. NumSubs /\ Ago(t)' \in 1 .. NumSubs
          /\ Ago(t)' = IF t = nextReadIndex THEN 1 ELSE Ago(t) + 1
      BY <2>1, AgoStep
    <3>2. bypassed[t] < Ago(t) /\ bypassed[t] \in Nat
      <4>1. bypassed[t] < Ago(t)
        BY <1>0 DEF ScanInvariant, BypassedLessThanAgo
      <4> QED
        BY <2>1, <4>1
    <3>3. bypassed'[t] = IF t = nextReadIndex \/ queues[t].mSize = 0 THEN 0 ELSE bypassed[t] + 1
      BY <1>3 DEF PollReadsEvent
    <3>4. t # nextReadIndex => queues'[t] = queues[t]
      BY <1>3, <2>1 DEF PollReadsEvent
    <3> QED
      BY <2>1, <3>1, <3>2, <3>3, <3>4
  <2> QED
    BY <1>0, <1>3, <2>2 DEF PollReadsEvent, ScanInvariant, MutexWhileScanning, ScannedQueuesEmpty,
      BypassedLessThanAgo
<1>4. CASE PollWaits
  BY <1>0, <1>4 DEF PollWaits, ScanInvariant, MutexWhileScanning, ScannedQueuesEmpty,
      BypassedLessThanAgo, writerVars, Ago
<1>5. CASE PollResumes
  BY <1>0, <1>5 DEF PollResumes, ScanInvariant, MutexWhileScanning, ScannedQueuesEmpty,
      BypassedLessThanAgo, writerVars, Ago
<1>6. CASE PollReturns
  BY <1>0, <1>6 DEF PollReturns, ScanInvariant, MutexWhileScanning, ScannedQueuesEmpty,
      BypassedLessThanAgo, writerVars, Ago
<1>7. CASE PollWakesSpuriously
  BY <1>0, <1>7 DEF PollWakesSpuriously, ScanInvariant, MutexWhileScanning, ScannedQueuesEmpty,
      BypassedLessThanAgo, writerVars, Ago
<1>8. ASSUME NEW s \in Subs, WriterWaitsForSpace(s) PROVE ScanInvariant'
  BY <1>0, <1>8 DEF WriterWaitsForSpace, ScanInvariant, MutexWhileScanning, ScannedQueuesEmpty,
      BypassedLessThanAgo, pollVars, Ago
<1>9. ASSUME NEW s \in Subs, WriterTakesRegion(s) PROVE ScanInvariant'
  BY <1>0, <1>9 DEF WriterTakesRegion, ScanInvariant, MutexWhileScanning, ScannedQueuesEmpty,
      BypassedLessThanAgo, pollVars, Ago
<1>10. ASSUME NEW s \in Subs, SubHalWrites(s) PROVE ScanInvariant'
  <2>1. \A t \in Subs : queues'[t].mSize = queues[t].mSize
    BY <1>0, <1>10 DEF SubHalWrites, TypeOK, Q!Queue
  <2> QED
    BY <1>0, <1>10, <2>1 DEF SubHalWrites, ScanInvariant, MutexWhileScanning, ScannedQueuesEmpty,
      BypassedLessThanAgo, pollVars, Ago
<1>11. ASSUME NEW s \in Subs, SubHalReturns(s) PROVE ScanInvariant'
  BY <1>0, <1>11 DEF SubHalReturns, ScanInvariant, MutexWhileScanning, ScannedQueuesEmpty,
      BypassedLessThanAgo, pollVars, Ago
<1>12. ASSUME NEW s \in Subs, SubHalFails(s) PROVE ScanInvariant'
  BY <1>0, <1>12 DEF SubHalFails, ScanInvariant, MutexWhileScanning, ScannedQueuesEmpty,
      BypassedLessThanAgo, pollVars, Ago
<1>13. ASSUME NEW s \in Subs, WriterMarks(s) PROVE ScanInvariant'
  <2>1. /\ queue_mutex = "free" /\ ppc # "scan" /\ ppc' # "scan"
        /\ (ppc' \in {"wait", "woken"} <=> ppc \in {"wait", "woken"})
    BY <1>0, <1>13 DEF WriterMarks, BroadcastDataAvailable, ScanInvariant, MutexWhileScanning,
      ScannedQueuesEmpty, BypassedLessThanAgo, TypeOK
  <2>2. ASSUME NEW t \in Subs PROVE queues'[t].mSize = 0 => queues[t].mSize = 0
    BY <1>0, <1>13, SMTT(30) DEF WriterMarks, TypeOK, Q!markAsWritten, Q!Queue
  <2> QED
    BY <1>0, <1>13, <2>1, <2>2 DEF WriterMarks, ScanInvariant, MutexWhileScanning,
      ScannedQueuesEmpty, BypassedLessThanAgo, Ago
<1>14. ASSUME NEW s \in Subs, WriterWakesSpuriously(s) PROVE ScanInvariant'
  BY <1>0, <1>14 DEF WriterWakesSpuriously, ScanInvariant, MutexWhileScanning, ScannedQueuesEmpty,
      BypassedLessThanAgo, pollVars, Ago
<1>15. CASE UNCHANGED vars
  BY <1>0, <1>15 DEF vars, writerVars, pollVars, ScanInvariant, MutexWhileScanning,
      ScannedQueuesEmpty, BypassedLessThanAgo, Ago
<1> QED
  BY <1>1, <1>2, <1>3, <1>4, <1>5, <1>6, <1>7, <1>8, <1>9, <1>10, <1>11, <1>12, <1>13,
     <1>14, <1>15 DEF Next, Poller, Writer

-----------------------------------------------------------------------------
\* The inductive invariant holds in every reachable state.
THEOREM Invariance == Spec => []IndInv
<1>1. IndInv /\ [Next]_vars => IndInv'
  BY TypeStep, RegionStep, WakeupStep, ScanStep DEF IndInv
<1> QED
  BY InitIndInv, <1>1, PTL DEF Spec

\* Type correctness of the event path (SensorEventQueue and multihal poll).
THEOREM TypeCorrect == Spec => []TypeOK
  BY Invariance, PTL DEF IndInv

\* The region handed to a sub-HAL stays where markAsWritten() will publish it.
THEOREM RegionInPlace == Spec => []RegionStaysInPlace
  BY Invariance, PTL DEF IndInv

\* The unlocked writes of a sub-HAL never touch a readable slot.
THEOREM NoRace == Spec => []NoSlotIsReadAndWritten
<1>1. IndInv => NoSlotIsReadAndWritten
  BY RegionAvoidsReadable DEF IndInv, TypeOK, RegionStaysInPlace, NoSlotIsReadAndWritten
<1> QED
  BY Invariance, <1>1, PTL

\* Neither poll() nor a writer sleeps on a condition that already holds.
THEOREM WakeupsArrive == Spec => []NoLostWakeup
  BY Invariance, PTL DEF IndInv

\* Round robin: at most NumSubs - 1 events are taken before a waiting queue's.
THEOREM RoundRobin == Spec => []BoundedBypass
<1>1. ASSUME IndInv, NEW s \in Subs PROVE bypassed[s] <= NumSubs - 1
  <2>1. bypassed[s] \in Nat /\ NumSubs \in Nat /\ s \in 0 .. NumSubs - 1
        /\ nextReadIndex \in 0 .. NumSubs - 1
    BY <1>1, NumSubsAssumption DEF IndInv, TypeOK, Subs
  <2>2. bypassed[s] < Ago(s)
    BY <1>1 DEF IndInv, ScanInvariant, BypassedLessThanAgo, Ago
  <2>3. Ago(s) \in Int /\ Ago(s) <= NumSubs
    BY <2>1 DEF Ago
  <2> QED
    BY <2>1, <2>2, <2>3
<1>2. IndInv => BoundedBypass
  BY <1>1 DEF BoundedBypass
<1> QED
  BY Invariance, <1>2, PTL


(***************************************************************************)
(* The refinement: MultiHalPoll implements EventFifo, for every number of  *)
(* sub-HALs, queue capacity, batch size and handle map.  The readable      *)
(* records of a ring buffer, oldest first, are the abstract FIFO; the      *)
(* caller's buffer is the batch.                                           *)
(***************************************************************************)

\* An index within one turn of the ring is a slot; advanced by nothing it stays.
LEMMA RingSlot ==
    ASSUME NEW n \in Nat \ {0}, NEW a \in 0 .. n - 1
    PROVE  /\ \A b \in 0 .. n : (a + b) % n \in 0 .. n - 1
           /\ \A b \in 0 .. n : b = 0 => (a + b) % n = a
<1> SUFFICES ASSUME NEW b \in 0 .. n
             PROVE  (a + b) % n \in 0 .. n - 1 /\ (b = 0 => (a + b) % n = a)
  OBVIOUS
<1> DEFINE m == (a + b) % n
<1>1. m = IF a + b < n THEN a + b ELSE a + b - n
  BY RingIndex
<1> HIDE DEF m
<1>2. m \in 0 .. n - 1 /\ (b = 0 => m = a)
  BY <1>1
<1> QED
  BY <1>2 DEF m

\* A function on 1 .. n is a sequence of length n.
LEMMA FunctionIsSequence ==
    ASSUME NEW S, NEW n \in Nat, NEW f \in [1 .. n -> S]
    PROVE  f \in Seq(S) /\ Len(f) = n
  OBVIOUS

\* The readable records form a sequence of events, one per readable slot.
LEMMA ContentsIsSequence ==
    ASSUME NEW q \in Q!Queue
    PROVE  /\ Q!Contents(q) \in Seq(Event) /\ Len(Q!Contents(q)) = q.mSize
           /\ \A i \in 1 .. q.mSize :
                 Q!Contents(q)[i] = q.mData[(q.mStart + (i - 1)) % Capacity]
<1>1. /\ q.mStart \in 0 .. Capacity - 1 /\ q.mSize \in 0 .. Capacity
      /\ q.mData \in [0 .. Capacity - 1 -> Event] /\ Capacity \in Nat \ {0}
  BY CapacityAssumption DEF Q!Queue, Q!Index
<1>2. ASSUME NEW i \in 1 .. q.mSize
      PROVE  /\ q.mStart + i - 1 = q.mStart + (i - 1)
             /\ (q.mStart + (i - 1)) % Capacity \in 0 .. Capacity - 1
  <2>1. i - 1 \in 0 .. Capacity /\ q.mStart + i - 1 = q.mStart + (i - 1)
    BY <1>1
  <2>2. (q.mStart + (i - 1)) % Capacity \in 0 .. Capacity - 1
    BY <1>1, <2>1, RingSlot
  <2> QED
    BY <2>1, <2>2
<1> DEFINE At(i) == q.mData[(q.mStart + (i - 1)) % Capacity]
<1>3. Q!Contents(q) = [i \in 1 .. q.mSize |-> At(i)]
  BY <1>2 DEF Q!Contents
<1>4. \A i \in 1 .. q.mSize : At(i) \in Event
  BY <1>1, <1>2
<1> HIDE DEF At
<1>5. Q!Contents(q) \in [1 .. q.mSize -> Event] /\ q.mSize \in Nat
  BY <1>1, <1>3, <1>4
<1>6. Q!Contents(q) \in Seq(Event) /\ Len(Q!Contents(q)) = q.mSize
  BY <1>5, FunctionIsSequence
<1>7. \A i \in 1 .. q.mSize : Q!Contents(q)[i] = At(i)
  BY <1>3
<1> QED
  BY <1>6, <1>7 DEF At

\* dequeue() removes the record that peek() returned: the oldest.
LEMMA DequeueIsTail ==
    ASSUME NEW q \in Q!Queue, q.mSize > 0
    PROVE  /\ Q!Contents(q) # <<>> /\ Head(Q!Contents(q)) = Q!peek(q)
           /\ Q!Contents(Q!dequeue(q)) = Tail(Q!Contents(q))
<1> DEFINE d == Q!dequeue(q)
           c == Q!Contents(q)
           e == Q!Contents(d)
<1>1. /\ q.mStart \in 0 .. Capacity - 1 /\ q.mSize \in 1 .. Capacity /\ Capacity \in Nat \ {0}
  BY CapacityAssumption DEF Q!Queue, Q!Index
<1>2. d \in Q!Queue /\ d.mSize = q.mSize - 1 /\ d.mData = q.mData
      /\ d.mStart = (q.mStart + 1) % Capacity
  <2>1. d \in Q!Queue /\ d.mSize = q.mSize - 1
    BY DequeueKeepsFirstWritable
  <2>2. d = [q EXCEPT !.mSize = q.mSize - 1, !.mStart = (q.mStart + 1) % Capacity]
    BY <1>1 DEF Q!dequeue
  <2>3. d.mData = q.mData /\ d.mStart = (q.mStart + 1) % Capacity
    BY <2>2 DEF Q!Queue
  <2> QED
    BY <2>1, <2>3
<1>3. /\ c \in Seq(Event) /\ Len(c) = q.mSize
      /\ \A i \in 1 .. q.mSize : c[i] = q.mData[(q.mStart + (i - 1)) % Capacity]
  BY ContentsIsSequence
<1>4. /\ e \in Seq(Event) /\ Len(e) = q.mSize - 1
      /\ \A i \in 1 .. q.mSize - 1 : e[i] = q.mData[(d.mStart + (i - 1)) % Capacity]
  BY <1>2, ContentsIsSequence
<1> HIDE DEF c, d, e
<1>5. c # <<>> /\ Head(c) = Q!peek(q)
  <2>1. (q.mStart + (1 - 1)) % Capacity = q.mStart
    <3>1. 1 - 1 \in 0 .. Capacity /\ 1 - 1 = 0
      BY <1>1
    <3> QED
      BY <1>1, <3>1, RingSlot
  <2>2. 1 \in 1 .. q.mSize
    BY <1>1
  <2>3. c[1] = q.mData[q.mStart]
    BY <1>3, <2>1, <2>2
  <2> QED
    BY <1>1, <1>3, <2>3 DEF Q!peek
<1>6. ASSUME NEW i \in 1 .. q.mSize - 1 PROVE e[i] = c[i + 1]
  <2>1. i \in 1 .. Capacity /\ i + 1 \in 1 .. q.mSize /\ (i + 1) - 1 = i
    BY <1>1
  <2>2. (((q.mStart + 1) % Capacity) + (i - 1)) % Capacity = (q.mStart + i) % Capacity
    BY <1>1, <2>1, RingAdvance
  <2>3. e[i] = q.mData[(q.mStart + i) % Capacity]
    BY <1>2, <1>4, <2>2
  <2>4. c[i + 1] = q.mData[(q.mStart + ((i + 1) - 1)) % Capacity]
    BY <1>3, <2>1
  <2> QED
    BY <2>1, <2>3, <2>4
<1>7. e = Tail(c)
  <2>1. Tail(c) \in Seq(Event) /\ Len(Tail(c)) = q.mSize - 1
    BY <1>1, <1>3, <1>5
  <2>2. \A i \in 1 .. q.mSize - 1 : Tail(c)[i] = c[i + 1]
    BY <1>1, <1>3, <1>5
  <2> QED
    BY <1>4, <1>6, <2>1, <2>2, SeqEqual
<1> QED
  BY <1>5, <1>7 DEF c, d, e

\* markAsWritten() appends: what was readable stays the oldest part.
LEMMA MarkAppends ==
    ASSUME NEW q \in Q!Queue, NEW n \in Nat \ {0}, q.mSize + n <= Capacity
    PROVE  LET c == Q!Contents(q)
               m == Q!Contents(Q!markAsWritten(q, n))
           IN  Len(m) > Len(c) /\ SubSeq(m, 1, Len(c)) = c
<1> DEFINE w == Q!markAsWritten(q, n)
           c == Q!Contents(q)
           m == Q!Contents(w)
<1>1. q.mSize \in 0 .. Capacity /\ Capacity \in Nat /\ q.mSize + n \in 0 .. Capacity
  BY CapacityAssumption DEF Q!Queue
<1>2. w \in Q!Queue /\ w.mSize = q.mSize + n /\ w.mData = q.mData /\ w.mStart = q.mStart
  BY <1>1 DEF Q!markAsWritten, Q!Queue
<1>3. /\ c \in Seq(Event) /\ Len(c) = q.mSize
      /\ \A i \in 1 .. q.mSize : c[i] = q.mData[(q.mStart + (i - 1)) % Capacity]
  BY ContentsIsSequence
<1>4. /\ m \in Seq(Event) /\ Len(m) = q.mSize + n
      /\ \A i \in 1 .. q.mSize + n : m[i] = q.mData[(q.mStart + (i - 1)) % Capacity]
  BY <1>2, ContentsIsSequence
<1> HIDE DEF c, m, w
<1>5. \A i \in 1 .. q.mSize : i \in 1 .. q.mSize + n
  BY <1>1
<1>6. \A i \in 1 .. q.mSize : m[i] = c[i] /\ m[i] \in Event
  BY <1>3, <1>4, <1>5
<1>7. /\ SubSeq(m, 1, q.mSize) \in Seq(Event) /\ Len(SubSeq(m, 1, q.mSize)) = q.mSize
      /\ \A i \in 1 .. q.mSize : SubSeq(m, 1, q.mSize)[i] = c[i]
  BY <1>1, <1>4, <1>6
<1>8. SubSeq(m, 1, q.mSize) = c
  BY <1>3, <1>7, SeqEqual
<1> QED
  BY <1>1, <1>3, <1>4, <1>8 DEF c, m, w

\* Writing to a slot that is not readable changes no readable record.
LEMMA WriteIsInvisible ==
    ASSUME NEW q \in Q!Queue, NEW k \in Q!Index \ Q!ReadableSlots(q), NEW e \in Event
    PROVE  Q!Contents([q EXCEPT !.mData[k] = e]) = Q!Contents(q)
<1> DEFINE w == [q EXCEPT !.mData[k] = e]
           c == Q!Contents(q)
           m == Q!Contents(w)
<1>1. /\ w \in Q!Queue /\ w.mSize = q.mSize /\ w.mStart = q.mStart
      /\ \A i \in Q!Index : i # k => w.mData[i] = q.mData[i]
  BY DEF Q!Queue
<1>2. /\ q.mStart \in 0 .. Capacity - 1 /\ q.mSize \in 0 .. Capacity /\ Capacity \in Nat \ {0}
  BY CapacityAssumption DEF Q!Queue, Q!Index
<1>3. /\ c \in Seq(Event) /\ Len(c) = q.mSize
      /\ \A i \in 1 .. q.mSize : c[i] = q.mData[(q.mStart + (i - 1)) % Capacity]
  BY ContentsIsSequence
<1> HIDE DEF w
<1>4. /\ m \in Seq(Event) /\ Len(m) = q.mSize
      /\ \A i \in 1 .. q.mSize : m[i] = w.mData[(q.mStart + (i - 1)) % Capacity]
  BY <1>1, ContentsIsSequence
<1> HIDE DEF c, m
<1>5. ASSUME NEW i \in 1 .. q.mSize PROVE m[i] = c[i]
  <2> DEFINE j == (q.mStart + (i - 1)) % Capacity
  <2>1. i - 1 \in 0 .. q.mSize - 1 /\ i - 1 \in 0 .. Capacity
    BY <1>2
  <2>2. j \in Q!Index
    BY <1>2, <2>1, RingSlot DEF Q!Index
  <2>3. j \in Q!ReadableSlots(q)
    BY <2>1 DEF Q!ReadableSlots
  <2>4. m[i] = w.mData[j] /\ c[i] = q.mData[j]
    BY <1>3, <1>4
  <2> HIDE DEF j
  <2> QED
    BY <1>1, <2>2, <2>3, <2>4
<1> QED
  BY <1>3, <1>4, <1>5, SeqEqual DEF c, m, w

(***************************************************************************)
(* Every step of the threads is a step of the FIFOs or leaves them alone.  *)
(***************************************************************************)

\* The initial queues and the caller's buffer are empty.
LEMMA FifoInit == Init => Fifo!Init
<1> SUFFICES ASSUME Init PROVE Fifo!Init
  OBVIOUS
<1>1. \A s \in Subs : Q!Contents(queues[s]) = <<>>
  BY DEF Init, Q!NewQueue, Q!Contents
<1> QED
  BY <1>1 DEF Init, Fifo!Init

\* Two states with the same readable records and the same buffer are alike.
LEMMA FifoStutter ==
    ASSUME \A s \in Subs : Q!Contents(queues'[s]) = Q!Contents(queues[s]), data' = data
    PROVE  UNCHANGED Fifo!vars
  BY DEF Fifo!vars

\* The second critical section of a writer is an acceptance.
LEMMA MarksAccepts ==
    ASSUME IndInv, NEW s \in Subs, WriterMarks(s), buffer[s].polled > 0
    PROVE  Fifo!Accept(s)
<1> DEFINE q == queues[s]
           n == buffer[s].polled
<1>1. q \in Q!Queue /\ n \in Nat \ {0}
  BY DEF IndInv, TypeOK
<1>2. q.mSize + n <= Capacity
  BY <1>1, CapacityAssumption, SMTT(30) DEF WriterMarks, IndInv, TypeOK, RegionStaysInPlace, Q!Queue
<1>3. /\ queues'[s] = Q!markAsWritten(q, n) /\ data' = data
      /\ \A t \in Subs : t # s => queues'[t] = queues[t]
  BY DEF WriterMarks, IndInv, TypeOK
<1>4. LET c == Q!Contents(q)
          m == Q!Contents(queues'[s])
      IN  Len(m) > Len(c) /\ SubSeq(m, 1, Len(c)) = c
  BY <1>1, <1>2, <1>3, MarkAppends
<1>5. [t \in Subs |-> Q!Contents(queues'[t])] =
      [[t \in Subs |-> Q!Contents(queues[t])] EXCEPT ![s] = Q!Contents(queues'[s])]
  BY <1>3
<1> QED
  BY <1>3, <1>4, <1>5 DEF Fifo!Accept

\* One iteration of poll() over a queue with an event takes that event.
LEMMA ReadTakes ==
    ASSUME IndInv, PollReadsEvent
    PROVE  Fifo!Take(nextReadIndex)
<1> DEFINE s == nextReadIndex
           q == queues[s]
           e == copy_event_remap_handle(s, Q!peek(q))
<1>1. s \in Subs /\ q \in Q!Queue /\ q.mSize > 0 /\ Len(data) < MaxReads
  BY DEF IndInv, TypeOK, PollReadsEvent, ScanGoesOn
<1>2. /\ queues'[s] = Q!dequeue(q) /\ \A t \in Subs : t # s => queues'[t] = queues[t]
      /\ data' = IF BadHandle(e) THEN data ELSE Append(data, e)
  BY <1>1 DEF PollReadsEvent, IndInv, TypeOK
<1>3. /\ Q!Contents(q) # <<>> /\ Head(Q!Contents(q)) = Q!peek(q)
      /\ Q!Contents(queues'[s]) = Tail(Q!Contents(q))
  BY <1>1, <1>2, DequeueIsTail
<1>4. [t \in Subs |-> Q!Contents(queues'[t])] =
      [[t \in Subs |-> Q!Contents(queues[t])] EXCEPT ![s] = Tail(@)]
  BY <1>1, <1>2, <1>3
<1> QED
  BY <1>1, <1>2, <1>3, <1>4 DEF Fifo!Take

\* What a sub-HAL writes without the mutex is not readable yet.
LEMMA WritesAreInvisible ==
    ASSUME IndInv, NEW s \in Subs, SubHalWrites(s)
    PROVE  UNCHANGED Fifo!vars
<1> DEFINE q == queues[s]
           r == buffer[s]
           k == r.first + r.polled
<1>1. /\ q \in Q!Queue /\ r \in [first : Q!Index, len : 0 .. Capacity, polled : 0 .. Capacity]
      /\ r.polled < r.len /\ r.first = Q!FirstWritable(q) /\ r.first + r.len <= Capacity
      /\ r.len + q.mSize <= Capacity
  BY DEF SubHalWrites, IndInv, TypeOK, RegionStaysInPlace
<1>2. Q!RegionSlots(r) \cap Q!ReadableSlots(q) = {}
  BY <1>1, RegionAvoidsReadable
<1>3. k \in Q!Index /\ k \in Q!RegionSlots(r)
  BY <1>1, CapacityAssumption DEF Q!Index, Q!RegionSlots
<1>4. accepted[s] + r.polled + 1 \in 1 .. MaxEvents
  BY <1>1, MaxEventsAssumption DEF SubHalWrites, IndInv, TypeOK
<1>5. PICK e \in Event : queues' = [queues EXCEPT ![s].mData[k] = e]
  BY <1>4, SubHalEventsType DEF SubHalWrites
<1>6. queues'[s] = [q EXCEPT !.mData[k] = e] /\ \A t \in Subs : t # s => queues'[t] = queues[t]
  BY <1>5 DEF IndInv, TypeOK
<1>7. Q!Contents(queues'[s]) = Q!Contents(q)
  BY <1>1, <1>2, <1>3, <1>6, WriteIsInvisible
<1> QED
  BY <1>6, <1>7, FifoStutter DEF SubHalWrites, pollVars

\* Writers and poll() only ever do what the FIFOs allow.
LEMMA FifoStep == IndInv /\ [Next]_vars => [Fifo!Next]_Fifo!vars
<1> SUFFICES ASSUME IndInv, [Next]_vars PROVE Fifo!Next \/ UNCHANGED Fifo!vars
  OBVIOUS
<1>1. CASE PollReadsEvent
  BY <1>1, ReadTakes DEF Fifo!Next, IndInv, TypeOK
<1>2. CASE PollReturns
  <2>1. Fifo!Return
    BY <1>2 DEF PollReturns, Fifo!Return
  <2> QED
    BY <2>1 DEF Fifo!Next
<1>3. CASE PollCall
  BY <1>3, FifoStutter DEF PollCall, IndInv, ScanInvariant, MutexWhileScanning
<1>4. CASE \/ PollSkipsEmptyQueue \/ PollWaits \/ PollResumes \/ PollWakesSpuriously
           \/ UNCHANGED vars
  BY <1>4, FifoStutter DEF PollSkipsEmptyQueue, PollWaits, PollResumes, PollWakesSpuriously,
     vars, pollVars
<1>5. ASSUME NEW s \in Subs, SubHalWrites(s) PROVE UNCHANGED Fifo!vars
  BY <1>5, WritesAreInvisible
<1>6. ASSUME NEW s \in Subs, WriterMarks(s) PROVE Fifo!Next \/ UNCHANGED Fifo!vars
  <2>1. CASE buffer[s].polled > 0
    BY <1>6, <2>1, MarksAccepts DEF Fifo!Next
  <2>2. CASE ~(buffer[s].polled > 0)
    <3>1. queues[s] \in Q!Queue /\ buffer[s].polled = 0
      BY <2>2 DEF IndInv, TypeOK
    <3>2. Q!markAsWritten(queues[s], 0) = queues[s]
      BY <3>1 DEF Q!markAsWritten, Q!Queue
    <3>3. \A t \in Subs : queues'[t] = queues[t]
      BY <1>6, <3>1, <3>2 DEF WriterMarks, IndInv, TypeOK
    <3> QED
      BY <1>6, <3>3, FifoStutter DEF WriterMarks
  <2> QED
    BY <2>1, <2>2
<1>7. ASSUME NEW s \in Subs,
             \/ WriterWaitsForSpace(s) \/ WriterTakesRegion(s) \/ SubHalReturns(s)
             \/ SubHalFails(s) \/ WriterWakesSpuriously(s)
      PROVE  UNCHANGED Fifo!vars
  BY <1>7, FifoStutter DEF WriterWaitsForSpace, WriterTakesRegion, SubHalReturns, SubHalFails,
     WriterWakesSpuriously, pollVars
<1> QED
  BY <1>1, <1>2, <1>3, <1>4, <1>5, <1>6, <1>7 DEF Next, Poller, Writer

\* The multihal's event path implements one FIFO per sub-HAL: poll() hands
\* upstream what the sub-HALs published, in order, without loss, duplication or
\* torn records, in non-empty batches.
THEOREM ImplementsFifo == Spec => FifoSpec
<1>1. IndInv /\ [Next]_vars => [Fifo!Next]_Fifo!vars
  BY FifoStep
<1> QED
  BY Invariance, FifoInit, <1>1, PTL DEF Spec, FifoSpec, Fifo!Spec

-----------------------------------------------------------------------------
(* How far the test for bad handles in poll() reaches. *)

\* The sub-HALs send META_DATA events about sensors in their lists only.
MetaDataIsKnown ==
    \A s \in Subs, n \in 1 .. MaxEvents : \A k \in EventKinds[n] :
        k.type = "meta_data" => <<s, k.handle>> \in DOMAIN full_to_global

\* An event of sub-HAL s whose META_DATA payload, if it has one, can be remapped.
Remappable(s, e) == IF e.type = "meta_data" THEN <<s, e.meta>> \in DOMAIN full_to_global
                    ELSE e.meta = 0

SlotsAreRemappable == \A s \in Subs : \A i \in Q!Index : Remappable(s, queues[s].mData[i])

\* What is remapped and passes the test of poll() has no bad handle.
LEMMA RemappedIsGood ==
  ASSUME NEW s \in Subs, NEW e \in Event, Remappable(s, e),
         ~BadHandle(copy_event_remap_handle(s, e))
  PROVE  LET c == copy_event_remap_handle(s, e) IN c.sensor # NoHandle /\ c.meta # NoHandle
  BY HandleAssumption DEF Remappable, BadHandle, copy_event_remap_handle, get_global_handle,
     NoHandle, Event

\* Every step keeps the events in the queues and in the caller's buffer good.
LEMMA UpstreamStep ==
  ASSUME MetaDataIsKnown, IndInv, SlotsAreRemappable, NoCorruptEventUpstream, [Next]_vars
  PROVE  SlotsAreRemappable' /\ NoCorruptEventUpstream'
<1>1. queues \in [Subs -> Q!Queue] /\ data \in Seq(Event) /\ nextReadIndex \in Subs
  BY DEF IndInv, TypeOK
<1>2. ASSUME \A s \in Subs : queues'[s].mData = queues[s].mData
      PROVE  SlotsAreRemappable'
  BY <1>2 DEF SlotsAreRemappable
<1>3. ASSUME data' \in {data, <<>>}
      PROVE  NoCorruptEventUpstream'
  BY <1>3 DEF NoCorruptEventUpstream
<1>4. CASE PollReadsEvent
  <2> DEFINE s == nextReadIndex
             p == Q!peek(queues[s])
             e == copy_event_remap_handle(s, p)
  <2>1. queues[s] \in Q!Queue /\ p \in Event /\ Remappable(s, p)
    BY <1>1 DEF Q!peek, Q!Queue, SlotsAreRemappable
  <2>2. Q!dequeue(queues[s]).mData = queues[s].mData
    BY <2>1 DEF Q!dequeue, Q!Queue
  <2>3. \A t \in Subs : queues'[t].mData = queues[t].mData
    BY <1>1, <1>4, <2>2 DEF PollReadsEvent
  <2>4. data' = IF BadHandle(e) THEN data ELSE Append(data, e)
    BY <1>4 DEF PollReadsEvent
  <2>5. NoCorruptEventUpstream'
    <3>1. CASE BadHandle(e)
      BY <1>3, <2>4, <3>1
    <3>2. CASE ~BadHandle(e)
      <4>1. e.sensor # NoHandle /\ e.meta # NoHandle
        BY <1>1, <2>1, <3>2, RemappedIsGood
      <4> HIDE DEF e
      <4>2. data' = Append(data, e)
        BY <2>4, <3>2
      <4> QED
        BY <1>1, <4>1, <4>2 DEF NoCorruptEventUpstream
    <3> QED
      BY <3>1, <3>2
  <2> QED
    BY <1>2, <2>3, <2>5
<1>5. ASSUME NEW s \in Subs, SubHalWrites(s)
      PROVE  SlotsAreRemappable' /\ NoCorruptEventUpstream'
  <2> DEFINE k == buffer[s].first + buffer[s].polled
             n == accepted[s] + buffer[s].polled + 1
  <2>1. n \in 1 .. MaxEvents
    BY <1>5, MaxEventsAssumption DEF SubHalWrites, IndInv, TypeOK
  <2>2. PICK e \in SubHalEvents(n) : queues' = [queues EXCEPT ![s].mData[k] = e]
    BY <1>5 DEF SubHalWrites
  <2> HIDE DEF k, n
  <2>3. Remappable(s, e)
    <3>1. PICK d \in EventKinds[n] :
             /\ e.type = d.type /\ e.meta = IF d.type = "data" THEN 0 ELSE d.handle
             /\ d.type \in {"data", "meta_data"}
      BY <2>1, HandleAssumption DEF SubHalEvents
    <3>2. d.type = "meta_data" => <<s, d.handle>> \in DOMAIN full_to_global
      BY <2>1 DEF MetaDataIsKnown
    <3> QED
      BY <3>1, <3>2 DEF Remappable
  <2>4. \A t \in Subs : \A i \in Q!Index :
           queues'[t].mData[i] = queues[t].mData[i] \/ (t = s /\ queues'[t].mData[i] = e)
    BY <1>1, <2>2 DEF Q!Queue
  <2>5. SlotsAreRemappable'
    BY <2>3, <2>4 DEF SlotsAreRemappable
  <2> QED
    BY <1>3, <1>5, <2>5 DEF SubHalWrites, pollVars
<1>6. ASSUME NEW s \in Subs, WriterMarks(s)
      PROVE  SlotsAreRemappable' /\ NoCorruptEventUpstream'
  <2>1. \A t \in Subs : queues'[t].mData = queues[t].mData
    BY <1>1, <1>6 DEF WriterMarks, Q!markAsWritten, Q!Queue
  <2> QED
    BY <1>2, <1>3, <1>6, <2>1 DEF WriterMarks
<1>7. CASE \/ PollCall \/ PollSkipsEmptyQueue \/ PollWaits \/ PollResumes \/ PollReturns
           \/ PollWakesSpuriously \/ UNCHANGED vars
  BY <1>2, <1>3, <1>7 DEF PollCall, PollSkipsEmptyQueue, PollWaits, PollResumes, PollReturns,
     PollWakesSpuriously, vars, pollVars
<1>8. ASSUME NEW s \in Subs,
             \/ WriterWaitsForSpace(s) \/ WriterTakesRegion(s) \/ SubHalReturns(s)
             \/ SubHalFails(s) \/ WriterWakesSpuriously(s)
      PROVE  SlotsAreRemappable' /\ NoCorruptEventUpstream'
  BY <1>2, <1>3, <1>8 DEF WriterWaitsForSpace, WriterTakesRegion, SubHalReturns, SubHalFails,
     WriterWakesSpuriously, pollVars
<1> QED
  BY <1>4, <1>5, <1>6, <1>7, <1>8 DEF Next, Poller, Writer

\* META_DATA events about unknown sensors are the only ones that the test in
\* poll() lets through: if the sub-HALs send none, no event with an unknown
\* handle reaches the framework.
THEOREM OnlyMetaDataIsCorrupt == MetaDataIsKnown => (Spec => []NoCorruptEventUpstream)
<1> SUFFICES ASSUME MetaDataIsKnown PROVE Spec => []NoCorruptEventUpstream
  OBVIOUS
<1> DEFINE Good == SlotsAreRemappable /\ NoCorruptEventUpstream
<1>1. Init => Good
  <2> SUFFICES ASSUME Init PROVE Good
    OBVIOUS
  <2>1. SlotsAreRemappable
    BY DEF Init, Q!NewQueue, Blank, SlotsAreRemappable, Remappable
  <2>2. NoCorruptEventUpstream
    BY DEF Init, NoCorruptEventUpstream
  <2> QED
    BY <2>1, <2>2
<1>2. IndInv /\ Good /\ [Next]_vars => Good'
  BY UpstreamStep
<1> QED
  BY <1>1, <1>2, Invariance, PTL DEF Spec
=============================================================================
