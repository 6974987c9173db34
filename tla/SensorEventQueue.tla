-------------------------- MODULE SensorEventQueue --------------------------
(***************************************************************************)
(* The fixed-size circular queue of sensors/SensorEventQueue.cpp, as       *)
(* operators on a queue value [mStart, mSize, mData].  mStart..mStart +    *)
(* mSize - 1 (modulo mCapacity) is the readable region.  The condition     *)
(* variable mSpaceAvailableCondition belongs to the threads that wait on   *)
(* it and is modelled in MultiHalPoll.                                     *)
(***************************************************************************)
EXTENDS Integers

CONSTANTS mCapacity,   \* SENSOR_EVENT_QUEUE_CAPACITY, at least 1
          Slot         \* what one sensors_event_t slot of mData may hold

Index == 0 .. mCapacity - 1

Queue == [mStart : Index, mSize : 0 .. mCapacity, mData : [Index -> Slot]]

\* The constructor; "new sensors_event_t[]" leaves the slots uninitialised, so
\* the first contents are a parameter.
NewQueue(blank) == [mStart |-> 0, mSize |-> 0, mData |-> [i \in Index |-> blank]]

\* Where the writer continues: just after the last readable record.
FirstWritable(q) == (q.mStart + q.mSize) % mCapacity

\* Mutant: the clamp to the readable region is off by one.
LastWritable_TouchesReadable(q, requestedLength) ==
    LET first == FirstWritable(q)
        last  == first + requestedLength - 1
        inArray == IF last > mCapacity - 1 THEN mCapacity - 1 ELSE last
    IN  IF first < q.mStart /\ inArray >= q.mStart THEN q.mStart ELSE inArray

\* The last slot of a region of at most requestedLength slots: it neither
\* passes the end of the array nor enters the readable region.
LastWritable(q, requestedLength) ==
    LET first == FirstWritable(q)
        last  == first + requestedLength - 1
        inArray == IF last > mCapacity - 1 THEN mCapacity - 1 ELSE last
    IN  IF first < q.mStart /\ inArray >= q.mStart THEN q.mStart - 1 ELSE inArray

\* The contiguous region handed to the sub-HAL's poll().
getWritableRegion(q, requestedLength) ==
    IF q.mSize = mCapacity \/ requestedLength <= 0
    THEN [first |-> 0, len |-> 0]
    ELSE [first |-> FirstWritable(q),
          len   |-> LastWritable(q, requestedLength) - FirstWritable(q) + 1]

markAsWritten(q, count) == [q EXCEPT !.mSize = @ + count]

\* peek() is only used on a queue that is not empty.
peek(q) == q.mData[q.mStart]

\* Mutant: mStart is not wrapped together with the array.
dequeue_NoAdvance(q) ==
    IF q.mSize = 0 THEN q ELSE [q EXCEPT !.mSize = @ - 1]

dequeue(q) ==
    IF q.mSize = 0
    THEN q
    ELSE [q EXCEPT !.mSize = @ - 1, !.mStart = (@ + 1) % mCapacity]

\* The slots a reader may look at, and the slots of a region.
ReadableSlots(q) == {(q.mStart + i) % mCapacity : i \in 0 .. q.mSize - 1}
RegionSlots(r)   == r.first .. r.first + r.len - 1

\* The readable records, oldest first.
Contents(q) == [i \in 1 .. q.mSize |-> q.mData[(q.mStart + i - 1) % mCapacity]]
=============================================================================
