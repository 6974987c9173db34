-------------------------- MODULE PowerBoostProofs --------------------------
(***************************************************************************)
(* The safety of the boost's state, proved for any set of callers, any     *)
(* clock bound, any limits and any values a hint may carry; and how far    *)
(* the nodes follow it.                                                    *)
(***************************************************************************)
EXTENDS PowerBoost, TLAPS

Labels == {"none", "idle", "request", "cancel", "write", "loop", "wait", "timedwait"}

IndInv == /\ TypeOK
          /\ BoostKeepsPromise
          /\ DeadlineBounded /\ PendingBounded
          /\ NoBoostInLowPower

\* request_boost() grants between 1 and MAX_BOOST_MS.
LEMMA ClampRange ==
    ASSUME NEW ms \in Int
    PROVE  Clamp(ms) \in 1 .. MAX_BOOST_MS
  BY PowerAssumption DEF Clamp

\* The microsecond hint is an integer number of milliseconds.
LEMMA MsOfUsInt ==
    ASSUME NEW us \in Int
    PROVE  MsOfUs(us) \in Int
  BY PowerAssumption DEF MsOfUs

\* All boost requests, whatever hint they come from, are RequestBegins steps.
LEMMA RequestHints ==
    ASSUME NEW c \in Callers, HintInteraction(c) \/ HintLaunch(c) \/ HintCpuBoost(c)
    PROVE  \E ms \in Int : RequestBegins(c, ms)
  BY MsOfUsInt, PowerAssumption DEF HintInteraction, HintLaunch, HintCpuBoost

\* What an actor may be writing.
Write == [on : BOOLEAN, next : 1 .. NumNodes + 1]

\* Switching the boost starts at the first node.
LEMMA FirstWrite == \A on \in BOOLEAN : [on |-> on, next |-> 1] \in Write
<1>1. 1 \in 1 .. NumNodes + 1
  BY PowerAssumption
<1> QED
  BY <1>1 DEF Write

\* The first state satisfies the invariant.
LEMMA InitIndInv == Init => IndInv
<1> SUFFICES ASSUME Init PROVE IndInv
  OBVIOUS
<1>1. writing \in [Actors -> Write]
  BY FirstWrite DEF Init, Idle
<1>2. pc \in [Actors -> Labels]
  BY DEF Init, Labels
<1>3. TypeOK
  BY <1>1, <1>2, PowerAssumption DEF Init, TypeOK, Write, Labels, Nodes
<1>4. BoostKeepsPromise /\ DeadlineBounded /\ PendingBounded /\ NoBoostInLowPower
  BY PowerAssumption DEF Init, BoostKeepsPromise, DeadlineBounded, PendingBounded,
     NoBoostInLowPower
<1> QED
  BY <1>3, <1>4 DEF IndInv

\* Every step keeps the types.
LEMMA TypeStep == TypeOK /\ [Next]_vars => TypeOK'
<1> SUFFICES ASSUME TypeOK, [Next]_vars PROVE TypeOK'
  OBVIOUS
<1> USE PowerAssumption DEF TypeOK, boostVars
<1>1. CASE Tick
  BY <1>1 DEF Tick
<1>2. CASE power_init
  BY <1>2 DEF power_init
<1>3. CASE WorkerWaits
  BY <1>3 DEF WorkerWaits
<1>4. CASE WorkerTimesOut
  <2>1. writing' \in [Actors -> Write]
    BY <1>4, FirstWrite DEF WorkerTimesOut, Write
  <2>2. boost_active' \in BOOLEAN
    BY <1>4 DEF WorkerTimesOut
  <2> QED
    BY <1>4, <2>1, <2>2 DEF WorkerTimesOut, Write
<1>5. CASE WorkerWakesSpuriously
  BY <1>5 DEF WorkerWakesSpuriously
<1>6. ASSUME NEW a \in Actors, WriteNode(a) PROVE TypeOK'
  <2>1. /\ writing[a] \in Write /\ writing[a].on \in BOOLEAN
        /\ writing[a].next + 1 \in 1 .. NumNodes + 1
    BY <1>6 DEF WriteNode, Nodes, Write
  <2>2. writing' \in [Actors -> Write]
    <3>1. [writing[a] EXCEPT !.next = @ + 1] \in Write
      BY <2>1 DEF Write
    <3> QED
      BY <1>6, <3>1 DEF WriteNode, Write
  <2>3. node' \in [Nodes -> BOOLEAN]
    BY <1>6, <2>1 DEF WriteNode
  <2> QED
    BY <1>6, <2>2, <2>3 DEF WriteNode, Write
<1>7. ASSUME NEW a \in Actors, WritesDone(a) PROVE TypeOK'
  BY <1>7 DEF WritesDone, Idle
<1>8. ASSUME NEW c \in Callers, NEW ms \in Int, RequestBegins(c, ms) PROVE TypeOK'
  <2>1. now + Clamp(ms) \in Nat
    BY ClampRange
  <2> QED
    BY <1>8, <2>1 DEF RequestBegins
<1>9. ASSUME NEW c \in Callers, RequestRefused(c) PROVE TypeOK'
  BY <1>9 DEF RequestRefused
<1>10. ASSUME NEW c \in Callers, RequestGranted(c) PROVE TypeOK'
  <2>1. boost_deadline' \in Nat /\ promised' \in Nat
    BY <1>10 DEF RequestGranted, Deadline
  <2>2. pc' \in [Actors -> Labels]
    BY <1>10 DEF RequestGranted, AfterSignal, Labels
  <2>3. writing' \in [Actors -> Write]
    BY <1>10, FirstWrite DEF RequestGranted, Write
  <2> QED
    BY <1>10, <2>1, <2>2, <2>3 DEF RequestGranted, Labels, Write
<1>11. ASSUME NEW c \in Callers, SetNotInteractive(c) PROVE TypeOK'
  BY <1>11 DEF SetNotInteractive, Actors
<1>12. ASSUME NEW c \in Callers, HintLowPower(c) PROVE TypeOK'
  BY <1>12 DEF HintLowPower, Actors
<1>13. ASSUME NEW c \in Callers, CancelLocks(c) PROVE TypeOK'
  <2>1. pc' \in [Actors -> Labels]
    BY <1>13 DEF CancelLocks, AfterSignal, Labels
  <2>2. writing' \in [Actors -> Write]
    BY <1>13, FirstWrite DEF CancelLocks, Write
  <2> QED
    BY <1>13, <2>1, <2>2 DEF CancelLocks, Labels, Write
<1>14. CASE UNCHANGED vars
  BY <1>14 DEF vars
<1> QED
  BY <1>1, <1>2, <1>3, <1>4, <1>5, <1>6, <1>7, <1>8, <1>9, <1>10, <1>11, <1>12, <1>13, <1>14,
     RequestHints DEF Next, WorkerStep, Hint, InCall, Actors

\* Every step keeps what a granted request was promised: deadlines only grow
\* while the boost is active, and the worker looks at the clock again.
LEMMA PromiseStep == IndInv /\ [Next]_vars => BoostKeepsPromise'
<1> SUFFICES ASSUME IndInv, [Next]_vars PROVE BoostKeepsPromise'
  OBVIOUS
<1> USE DEF IndInv, TypeOK, BoostKeepsPromise
<1>1. CASE UNCHANGED <<now, boost_active, boost_deadline, promised>>
  BY <1>1
<1>2. CASE Tick
  BY <1>2 DEF Tick, boostVars
<1>3. CASE WorkerTimesOut
  BY <1>3 DEF WorkerTimesOut, Expired
<1>4. ASSUME NEW c \in Callers, RequestGranted(c) PROVE BoostKeepsPromise'
  BY <1>4 DEF RequestGranted, Deadline
<1>5. ASSUME NEW c \in Callers, CancelLocks(c) PROVE BoostKeepsPromise'
  BY <1>5 DEF CancelLocks
<1>6. ASSUME NEW c \in Callers, Hint(c) \/ RequestRefused(c)
      PROVE  UNCHANGED <<now, boost_active, boost_deadline, promised>>
  BY <1>6, RequestHints DEF Hint, RequestBegins, SetNotInteractive, HintLowPower,
     RequestRefused, boostVars
<1>7. ASSUME NEW a \in Actors, WriteNode(a) \/ WritesDone(a)
      PROVE  UNCHANGED <<now, boost_active, boost_deadline, promised>>
  BY <1>7 DEF WriteNode, WritesDone, boostVars
<1>8. CASE power_init \/ WorkerWaits \/ WorkerWakesSpuriously \/ UNCHANGED vars
  BY <1>8 DEF power_init, WorkerWaits, WorkerWakesSpuriously, vars, boostVars
<1> QED
  BY <1>1, <1>2, <1>3, <1>4, <1>5, <1>6, <1>7, <1>8 DEF Next, WorkerStep, InCall, Actors

\* Every step keeps the deadlines within MAX_BOOST_MS of the clock.
LEMMA BoundStep == IndInv /\ [Next]_vars => DeadlineBounded' /\ PendingBounded'
<1> SUFFICES ASSUME IndInv, [Next]_vars PROVE DeadlineBounded' /\ PendingBounded'
  OBVIOUS
<1> USE PowerAssumption DEF IndInv, TypeOK, DeadlineBounded, PendingBounded
<1>1. CASE UNCHANGED <<now, boost_active, boost_deadline, deadline>>
  BY <1>1
<1>2. CASE Tick
  BY <1>2 DEF Tick, boostVars
<1>3. CASE WorkerTimesOut
  BY <1>3 DEF WorkerTimesOut
<1>4. ASSUME NEW c \in Callers, RequestGranted(c) PROVE DeadlineBounded' /\ PendingBounded'
  BY <1>4 DEF RequestGranted, Deadline
<1>5. ASSUME NEW c \in Callers, CancelLocks(c) PROVE DeadlineBounded' /\ PendingBounded'
  BY <1>5 DEF CancelLocks
<1>6. ASSUME NEW c \in Callers, NEW ms \in Int, RequestBegins(c, ms)
      PROVE  DeadlineBounded' /\ PendingBounded'
  BY <1>6, ClampRange DEF RequestBegins, boostVars
<1>7. ASSUME NEW c \in Callers, RequestRefused(c) PROVE DeadlineBounded' /\ PendingBounded'
  BY <1>7 DEF RequestRefused, boostVars
<1>8. ASSUME NEW c \in Callers, SetNotInteractive(c) \/ HintLowPower(c)
      PROVE  UNCHANGED <<now, boost_active, boost_deadline, deadline>>
  BY <1>8 DEF SetNotInteractive, HintLowPower, boostVars
<1>9. ASSUME NEW a \in Actors, WriteNode(a) \/ WritesDone(a)
      PROVE  UNCHANGED <<now, boost_active, boost_deadline, deadline>>
  BY <1>9 DEF WriteNode, WritesDone, boostVars
<1>10. CASE power_init \/ WorkerWaits \/ WorkerWakesSpuriously \/ UNCHANGED vars
  BY <1>10 DEF power_init, WorkerWaits, WorkerWakesSpuriously, vars, boostVars
<1> QED
  BY <1>1, <1>2, <1>3, <1>4, <1>5, <1>6, <1>7, <1>8, <1>9, <1>10, RequestHints
     DEF Next, WorkerStep, Hint, InCall, Actors

\* Every step keeps low power mode free of boosts, but for a pending cancel.
LEMMA LowPowerStep == IndInv /\ [Next]_vars => NoBoostInLowPower'
<1> SUFFICES ASSUME IndInv, [Next]_vars, low_power_mode', boost_active'
             PROVE  \E c \in Callers : pc'[c] = "cancel"
  BY DEF NoBoostInLowPower
<1> USE PowerAssumption DEF IndInv, TypeOK, NoBoostInLowPower
<1>1. ASSUME low_power_mode, boost_active, NEW a \in Actors, pc[a] # "cancel",
             \A b \in Actors : b # a => pc'[b] = pc[b]
      PROVE  \E c \in Callers : pc'[c] = "cancel"
  BY <1>1 DEF Actors
<1>2. CASE Tick \/ UNCHANGED vars
  BY <1>2 DEF Tick, vars, boostVars
<1>3. CASE power_init \/ WorkerWaits \/ WorkerWakesSpuriously \/ WorkerTimesOut
  BY <1>3 DEF power_init, WorkerWaits, WorkerWakesSpuriously, WorkerTimesOut, boostVars, Actors
<1>4. ASSUME NEW a \in Actors, WriteNode(a) \/ WritesDone(a)
      PROVE  \E c \in Callers : pc'[c] = "cancel"
  BY <1>4, <1>1 DEF WriteNode, WritesDone, boostVars
<1>5. ASSUME NEW c \in Callers, NEW ms \in Int, RequestBegins(c, ms)
      PROVE  \E d \in Callers : pc'[d] = "cancel"
  BY <1>5, <1>1 DEF RequestBegins, boostVars, Actors
<1>6. ASSUME NEW c \in Callers, RequestRefused(c) PROVE \E d \in Callers : pc'[d] = "cancel"
  BY <1>6, <1>1 DEF RequestRefused, boostVars, Actors
<1>7. ASSUME NEW c \in Callers, RequestGranted(c) PROVE FALSE
  BY <1>7 DEF RequestGranted, Refused
<1>8. ASSUME NEW c \in Callers, SetNotInteractive(c) PROVE \E d \in Callers : pc'[d] = "cancel"
  BY <1>8 DEF SetNotInteractive, Actors
<1>9. ASSUME NEW c \in Callers, HintLowPower(c) PROVE \E d \in Callers : pc'[d] = "cancel"
  BY <1>9 DEF HintLowPower, Actors
<1>10. ASSUME NEW c \in Callers, CancelLocks(c) PROVE FALSE
  BY <1>10 DEF CancelLocks
<1> QED
  BY <1>2, <1>3, <1>4, <1>5, <1>6, <1>7, <1>8, <1>9, <1>10, RequestHints
     DEF Next, WorkerStep, Hint, InCall, Actors

-----------------------------------------------------------------------------
\* The inductive invariant holds in every reachable state.
THEOREM Invariance == Spec => []IndInv
<1>1. IndInv /\ [Next]_vars => IndInv'
  BY TypeStep, PromiseStep, BoundStep, LowPowerStep DEF IndInv
<1> QED
  BY InitIndInv, <1>1, PTL DEF Spec

\* Type correctness of the power HAL's boost state.
THEOREM TypeCorrect == Spec => []TypeOK
  BY Invariance, PTL DEF IndInv

\* A granted boost lasts until the latest deadline granted since the last cancel.
THEOREM PromiseKept == Spec => []BoostKeepsPromise
  BY Invariance, PTL DEF IndInv

\* No boost is ever due to last longer than MAX_BOOST_MS from now.
THEOREM BoostIsShort == Spec => []DeadlineBounded
  BY Invariance, PTL DEF IndInv

\* Low power mode excludes boosts once its cancel has run.
THEOREM LowPowerIsQuiet == Spec => []NoBoostInLowPower
  BY Invariance, PTL DEF IndInv

-----------------------------------------------------------------------------
(* How far the nodes follow the boost although they are written without the *)
(* lock: as long as two calls of set_interaction_boost() do not overlap.    *)

AtMostOneWriter == \A a, b \in Actors : pc[a] = "write" /\ pc[b] = "write" => a = b

\* The nodes written so far are as the boost is now: all of them when nobody
\* is writing, those before the next one while somebody is.
NodesFollow ==
    /\ (\A a \in Actors : pc[a] # "write") => \A i \in Nodes : node[i] <=> boost_active
    /\ \A a \in Actors : pc[a] = "write" =>
          /\ writing[a].on <=> boost_active
          /\ \A i \in Nodes : i < writing[a].next => (node[i] <=> boost_active)
    /\ boost_thread_started \/ pc[Worker] = "none"

\* A step that neither switches the boost nor starts, ends or advances a
\* call of set_interaction_boost() leaves this alone.
LEMMA QuietStep ==
  ASSUME NodesFollow, UNCHANGED <<boost_active, node>>,
         \A a \in Actors : pc'[a] = "write" <=> pc[a] = "write",
         \A a \in Actors : pc[a] = "write" => writing'[a] = writing[a],
         boost_thread_started' \/ pc'[Worker] = "none"
  PROVE  NodesFollow'
  BY DEF NodesFollow

\* Whoever switches the boost writes what he has set, from the first node on.
LEMMA SwitchStep ==
  ASSUME AtMostOneWriter', NEW a \in Actors, pc'[a] = "write",
         writing'[a].on <=> boost_active', writing'[a].next = 1,
         boost_thread_started' \/ pc'[Worker] = "none"
  PROVE  NodesFollow'
<1>1. \A i \in Nodes : ~(i < writing'[a].next)
  BY DEF Nodes
<1>2. \A b \in Actors : pc'[b] = "write" => b = a
  BY DEF AtMostOneWriter
<1> QED
  BY <1>1, <1>2 DEF NodesFollow

\* Every step keeps it while at most one actor writes and no write fails.
LEMMA NodesStep ==
  ASSUME WriteMayFail = {}, TypeOK, NodesFollow, AtMostOneWriter, AtMostOneWriter', [Next]_vars
  PROVE  NodesFollow'
<1>1. /\ pc \in [Actors -> Labels] /\ writing \in [Actors -> Write] /\ node \in [Nodes -> BOOLEAN]
      /\ boost_active \in BOOLEAN /\ boost_thread_started \in BOOLEAN
      /\ Worker \in Actors /\ Worker \notin Callers /\ Callers \subseteq Actors
      /\ boost_thread_started \/ pc[Worker] = "none"
  BY PowerAssumption DEF TypeOK, Labels, Write, Actors, NodesFollow
<1>2. CASE Tick \/ UNCHANGED vars
  BY <1>1, <1>2, QuietStep DEF Tick, vars, boostVars
<1>3. CASE power_init \/ WorkerWaits \/ WorkerWakesSpuriously
  BY <1>1, <1>3, QuietStep DEF power_init, WorkerWaits, WorkerWakesSpuriously, boostVars
<1>4. CASE WorkerTimesOut
  <2>1. CASE Expired
    <3>1. /\ pc'[Worker] = "write" /\ writing'[Worker] = [on |-> FALSE, next |-> 1]
          /\ boost_active' = FALSE /\ boost_thread_started'
      BY <1>1, <1>4, <2>1 DEF WorkerTimesOut
    <3> QED
      BY <1>1, <3>1, SwitchStep
  <2>2. CASE ~Expired
    BY <1>1, <1>4, <2>2, QuietStep DEF WorkerTimesOut
  <2> QED
    BY <2>1, <2>2
<1>5. ASSUME NEW a \in Actors, WriteNode(a)
      PROVE  NodesFollow'
  <2>1. /\ \A b \in Actors : pc[b] = "write" <=> b = a
        /\ writing[a].on <=> boost_active
        /\ \A i \in Nodes : i < writing[a].next => (node[i] <=> boost_active)
        /\ UNCHANGED <<pc, boost_active, boost_thread_started>>
    BY <1>5 DEF WriteNode, AtMostOneWriter, NodesFollow, boostVars
  <2>2. /\ node' = [node EXCEPT ![writing[a].next] = writing[a].on]
        /\ writing[a].next \in Nodes
        /\ writing'[a].next = writing[a].next + 1 /\ writing'[a].on = writing[a].on
    BY <1>1, <1>5 DEF WriteNode, Write
  <2>3. \A i \in Nodes : i < writing'[a].next => (node'[i] <=> boost_active)
    <3> SUFFICES ASSUME NEW i \in Nodes, i < writing'[a].next
                 PROVE  node'[i] <=> boost_active
      OBVIOUS
    <3>1. i = writing[a].next \/ i < writing[a].next
      BY <2>2 DEF Nodes
    <3>2. CASE i = writing[a].next
      BY <1>1, <2>1, <2>2, <3>2
    <3>3. CASE i < writing[a].next
      <4>1. node'[i] = node[i]
        BY <1>1, <2>2, <3>3 DEF Nodes
      <4> QED
        BY <2>1, <3>3, <4>1
    <3> QED
      BY <3>1, <3>2, <3>3
  <2> QED
    BY <1>1, <2>1, <2>2, <2>3 DEF NodesFollow
<1>6. ASSUME NEW a \in Actors, WritesDone(a)
      PROVE  NodesFollow'
  <2>1. /\ \A b \in Actors : pc'[b] # "write"
        /\ boost_thread_started' \/ pc'[Worker] = "none"
        /\ UNCHANGED <<boost_active, node>>
    BY <1>1, <1>6 DEF WritesDone, AtMostOneWriter, boostVars
  <2>2. \A i \in Nodes : i < writing[a].next
    BY <1>1, <1>6, PowerAssumption DEF WritesDone, Nodes, Write
  <2>3. \A i \in Nodes : node[i] <=> boost_active
    BY <1>6, <2>2 DEF NodesFollow, WritesDone
  <2> QED
    BY <2>1, <2>3 DEF NodesFollow
<1>7. ASSUME NEW c \in Callers, NEW ms \in Int, RequestBegins(c, ms)
      PROVE  NodesFollow'
  BY <1>1, <1>7, QuietStep DEF RequestBegins, boostVars
<1>8. ASSUME NEW c \in Callers, RequestRefused(c)
      PROVE  NodesFollow'
  BY <1>1, <1>8, QuietStep DEF RequestRefused, boostVars
<1>9. ASSUME NEW c \in Callers, RequestGranted(c)
      PROVE  NodesFollow'
  <2>1. /\ pc'[c] = "write" /\ writing'[c] = [on |-> TRUE, next |-> 1] /\ boost_active' = TRUE
        /\ boost_thread_started' \/ pc'[Worker] = "none"
    BY <1>1, <1>9 DEF RequestGranted, AfterSignal
  <2> QED
    BY <1>1, <2>1, SwitchStep
<1>10. ASSUME NEW c \in Callers, SetNotInteractive(c)
       PROVE  NodesFollow'
  BY <1>1, <1>10, QuietStep DEF SetNotInteractive, boostVars
<1>11. ASSUME NEW c \in Callers, HintLowPower(c)
       PROVE  NodesFollow'
  BY <1>1, <1>11, QuietStep DEF HintLowPower
<1>12. ASSUME NEW c \in Callers, CancelLocks(c)
       PROVE  NodesFollow'
  <2>1. CASE boost_active
    <3>1. /\ pc'[c] = "write" /\ writing'[c] = [on |-> FALSE, next |-> 1] /\ boost_active' = FALSE
          /\ boost_thread_started' \/ pc'[Worker] = "none"
      BY <1>1, <1>12, <2>1 DEF CancelLocks, AfterSignal
    <3> QED
      BY <1>1, <3>1, SwitchStep
  <2>2. CASE ~boost_active
    BY <1>1, <1>12, <2>2, QuietStep DEF CancelLocks, AfterSignal
  <2> QED
    BY <2>1, <2>2
<1> QED
  BY <1>2, <1>3, <1>4, <1>5, <1>6, <1>7, <1>8, <1>9, <1>10, <1>11, <1>12, RequestHints
     DEF Next, WorkerStep, Hint, InCall, Actors

\* The stale nodes of set_interaction_boost() need two overlapping calls: if no
\* write fails and no two actors ever write at once, the nodes are back at
\* their defaults whenever no boost is active and nobody is in a call.
THEOREM NodesFollowSerialWrites ==
  WriteMayFail = {} => (Spec /\ []AtMostOneWriter => []NodesRestored)
<1> SUFFICES ASSUME WriteMayFail = {} PROVE Spec /\ []AtMostOneWriter => []NodesRestored
  OBVIOUS
<1>1. Init => NodesFollow
  <2> SUFFICES ASSUME Init PROVE NodesFollow
    OBVIOUS
  <2>1. pc[Worker] = "none" /\ \A a \in Actors : pc[a] # "write"
    BY DEF Init, Actors
  <2>2. \A i \in Nodes : node[i] <=> boost_active
    BY DEF Init
  <2> QED
    BY <2>1, <2>2 DEF NodesFollow
<1>2. TypeOK /\ NodesFollow /\ AtMostOneWriter /\ AtMostOneWriter' /\ [Next]_vars => NodesFollow'
  BY NodesStep
<1>3. NodesFollow => NodesRestored
  BY DEF NodesFollow, NodesRestored
<1> QED
  BY <1>1, <1>2, <1>3, TypeCorrect, PTL DEF Spec
=============================================================================
