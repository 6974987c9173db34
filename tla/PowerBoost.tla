----------------------------- MODULE PowerBoost -----------------------------
(***************************************************************************)
(* The interaction boost of power/power.c.  Hints arrive on the binder     *)
(* threads of the power HAL (Callers); one worker thread ends a boost at   *)
(* its deadline.  boost_lock protects the boost's state, but the sysfs     *)
(* nodes are written by set_interaction_boost() AFTER the lock is          *)
(* released, one node at a time, by whoever switched the boost.            *)
(*                                                                         *)
(* Every critical section is one step (nothing it reads is written         *)
(* outside the lock); every write_value() is one step.  Time is counted    *)
(* in ticks of the CLOCK_MONOTONIC clock.  The write to cpu0's boostpulse  *)
(* node in the interaction hint is left out: it is a pulse to the kernel,  *)
(* which no later step of the HAL sees or undoes.                          *)
(***************************************************************************)
EXTENDS Integers

CONSTANTS Callers,                \* binder threads
          NumNodes,               \* nodes set_interaction_boost() writes, in order
          WriteMayFail,           \* nodes whose open() or write() may fail
          DEFAULT_INTERACTION_MS, \* also LAUNCH_BOOST_MS
          MAX_BOOST_MS,
          UsPerMs,                \* 1000 in the code
          Durations,              \* values a hint may carry
          MaxTime                 \* bound on the clock

Worker == "boost_worker"
Actors == Callers \cup {Worker}

ASSUME PowerAssumption ==
    /\ Worker \notin Callers
    /\ NumNodes \in Nat \ {0}
    /\ DEFAULT_INTERACTION_MS \in Nat \ {0}
    /\ MAX_BOOST_MS \in Nat
    /\ DEFAULT_INTERACTION_MS <= MAX_BOOST_MS
    /\ UsPerMs \in Nat \ {0}
    /\ Durations \subseteq Int
    /\ MaxTime \in Nat

VARIABLES
    now,                   \* clock_gettime(CLOCK_MONOTONIC)
    boost_thread_started,
    boost_active,
    boost_deadline,
    low_power_mode,
    pc,                    \* pc[a]: where actor a is
    deadline,              \* deadline[c]: computed by caller c before it locks
    waitUntil,             \* the time the worker's timed wait was given
    writing,               \* writing[a]: the value and next node of a's
                           \*   set_interaction_boost(), while pc[a] = "write"
    node,                  \* node[i]: does sysfs node i hold its boosted value?
    promised               \* history: latest deadline granted since the boost
                           \*   was last cancelled

boostVars == <<boost_active, boost_deadline, low_power_mode>>
vars == <<now, boost_thread_started, boostVars, pc, deadline, waitUntil, writing,
          node, promised>>

Nodes == 1 .. NumNodes
Idle == [on |-> FALSE, next |-> 1]

Init ==
    /\ now = 0
    /\ boost_thread_started = FALSE
    /\ boost_active = FALSE
    /\ boost_deadline = 0
    /\ low_power_mode = FALSE
    /\ pc = [a \in Actors |-> IF a = Worker THEN "none" ELSE "idle"]
    /\ deadline = [c \in Callers |-> 0]
    /\ waitUntil = 0
    /\ writing = [a \in Actors |-> Idle]
    /\ node = [i \in Nodes |-> FALSE]
    /\ promised = 0

Tick ==
    /\ now < MaxTime
    /\ now' = now + 1
    /\ UNCHANGED <<boost_thread_started, boostVars, pc, deadline, waitUntil, writing,
                   node, promised>>

\* power_init; if pthread_create() fails the HAL ignores every hint, which is
\* the state before this step.
power_init ==
    /\ ~boost_thread_started
    /\ boost_thread_started' = TRUE
    /\ pc' = [pc EXCEPT ![Worker] = "loop"]
    /\ UNCHANGED <<now, boostVars, deadline, waitUntil, writing, node, promised>>

-----------------------------------------------------------------------------
\* Mutant: the maximum is not enforced.
Clamp_NoMax(ms) == IF ms <= 0 THEN DEFAULT_INTERACTION_MS ELSE ms

\* The duration request_boost() grants.
Clamp(ms) == IF ms <= 0 THEN DEFAULT_INTERACTION_MS
             ELSE IF ms > MAX_BOOST_MS THEN MAX_BOOST_MS ELSE ms

\* C division truncates towards zero.
MsOfUs(us) == IF us >= 0 THEN us \div UsPerMs ELSE -((-us) \div UsPerMs)

\* request_boost() up to the lock: the deadline is computed from the clock.
RequestBegins(c, ms) ==
    /\ boost_thread_started
    /\ pc[c] = "idle"
    /\ now + MAX_BOOST_MS <= MaxTime
    /\ deadline' = [deadline EXCEPT ![c] = now + Clamp(ms)]
    /\ pc' = [pc EXCEPT ![c] = "request"]
    /\ UNCHANGED <<now, boost_thread_started, boostVars, waitUntil, writing, node, promised>>

HintInteraction(c) == \E ms \in Durations : RequestBegins(c, ms)
HintLaunch(c) == RequestBegins(c, DEFAULT_INTERACTION_MS)
HintCpuBoost(c) == \E us \in Durations : RequestBegins(c, MsOfUs(us))

\* Mutant: low power mode is not looked at.
Refused_Never == FALSE

\* "if (low_power_mode) { unlock; return; }"
Refused == low_power_mode

\* Mutant: the deadline is always replaced.
Deadline_Replaced(d) == d

\* The deadline of a running boost is only ever extended.
Deadline(d) == IF ~boost_active \/ d > boost_deadline THEN d ELSE boost_deadline

\* Mutant: the worker is not signalled.
AfterSignal_Lost(c, label) == [pc EXCEPT ![c] = label]

\* pthread_cond_signal(&boost_cond): only the worker waits on it.
AfterSignal(c, label) ==
    [a \in Actors |-> IF a = c THEN label
                      ELSE IF a = Worker /\ pc[a] \in {"wait", "timedwait"} THEN "loop"
                      ELSE pc[a]]

RequestRefused(c) ==
    /\ pc[c] = "request"
    /\ Refused
    /\ deadline' = [deadline EXCEPT ![c] = 0]
    /\ pc' = [pc EXCEPT ![c] = "idle"]
    /\ UNCHANGED <<now, boost_thread_started, boostVars, waitUntil, writing, node, promised>>

RequestGranted(c) ==
    /\ pc[c] = "request"
    /\ ~Refused
    /\ boost_deadline' = Deadline(deadline[c])
    /\ boost_active' = TRUE
    /\ promised' = IF deadline[c] > promised THEN deadline[c] ELSE promised
    /\ pc' = AfterSignal(c, "write")
    /\ deadline' = [deadline EXCEPT ![c] = 0]
    /\ writing' = [writing EXCEPT ![c] = [on |-> TRUE, next |-> 1]]
    /\ UNCHANGED <<now, boost_thread_started, low_power_mode, waitUntil, node>>

-----------------------------------------------------------------------------
\* power_set_interactive(0) calls cancel_boost().
SetNotInteractive(c) ==
    /\ boost_thread_started
    /\ pc[c] = "idle"
    /\ pc' = [pc EXCEPT ![c] = "cancel"]
    /\ UNCHANGED <<now, boost_thread_started, boostVars, deadline, waitUntil, writing,
                   node, promised>>

\* POWER_HINT_LOW_POWER: the mode is set in a critical section of its own,
\* before cancel_boost() is called.
HintLowPower(c) ==
    /\ boost_thread_started
    /\ pc[c] = "idle"
    /\ \E enabled \in BOOLEAN :
          /\ low_power_mode' = enabled
          /\ pc' = IF enabled THEN [pc EXCEPT ![c] = "cancel"] ELSE pc
    /\ UNCHANGED <<now, boost_thread_started, boost_active, boost_deadline, deadline,
                   waitUntil, writing, node, promised>>

\* cancel_boost(): the nodes are only written if there was a boost.
CancelLocks(c) ==
    /\ pc[c] = "cancel"
    /\ boost_active' = FALSE
    /\ promised' = 0
    /\ pc' = AfterSignal(c, IF boost_active THEN "write" ELSE "idle")
    /\ writing' = [writing EXCEPT ![c] = [on |-> FALSE, next |-> 1]]
    /\ UNCHANGED <<now, boost_thread_started, boost_deadline, low_power_mode, deadline,
                   waitUntil, node>>

-----------------------------------------------------------------------------
\* boost_worker: "while (!boost_active) pthread_cond_wait(...)", then a timed
\* wait until the deadline it reads now.
WorkerWaits ==
    /\ pc[Worker] = "loop"
    /\ pc' = [pc EXCEPT ![Worker] = IF boost_active THEN "timedwait" ELSE "wait"]
    /\ waitUntil' = IF boost_active THEN boost_deadline ELSE 0
    /\ UNCHANGED <<now, boost_thread_started, boostVars, deadline, writing, node, promised>>

\* A wait may end without a signal.
WorkerWakesSpuriously ==
    /\ pc[Worker] \in {"wait", "timedwait"}
    /\ pc' = [pc EXCEPT ![Worker] = "loop"]
    /\ UNCHANGED <<now, boost_thread_started, boostVars, deadline, waitUntil, writing,
                   node, promised>>

\* Mutant: the timeout is taken for the end of the boost.
Expired_OnAnyTimeout == boost_active

\* "boost_active && compare_timespec(&now, &boost_deadline) >= 0"
Expired == boost_active /\ now >= boost_deadline

WorkerTimesOut ==
    /\ pc[Worker] = "timedwait"
    /\ now >= waitUntil
    /\ boost_active' = IF Expired THEN FALSE ELSE boost_active
    /\ pc' = [pc EXCEPT ![Worker] = IF Expired THEN "write" ELSE "loop"]
    /\ writing' = [writing EXCEPT ![Worker] = [on |-> FALSE, next |-> 1]]
    /\ UNCHANGED <<now, boost_thread_started, boost_deadline, low_power_mode, deadline,
                   waitUntil, node, promised>>

-----------------------------------------------------------------------------
\* set_interaction_boost(): the next write_value().  A failure is only logged.
WriteNode(a) ==
    /\ pc[a] = "write"
    /\ writing[a].next \in Nodes
    /\ \/ node' = [node EXCEPT ![writing[a].next] = writing[a].on]
       \/ writing[a].next \in WriteMayFail /\ UNCHANGED node
    /\ writing' = [writing EXCEPT ![a].next = @ + 1]
    /\ UNCHANGED <<now, boost_thread_started, boostVars, pc, deadline, waitUntil, promised>>

WritesDone(a) ==
    /\ pc[a] = "write"
    /\ writing[a].next \notin Nodes
    /\ pc' = [pc EXCEPT ![a] = IF a = Worker THEN "loop" ELSE "idle"]
    /\ writing' = [writing EXCEPT ![a] = Idle]
    /\ UNCHANGED <<now, boost_thread_started, boostVars, deadline, waitUntil, node, promised>>

Hint(c) == \/ HintInteraction(c) \/ HintLaunch(c) \/ HintCpuBoost(c)
           \/ SetNotInteractive(c) \/ HintLowPower(c)
InCall(c) == \/ RequestRefused(c) \/ RequestGranted(c) \/ CancelLocks(c)
             \/ WriteNode(c) \/ WritesDone(c)
WorkerStep == WorkerWaits \/ WorkerTimesOut \/ WriteNode(Worker) \/ WritesDone(Worker)

Next == \/ Tick \/ power_init \/ WorkerStep \/ WorkerWakesSpuriously
        \/ \E c \in Callers : Hint(c) \/ InCall(c)

\* Time passes, a call that has begun runs to its end and the worker runs; a
\* timed wait whose deadline is over times out in spite of spurious wakeups
\* (strong fairness).  No hint is ever owed to the HAL.
Fairness == /\ WF_vars(Tick) /\ WF_vars(WorkerStep) /\ SF_vars(WorkerTimesOut)
            /\ \A c \in Callers : WF_vars(InCall(c))

Spec == Init /\ [][Next]_vars
FairSpec == Spec /\ Fairness

-----------------------------------------------------------------------------
TypeOK ==
    /\ now \in Nat
    /\ boost_thread_started \in BOOLEAN
    /\ boost_active \in BOOLEAN
    /\ boost_deadline \in Nat
    /\ low_power_mode \in BOOLEAN
    /\ pc \in [Actors -> {"none", "idle", "request", "cancel", "write", "loop", "wait",
                          "timedwait"}]
    /\ deadline \in [Callers -> Nat]
    /\ waitUntil \in Nat
    /\ writing \in [Actors -> [on : BOOLEAN, next : 1 .. NumNodes + 1]]
    /\ node \in [Nodes -> BOOLEAN]
    /\ promised \in Nat

\* A granted boost lasts: until the latest deadline granted since the last
\* cancel, boost_active stays set, whatever shorter requests, timeouts of an
\* earlier deadline or spurious wakeups happen meanwhile.
BoostKeepsPromise == now < promised => boost_active /\ boost_deadline >= promised

\* A boost is short: its deadline is never more than MAX_BOOST_MS away.
DeadlineBounded == boost_active => boost_deadline <= now + MAX_BOOST_MS

\* What makes DeadlineBounded inductive: a deadline that a caller has computed
\* but not yet stored is bounded, too.
PendingBounded == \A c \in Callers : deadline[c] <= now + MAX_BOOST_MS

\* In low power mode a boost is active only while the call that set the mode
\* has yet to run its cancel_boost(), however hints of other threads interleave.
NoBoostInLowPower ==
    low_power_mode /\ boost_active => \E c \in Callers : pc[c] = "cancel"

\* Every boost ends, without any further hint.
BoostEnds == boost_active ~> ~boost_active

\* README.md:73-74, "applies a short, B217-supported CPU/GPU/DDR interaction
\* boost": when no boost is active and nobody is writing the nodes any more, the
\* nodes are back at their defaults (if no write fails).
NodesRestored ==
    ~boost_active /\ (\A a \in Actors : pc[a] \notin {"write", "request", "cancel"})
        => \A i \in Nodes : ~node[i]
=============================================================================
