--------------------------- MODULE SensorManager ---------------------------
(***************************************************************************)
(* libshims/gui/SensorManager.cpp: the process-wide client of the sensor   *)
(* service that camera blobs link against.  It caches the service's proxy  *)
(* and sensor list, pings the proxy at the beginning of every call, and    *)
(* drops the cache when binder reports the service's death.                *)
(*                                                                         *)
(* The service is a sequence of incarnations 1, 2, ...; 0 stands for none. *)
(* Every remote call is a step of its own, so the service may die between  *)
(* any two of them.  The death of an incarnation is reported later, by a   *)
(* binder thread, which may be waiting for mLock while a call reconnects.  *)
(***************************************************************************)
EXTENDS Integers, FiniteSets

CONSTANTS Callers,            \* blob threads
          Operations,         \* methods they call
          MaxTries,           \* 60 in the code
          MaxIncarnation,     \* bound: restarts of the service
          NULL

\* Methods that answer from the cache, and methods that ask the service.
CacheMethods == {"getSensorList", "getDefaultSensor"}
RemoteMethods == {"getDynamicSensorList", "createEventQueue", "isDataInjectionEnabled"}

ASSUME ManagerAssumption ==
    /\ Operations \subseteq CacheMethods \cup RemoteMethods
    /\ MaxTries \in Nat \ {0}
    /\ MaxIncarnation \in Nat \ {0}
    /\ NULL \notin Callers \cup Int

Incarnations == 1 .. MaxIncarnation
Dangling == -1    \* pointers to sensors of a vector that was cleared

VARIABLES
    up, born,         \* the running incarnation, or 0; the last one started
    registered,       \* what the service manager hands out; dead or 0 at times
    linked,           \* incarnations whose death is to be reported
    obitSent,         \* those whose death has been reported
    notifying,        \* reports whose binder thread is in sensorManagerDied()
    mSensorServer,    \* the incarnation the proxy belongs to, or 0
    mDeathObserver,   \* the incarnation the observer is linked to, or 0
    mSensors,         \* the incarnation whose sensors are cached, 0: empty
    mSensorList,      \* NULL, or the vector the list's pointers point into
    mLock,            \* NULL, or the caller that holds it
    instance,         \* "none", "constructing", "ready"
    pc, op,           \* where each caller is, in which operation
    tries, fetched,   \* locals i and count of assertStateLocked()
    deadAt,           \* history: incarnations up to this were dead when the call began
    answer,           \* the incarnation that the last answer came from, or 0
    crashed           \* "no", "fatal" (LOG_ALWAYS_FATAL_IF), "null" (NULL proxy used)

serviceVars == <<up, born, registered>>
deathVars == <<linked, obitSent, notifying>>
managerVars == <<mSensorServer, mDeathObserver, mSensors, mSensorList>>
localVars == <<op, tries, fetched, deadAt, answer>>
vars == <<serviceVars, deathVars, managerVars, mLock, instance, pc, localVars, crashed>>

Init ==
    /\ up = 1 /\ born = 1 /\ registered = 1
    /\ linked = {} /\ obitSent = {} /\ notifying = {}
    /\ mSensorServer = 0 /\ mDeathObserver = 0 /\ mSensors = 0 /\ mSensorList = NULL
    /\ mLock = NULL
    /\ instance = "none"
    /\ pc = [c \in Callers |-> "idle"]
    /\ op = [c \in Callers |-> "none"]
    /\ tries = [c \in Callers |-> 0]
    /\ fetched = [c \in Callers |-> 0]
    /\ deadAt = [c \in Callers |-> 0]
    /\ answer = [c \in Callers |-> 0]
    /\ crashed = "no"

Goto(c, l) == pc' = [pc EXCEPT ![c] = l]

-----------------------------------------------------------------------------
(* The service, the service manager and binder *)

ServiceDies ==
    /\ crashed = "no"
    /\ up # 0
    /\ up' = 0
    /\ UNCHANGED <<born, registered, deathVars, managerVars, mLock, instance, pc, localVars, crashed>>

\* The service manager learns of the death.
ServiceUnregistered ==
    /\ crashed = "no"
    /\ registered # 0 /\ registered # up
    /\ registered' = 0
    /\ UNCHANGED <<up, born, deathVars, managerVars, mLock, instance, pc, localVars, crashed>>

ServiceRestarts ==
    /\ crashed = "no"
    /\ up = 0 /\ born < MaxIncarnation
    /\ up' = born + 1 /\ born' = born + 1 /\ registered' = born + 1
    /\ UNCHANGED <<deathVars, managerVars, mLock, instance, pc, localVars, crashed>>

\* Mutant: nothing keeps the observer alive (binder holds it weakly).
ObserverAlive_Never(i) == FALSE

\* The observer linked to incarnation i is the one that mDeathObserver holds.
ObserverAlive(i) == mDeathObserver = i

\* Binder reports the death of i; an observer that still exists is called.
DeathReported(i) ==
    /\ crashed = "no"
    /\ i \in linked \ obitSent /\ i # up
    /\ obitSent' = obitSent \cup {i}
    /\ notifying' = notifying \cup {j \in {i} : ObserverAlive(j)}
    /\ UNCHANGED <<serviceVars, linked, managerVars, mLock, instance, pc, localVars, crashed>>

-----------------------------------------------------------------------------
(* SensorManager *)

\* Mutant: the death report does not wait for a call that is under way.
DiedMayEnter_Unlocked == TRUE

\* Mutex::Autolock in sensorManagerDied()
DiedMayEnter == mLock = NULL

sensorManagerDied(i) ==
    /\ crashed = "no"
    /\ i \in notifying
    /\ DiedMayEnter
    /\ mSensorServer' = 0
    /\ mSensorList' = NULL
    /\ mSensors' = 0
    /\ notifying' = notifying \ {i}
    /\ UNCHANGED <<serviceVars, linked, obitSent, mDeathObserver, mLock, instance, pc,
                   localVars, crashed>>

\* getInstanceForPackage() creates the object, under sLock; its constructor
\* runs assertStateLocked() without mLock, so a death report may come between
\* any two of its steps.  mSensorServer is still NULL.
Construct(c) ==
    /\ crashed = "no" /\ pc[c] = "idle"
    /\ instance = "none"
    /\ instance' = "constructing"
    /\ tries' = [tries EXCEPT ![c] = 0]
    /\ Goto(c, "getService")
    /\ UNCHANGED <<serviceVars, deathVars, managerVars, mLock, op, fetched, deadAt, answer, crashed>>

CallBegins(c, o) ==
    /\ crashed = "no" /\ pc[c] = "idle"
    /\ instance = "ready"
    /\ op' = [op EXCEPT ![c] = o]
    /\ answer' = [answer EXCEPT ![c] = 0]
    /\ deadAt' = [deadAt EXCEPT ![c] = IF up = 0 THEN born ELSE born - 1]
    /\ Goto(c, "lock")
    /\ UNCHANGED <<serviceVars, deathVars, managerVars, mLock, instance, tries, fetched, crashed>>

\* Mutant: the answer to the ping is ignored.
Alive_Assumed == mSensorServer # 0

\* Mutant: a proxy that was cleared is taken for one that need not be fetched.
Alive_NoNullCheck == mSensorServer = 0 \/ up = mSensorServer

\* "pingBinder() == NO_ERROR", on a proxy that is there.
Alive == mSensorServer # 0 /\ up = mSensorServer

\* The call gets mLock and looks whether it must connect.
CallLocks(c) ==
    /\ crashed = "no" /\ pc[c] = "lock"
    /\ mLock = NULL
    /\ mLock' = c
    /\ tries' = [tries EXCEPT ![c] = 0]
    /\ Goto(c, IF Alive THEN "use" ELSE "getService")
    /\ UNCHANGED <<serviceVars, deathVars, managerVars, instance, op, fetched, deadAt, answer, crashed>>

\* Mutant: a failed try is not counted.
TriesAfter_Same(c) == tries[c]

TriesAfter(c) == tries[c] + 1

\* getService() stores NULL when the name is not found; the loop then sleeps
\* and tries again, and the process aborts after the last try.
GetServiceFails(c) ==
    /\ crashed = "no" /\ pc[c] = "getService"
    /\ registered = 0
    /\ mSensorServer' = 0
    /\ tries' = [tries EXCEPT ![c] = TriesAfter(c)]
    /\ crashed' = IF tries'[c] = MaxTries THEN "fatal" ELSE "no"
    /\ UNCHANGED <<serviceVars, deathVars, mDeathObserver, mSensors, mSensorList, mLock,
                   instance, pc, op, fetched, deadAt, answer>>

GetServiceFinds(c) ==
    /\ crashed = "no" /\ pc[c] = "getService"
    /\ registered # 0
    /\ mSensorServer' = registered
    /\ Goto(c, "link")
    /\ UNCHANGED <<serviceVars, deathVars, mDeathObserver, mSensors, mSensorList, mLock,
                   instance, localVars, crashed>>

\* A step that dereferences the proxy; it may have been taken away.
UseProxy == crashed' = IF mSensorServer = 0 THEN "null" ELSE "no"

\* A new observer replaces the old one.  Linking to a proxy whose death has
\* been reported fails, which is not noticed.
LinkToDeath(c) ==
    /\ crashed = "no" /\ pc[c] = "link"
    /\ UseProxy
    /\ mDeathObserver' = IF mSensorServer \in obitSent THEN 0 ELSE mSensorServer
    /\ linked' = linked \cup ({mSensorServer} \ {0})
    /\ Goto(c, "fetch")
    /\ UNCHANGED <<serviceVars, obitSent, notifying, mSensorServer, mSensors, mSensorList,
                   mLock, instance, localVars>>

\* What a remote call on the proxy brings: a dead service answers nothing.
Remote == IF up = mSensorServer THEN mSensorServer ELSE 0

FetchSensors(c) ==
    /\ crashed = "no" /\ pc[c] = "fetch"
    /\ UseProxy
    /\ mSensors' = Remote
    /\ fetched' = [fetched EXCEPT ![c] = Remote]
    /\ Goto(c, "publish")
    /\ UNCHANGED <<serviceVars, deathVars, mSensorServer, mDeathObserver, mSensorList, mLock,
                   instance, op, tries, deadAt, answer>>

\* mSensorList: one pointer into mSensors for each sensor counted.
PublishList(c) ==
    /\ crashed = "no" /\ pc[c] = "publish"
    /\ mSensorList' = IF fetched[c] = mSensors THEN mSensors ELSE Dangling
    /\ IF instance = "constructing"
       THEN /\ instance' = "ready"
            /\ tries' = [tries EXCEPT ![c] = 0]
            /\ fetched' = [fetched EXCEPT ![c] = 0]
            /\ Goto(c, "idle")
       ELSE UNCHANGED <<instance, tries, fetched>> /\ Goto(c, "use")
    /\ UNCHANGED <<serviceVars, deathVars, mSensorServer, mDeathObserver, mSensors, mLock,
                   op, deadAt, answer, crashed>>

\* The call returns what it has from incarnation i; its locals are gone.
Return(c, i) ==
    /\ mLock' = NULL
    /\ Goto(c, "idle")
    /\ op' = [op EXCEPT ![c] = "none"]
    /\ tries' = [tries EXCEPT ![c] = 0]
    /\ fetched' = [fetched EXCEPT ![c] = 0]
    /\ answer' = [answer EXCEPT ![c] = i]
    /\ UNCHANGED <<serviceVars, deathVars, managerVars, instance, deadAt>>

\* getSensorList() and getDefaultSensor() answer from the cache ...
UseCache(c) ==
    /\ crashed = "no" /\ pc[c] = "use"
    /\ op[c] \in CacheMethods
    /\ Return(c, mSensors)
    /\ UNCHANGED crashed

\* ... and the other three ask the service again.
UseServer(c) ==
    /\ crashed = "no" /\ pc[c] = "use"
    /\ op[c] \in RemoteMethods
    /\ UseProxy
    /\ Return(c, Remote)

Caller(c) ==
    \/ CallLocks(c) \/ GetServiceFails(c) \/ GetServiceFinds(c)
    \/ LinkToDeath(c) \/ FetchSensors(c) \/ PublishList(c) \/ UseCache(c) \/ UseServer(c)

Next ==
    \/ ServiceDies \/ ServiceUnregistered \/ ServiceRestarts
    \/ \E i \in Incarnations : DeathReported(i) \/ sensorManagerDied(i)
    \/ \E c \in Callers : Construct(c) \/ Caller(c)
    \/ \E c \in Callers, o \in Operations : CallBegins(c, o)

Spec == Init /\ [][Next]_vars

\* Threads run, mLock is granted to a thread that keeps asking for it, and
\* binder reports deaths.  Nothing makes the service come back or blobs call.
Fairness ==
    /\ \A c \in Callers : SF_vars(Caller(c))
    /\ \A i \in Incarnations : WF_vars(DeathReported(i)) /\ SF_vars(sensorManagerDied(i))

FairSpec == Spec /\ Fairness

-----------------------------------------------------------------------------
TypeOK ==
    /\ born \in Incarnations /\ up \in {0, born} /\ registered \in 0 .. born
    /\ obitSent \subseteq linked /\ linked \subseteq Incarnations
    /\ notifying \subseteq obitSent
    /\ mSensorServer \in 0 .. born /\ mDeathObserver \in 0 .. born
    /\ mSensors \in 0 .. born
    /\ mSensorList \in {NULL, Dangling} \cup 0 .. born
    /\ mLock \in Callers \cup {NULL}
    /\ instance \in {"none", "constructing", "ready"}
    /\ pc \in [Callers -> {"idle", "lock", "getService", "link", "fetch", "publish", "use"}]
    /\ op \in [Callers -> Operations \cup {"none"}]
    /\ tries \in [Callers -> 0 .. MaxTries] /\ fetched \in [Callers -> 0 .. born]
    /\ deadAt \in [Callers -> 0 .. born] /\ answer \in [Callers -> 0 .. born]
    /\ crashed \in {"no", "fatal", "null"}

\* A call that has passed assertStateLocked() has a proxy, and mSensorList is
\* a list of exactly the cached sensors: getDefaultSensor() may index it with
\* every i below mSensors.size(), whatever died and was reported before, during
\* the construction too (which may leave a list of sensors that are gone).
ListIsOfCachedSensors ==
    \A c \in Callers : pc[c] = "use" => mSensorServer # 0 /\ mSensorList = mSensors

\* Once the object is constructed no method dereferences a NULL proxy: a report
\* that arrives while a call reconnects, or about an older incarnation, or that
\* came during the construction, cannot take it away under a call.
NullProxyOnlyInConstructor == crashed = "null" => instance = "constructing"

\* "okay we're not locked here, but it's not needed during construction": the
\* constructor does not need mLock, so it never uses a proxy that a death
\* report has cleared.  Does not hold.
LockNotNeededInConstructor == ~(crashed = "null" /\ instance = "constructing")

\* A call never answers with what it has from an incarnation that was dead
\* before the call began, although the report of that death may be late.
AnswerIsFresh == \A c \in Callers : answer[c] = 0 \/ answer[c] > deadAt[c]

\* Every call and the construction return, or the process ends: it aborts
\* because there is no service, or the constructor lost its proxy.
CallReturns == \A c \in Callers : pc[c] # "idle" ~> (pc[c] = "idle" \/ crashed # "no")

\* The cache of an incarnation that has died does not stay although no blob
\* calls any more, provided that linkToDeath() succeeded for it.
DeathIsNoticed ==
    \A i \in Incarnations :
        (mSensorServer = i /\ i \in linked \ obitSent /\ up # i) ~> (mSensorServer # i \/ crashed # "no")
=============================================================================
