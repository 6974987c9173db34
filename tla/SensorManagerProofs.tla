------------------------ MODULE SensorManagerProofs ------------------------
(***************************************************************************)
(* The safety of the SensorManager shim, for any number of blob threads,   *)
(* tries and restarts of the service, which may die at any time, during    *)
(* the construction too, where mLock is not held.                          *)
(***************************************************************************)
EXTENDS SensorManager, TLAPS

\* A thread in assertStateLocked() or behind it.
Inside(c) == pc[c] \in {"getService", "link", "fetch", "publish", "use"}

\* One thread at a time is inside: the constructing one, or the holder of mLock.
LockDiscipline ==
    /\ \A c, d \in Callers : Inside(c) /\ Inside(d) => c = d
    /\ instance # "ready" => mLock = NULL /\ \A c \in Callers : pc[c] \notin {"lock", "use"}
    /\ instance = "none" => \A c \in Callers : pc[c] = "idle"
    /\ instance = "ready" => \A c \in Callers : Inside(c) <=> mLock = c

TriesCounted == crashed = "no" => \A c \in Callers : tries[c] < MaxTries

\* The cached sensors are those of the cached proxy, or there are none.
SensorsOfServer ==
    /\ instance = "ready" /\ mLock = NULL => mSensors \in {0, mSensorServer}
    /\ \A c \in Callers : pc[c] \in {"publish", "use"} => mSensors \in {0, mSensorServer}

\* The running incarnation is younger than all that were dead when a call
\* began, and so is what the call has fetched or found.
Freshness ==
    /\ up # 0 => \A c \in Callers : deadAt[c] < up
    /\ \A c \in Callers : pc[c] \in {"publish", "use"} => mSensors = 0 \/ mSensors > deadAt[c]
    /\ AnswerIsFresh

BaseInv == TypeOK /\ LockDiscipline /\ TriesCounted /\ SensorsOfServer /\ Freshness

\* A thread behind getService() keeps the proxy it found once the object is
\* constructed; the list shows mSensors wherever there is a proxy.
ProxyIsKept ==
    /\ instance = "ready" =>
          \A c \in Callers : pc[c] \in {"link", "fetch", "publish", "use"} => mSensorServer # 0
    /\ \A c \in Callers : pc[c] = "publish" => mSensorServer = 0 \/ fetched[c] = mSensors
    /\ \A c \in Callers : pc[c] = "use" => mSensorList = mSensors
    /\ instance = "ready" /\ mLock = NULL => mSensorServer = 0 \/ mSensorList = mSensors
    /\ NullProxyOnlyInConstructor

-----------------------------------------------------------------------------
(* Types, mLock and the freshness of answers *)

\* The initial state satisfies the invariant.
LEMMA InitBaseInv == Init => BaseInv
<1> SUFFICES ASSUME Init PROVE BaseInv
  OBVIOUS
<1>1. TypeOK
  BY ManagerAssumption DEF Init, TypeOK, Incarnations
<1>2. LockDiscipline /\ TriesCounted
  BY ManagerAssumption DEF Init, LockDiscipline, Inside, TriesCounted
<1>3. SensorsOfServer /\ Freshness
  BY DEF Init, SensorsOfServer, Freshness, AnswerIsFresh
<1> QED
  BY <1>1, <1>2, <1>3 DEF BaseInv

\* Every step of the service, of binder and of a blob thread preserves it.
LEMMA NextBaseInv == BaseInv /\ [Next]_vars => BaseInv'
<1> SUFFICES ASSUME BaseInv, [Next]_vars PROVE BaseInv'
  OBVIOUS
<1> USE ManagerAssumption
<1>1. ASSUME ServiceDies
      PROVE  BaseInv'
  <2>1. TypeOK'
    BY <1>1 DEF BaseInv, ServiceDies, Goto, serviceVars, deathVars, managerVars,
       localVars, TypeOK, Incarnations, TriesCounted, Dangling
  <2>2. LockDiscipline'
    BY <1>1 DEF BaseInv, ServiceDies, Goto, serviceVars, deathVars, managerVars,
       localVars, LockDiscipline, Inside, TypeOK
  <2>3. TriesCounted'
    BY <1>1 DEF BaseInv, ServiceDies, Goto, serviceVars, deathVars, managerVars,
       localVars, TriesCounted, TypeOK
  <2>4. SensorsOfServer'
    BY <1>1 DEF BaseInv, ServiceDies, Goto, serviceVars, deathVars, managerVars,
       localVars, SensorsOfServer, LockDiscipline, Inside, TypeOK
  <2>5. Freshness'
    BY <1>1 DEF BaseInv, ServiceDies, Goto, serviceVars, deathVars, managerVars,
       localVars, Freshness, AnswerIsFresh, SensorsOfServer, LockDiscipline, Inside,
       TypeOK, Incarnations
  <2> QED BY <2>1, <2>2, <2>3, <2>4, <2>5 DEF BaseInv
<1>2. ASSUME ServiceUnregistered
      PROVE  BaseInv'
  <2>1. TypeOK'
    BY <1>2 DEF BaseInv, ServiceUnregistered, Goto, serviceVars, deathVars, managerVars,
       localVars, TypeOK, Incarnations, TriesCounted, Dangling
  <2>2. LockDiscipline'
    BY <1>2 DEF BaseInv, ServiceUnregistered, Goto, serviceVars, deathVars, managerVars,
       localVars, LockDiscipline, Inside, TypeOK
  <2>3. TriesCounted'
    BY <1>2 DEF BaseInv, ServiceUnregistered, Goto, serviceVars, deathVars, managerVars,
       localVars, TriesCounted, TypeOK
  <2>4. SensorsOfServer'
    BY <1>2 DEF BaseInv, ServiceUnregistered, Goto, serviceVars, deathVars, managerVars,
       localVars, SensorsOfServer, LockDiscipline, Inside, TypeOK
  <2>5. Freshness'
    BY <1>2 DEF BaseInv, ServiceUnregistered, Goto, serviceVars, deathVars, managerVars,
       localVars, Freshness, AnswerIsFresh, SensorsOfServer, LockDiscipline, Inside,
       TypeOK, Incarnations
  <2> QED BY <2>1, <2>2, <2>3, <2>4, <2>5 DEF BaseInv
<1>3. ASSUME ServiceRestarts
      PROVE  BaseInv'
  <2>1. TypeOK'
    BY <1>3 DEF BaseInv, ServiceRestarts, Goto, serviceVars, deathVars, managerVars,
       localVars, TypeOK, Incarnations, TriesCounted, Dangling
  <2>2. LockDiscipline'
    BY <1>3 DEF BaseInv, ServiceRestarts, Goto, serviceVars, deathVars, managerVars,
       localVars, LockDiscipline, Inside, TypeOK
  <2>3. TriesCounted'
    BY <1>3 DEF BaseInv, ServiceRestarts, Goto, serviceVars, deathVars, managerVars,
       localVars, TriesCounted, TypeOK
  <2>4. SensorsOfServer'
    BY <1>3 DEF BaseInv, ServiceRestarts, Goto, serviceVars, deathVars, managerVars,
       localVars, SensorsOfServer, LockDiscipline, Inside, TypeOK
  <2>5. Freshness'
    BY <1>3 DEF BaseInv, ServiceRestarts, Goto, serviceVars, deathVars, managerVars,
       localVars, Freshness, AnswerIsFresh, SensorsOfServer, LockDiscipline, Inside,
       TypeOK, Incarnations
  <2> QED BY <2>1, <2>2, <2>3, <2>4, <2>5 DEF BaseInv
<1>4. ASSUME NEW i \in Incarnations, DeathReported(i)
      PROVE  BaseInv'
  <2>1. TypeOK'
    BY <1>4 DEF BaseInv, DeathReported, ObserverAlive, Goto, serviceVars, deathVars,
       managerVars, localVars, TypeOK, Incarnations, TriesCounted, Dangling
  <2>2. LockDiscipline'
    BY <1>4 DEF BaseInv, DeathReported, ObserverAlive, Goto, serviceVars, deathVars,
       managerVars, localVars, LockDiscipline, Inside, TypeOK
  <2>3. TriesCounted'
    BY <1>4 DEF BaseInv, DeathReported, ObserverAlive, Goto, serviceVars, deathVars,
       managerVars, localVars, TriesCounted, TypeOK
  <2>4. SensorsOfServer'
    BY <1>4 DEF BaseInv, DeathReported, ObserverAlive, Goto, serviceVars, deathVars,
       managerVars, localVars, SensorsOfServer, LockDiscipline, Inside, TypeOK
  <2>5. Freshness'
    BY <1>4 DEF BaseInv, DeathReported, ObserverAlive, Goto, serviceVars, deathVars,
       managerVars, localVars, Freshness, AnswerIsFresh, SensorsOfServer, LockDiscipline,
       Inside, TypeOK, Incarnations
  <2> QED BY <2>1, <2>2, <2>3, <2>4, <2>5 DEF BaseInv
<1>5. ASSUME NEW i \in Incarnations, sensorManagerDied(i)
      PROVE  BaseInv'
  <2>1. TypeOK'
    BY <1>5 DEF BaseInv, sensorManagerDied, DiedMayEnter, Goto,
       serviceVars, deathVars, managerVars, localVars, TypeOK, Incarnations, TriesCounted,
       Dangling
  <2>2. LockDiscipline'
    BY <1>5 DEF BaseInv, sensorManagerDied, DiedMayEnter, Goto,
       serviceVars, deathVars, managerVars, localVars, LockDiscipline, Inside, TypeOK
  <2>3. TriesCounted'
    BY <1>5 DEF BaseInv, sensorManagerDied, DiedMayEnter, Goto,
       serviceVars, deathVars, managerVars, localVars, TriesCounted, TypeOK
  <2>4. SensorsOfServer'
    BY <1>5 DEF BaseInv, sensorManagerDied, DiedMayEnter, Goto,
       serviceVars, deathVars, managerVars, localVars, SensorsOfServer, LockDiscipline,
       Inside, TypeOK
  <2>5. Freshness'
    BY <1>5 DEF BaseInv, sensorManagerDied, DiedMayEnter, Goto,
       serviceVars, deathVars, managerVars, localVars, Freshness, AnswerIsFresh,
       SensorsOfServer, LockDiscipline, Inside, TypeOK, Incarnations
  <2> QED BY <2>1, <2>2, <2>3, <2>4, <2>5 DEF BaseInv
<1>6. ASSUME NEW c \in Callers, Construct(c)
      PROVE  BaseInv'
  <2>1. TypeOK'
    BY <1>6 DEF BaseInv, Construct, Goto, serviceVars, deathVars, managerVars, localVars,
       TypeOK, Incarnations, TriesCounted, Dangling
  <2>2. LockDiscipline'
    BY <1>6 DEF BaseInv, Construct, Goto, serviceVars, deathVars, managerVars, localVars,
       LockDiscipline, Inside, TypeOK
  <2>3. TriesCounted'
    BY <1>6 DEF BaseInv, Construct, Goto, serviceVars, deathVars, managerVars, localVars,
       TriesCounted, TypeOK
  <2>4. SensorsOfServer'
    BY <1>6 DEF BaseInv, Construct, Goto, serviceVars, deathVars, managerVars, localVars,
       SensorsOfServer, LockDiscipline, Inside, TypeOK
  <2>5. Freshness'
    BY <1>6 DEF BaseInv, Construct, Goto, serviceVars, deathVars, managerVars, localVars,
       Freshness, AnswerIsFresh, SensorsOfServer, LockDiscipline, Inside, TypeOK,
       Incarnations
  <2> QED BY <2>1, <2>2, <2>3, <2>4, <2>5 DEF BaseInv
<1>7. ASSUME NEW c \in Callers, NEW o \in Operations, CallBegins(c, o)
      PROVE  BaseInv'
  <2>1. TypeOK'
    BY <1>7 DEF BaseInv, CallBegins, Goto, serviceVars, deathVars, managerVars, localVars,
       TypeOK, Incarnations, TriesCounted, Dangling
  <2>2. LockDiscipline'
    BY <1>7 DEF BaseInv, CallBegins, Goto, serviceVars, deathVars, managerVars, localVars,
       LockDiscipline, Inside, TypeOK
  <2>3. TriesCounted'
    BY <1>7 DEF BaseInv, CallBegins, Goto, serviceVars, deathVars, managerVars, localVars,
       TriesCounted, TypeOK
  <2>4. SensorsOfServer'
    BY <1>7 DEF BaseInv, CallBegins, Goto, serviceVars, deathVars, managerVars, localVars,
       SensorsOfServer, LockDiscipline, Inside, TypeOK
  <2>5. Freshness'
    BY <1>7 DEF BaseInv, CallBegins, Goto, serviceVars, deathVars, managerVars, localVars,
       Freshness, AnswerIsFresh, SensorsOfServer, LockDiscipline, Inside, TypeOK,
       Incarnations
  <2> QED BY <2>1, <2>2, <2>3, <2>4, <2>5 DEF BaseInv
<1>8. ASSUME NEW c \in Callers, CallLocks(c)
      PROVE  BaseInv'
  <2>1. TypeOK'
    BY <1>8 DEF BaseInv, CallLocks, Alive, Goto, serviceVars, deathVars, managerVars,
       localVars, TypeOK, Incarnations, TriesCounted, Dangling
  <2>2. LockDiscipline'
    BY <1>8 DEF BaseInv, CallLocks, Alive, Goto, serviceVars, deathVars, managerVars,
       localVars, LockDiscipline, Inside, TypeOK
  <2>3. TriesCounted'
    BY <1>8 DEF BaseInv, CallLocks, Alive, Goto, serviceVars, deathVars, managerVars,
       localVars, TriesCounted, TypeOK
  <2>4. SensorsOfServer'
    BY <1>8 DEF BaseInv, CallLocks, Alive, Goto, serviceVars, deathVars, managerVars,
       localVars, SensorsOfServer, LockDiscipline, Inside, TypeOK
  <2>5. Freshness'
    BY <1>8 DEF BaseInv, CallLocks, Alive, Goto, serviceVars, deathVars, managerVars,
       localVars, Freshness, AnswerIsFresh, SensorsOfServer, LockDiscipline, Inside,
       TypeOK, Incarnations
  <2> QED BY <2>1, <2>2, <2>3, <2>4, <2>5 DEF BaseInv
<1>9. ASSUME NEW c \in Callers, GetServiceFails(c)
      PROVE  BaseInv'
  <2>1. TypeOK'
    BY <1>9 DEF BaseInv, GetServiceFails, TriesAfter, Goto, serviceVars, deathVars,
       managerVars, localVars, TypeOK, Incarnations, TriesCounted, Dangling
  <2>2. LockDiscipline'
    BY <1>9 DEF BaseInv, GetServiceFails, TriesAfter, Goto, serviceVars, deathVars,
       managerVars, localVars, LockDiscipline, Inside, TypeOK
  <2>3. TriesCounted'
    BY <1>9 DEF BaseInv, GetServiceFails, TriesAfter, Goto, serviceVars, deathVars,
       managerVars, localVars, TriesCounted, TypeOK
  <2>4. SensorsOfServer'
    BY <1>9 DEF BaseInv, GetServiceFails, TriesAfter, Goto, serviceVars, deathVars,
       managerVars, localVars, SensorsOfServer, LockDiscipline, Inside, TypeOK
  <2>5. Freshness'
    BY <1>9 DEF BaseInv, GetServiceFails, TriesAfter, Goto, serviceVars, deathVars,
       managerVars, localVars, Freshness, AnswerIsFresh, SensorsOfServer, LockDiscipline,
       Inside, TypeOK, Incarnations
  <2> QED BY <2>1, <2>2, <2>3, <2>4, <2>5 DEF BaseInv
<1>10. ASSUME NEW c \in Callers, GetServiceFinds(c)
      PROVE  BaseInv'
  <2>1. TypeOK'
    BY <1>10 DEF BaseInv, GetServiceFinds, Goto, serviceVars, deathVars, managerVars,
       localVars, TypeOK, Incarnations, TriesCounted, Dangling
  <2>2. LockDiscipline'
    BY <1>10 DEF BaseInv, GetServiceFinds, Goto, serviceVars, deathVars, managerVars,
       localVars, LockDiscipline, Inside, TypeOK
  <2>3. TriesCounted'
    BY <1>10 DEF BaseInv, GetServiceFinds, Goto, serviceVars, deathVars, managerVars,
       localVars, TriesCounted, TypeOK
  <2>4. SensorsOfServer'
    BY <1>10 DEF BaseInv, GetServiceFinds, Goto, serviceVars, deathVars, managerVars,
       localVars, SensorsOfServer, LockDiscipline, Inside, TypeOK
  <2>5. Freshness'
    BY <1>10 DEF BaseInv, GetServiceFinds, Goto, serviceVars, deathVars, managerVars,
       localVars, Freshness, AnswerIsFresh, SensorsOfServer, LockDiscipline, Inside,
       TypeOK, Incarnations
  <2> QED BY <2>1, <2>2, <2>3, <2>4, <2>5 DEF BaseInv
<1>11. ASSUME NEW c \in Callers, LinkToDeath(c)
      PROVE  BaseInv'
  <2>1. TypeOK'
    BY <1>11 DEF BaseInv, LinkToDeath, UseProxy, Goto, serviceVars, deathVars,
       managerVars, localVars, TypeOK, Incarnations, TriesCounted, Dangling
  <2>2. LockDiscipline'
    BY <1>11 DEF BaseInv, LinkToDeath, UseProxy, Goto, serviceVars, deathVars,
       managerVars, localVars, LockDiscipline, Inside, TypeOK
  <2>3. TriesCounted'
    BY <1>11 DEF BaseInv, LinkToDeath, UseProxy, Goto, serviceVars, deathVars,
       managerVars, localVars, TriesCounted, TypeOK
  <2>4. SensorsOfServer'
    BY <1>11 DEF BaseInv, LinkToDeath, UseProxy, Goto, serviceVars, deathVars,
       managerVars, localVars, SensorsOfServer, LockDiscipline, Inside, TypeOK
  <2>5. Freshness'
    BY <1>11 DEF BaseInv, LinkToDeath, UseProxy, Goto, serviceVars, deathVars,
       managerVars, localVars, Freshness, AnswerIsFresh, SensorsOfServer, LockDiscipline,
       Inside, TypeOK, Incarnations
  <2> QED BY <2>1, <2>2, <2>3, <2>4, <2>5 DEF BaseInv
<1>12. ASSUME NEW c \in Callers, FetchSensors(c)
      PROVE  BaseInv'
  <2>1. TypeOK'
    BY <1>12 DEF BaseInv, FetchSensors, UseProxy, Remote, Goto, serviceVars, deathVars,
       managerVars, localVars, TypeOK, Incarnations, TriesCounted, Dangling
  <2>2. LockDiscipline'
    BY <1>12 DEF BaseInv, FetchSensors, UseProxy, Remote, Goto, serviceVars, deathVars,
       managerVars, localVars, LockDiscipline, Inside, TypeOK
  <2>3. TriesCounted'
    BY <1>12 DEF BaseInv, FetchSensors, UseProxy, Remote, Goto, serviceVars, deathVars,
       managerVars, localVars, TriesCounted, TypeOK
  <2>4. SensorsOfServer'
    BY <1>12 DEF BaseInv, FetchSensors, UseProxy, Remote, Goto, serviceVars, deathVars,
       managerVars, localVars, SensorsOfServer, LockDiscipline, Inside, TypeOK
  <2>5. Freshness'
    BY <1>12 DEF BaseInv, FetchSensors, UseProxy, Remote, Goto, serviceVars, deathVars,
       managerVars, localVars, Freshness, AnswerIsFresh, SensorsOfServer, LockDiscipline,
       Inside, TypeOK, Incarnations
  <2> QED BY <2>1, <2>2, <2>3, <2>4, <2>5 DEF BaseInv
<1>13. ASSUME NEW c \in Callers, PublishList(c)
      PROVE  BaseInv'
  <2>1. TypeOK'
    BY <1>13 DEF BaseInv, PublishList, Goto, serviceVars, deathVars, managerVars,
       localVars, TypeOK, Incarnations, TriesCounted, Dangling
  <2>2. LockDiscipline'
    BY <1>13 DEF BaseInv, PublishList, Goto, serviceVars, deathVars, managerVars,
       localVars, LockDiscipline, Inside, TypeOK
  <2>3. TriesCounted'
    BY <1>13 DEF BaseInv, PublishList, Goto, serviceVars, deathVars, managerVars,
       localVars, TriesCounted, TypeOK
  <2>4. SensorsOfServer'
    BY <1>13 DEF BaseInv, PublishList, Goto, serviceVars, deathVars, managerVars,
       localVars, SensorsOfServer, LockDiscipline, Inside, TypeOK
  <2>5. Freshness'
    BY <1>13 DEF BaseInv, PublishList, Goto, serviceVars, deathVars, managerVars,
       localVars, Freshness, AnswerIsFresh, SensorsOfServer, LockDiscipline, Inside,
       TypeOK, Incarnations
  <2> QED BY <2>1, <2>2, <2>3, <2>4, <2>5 DEF BaseInv
<1>14. ASSUME NEW c \in Callers, UseCache(c)
      PROVE  BaseInv'
  <2>1. TypeOK'
    BY <1>14 DEF BaseInv, UseCache, Return, Goto, serviceVars, deathVars, managerVars,
       localVars, TypeOK, Incarnations, TriesCounted, Dangling
  <2>2. LockDiscipline'
    BY <1>14 DEF BaseInv, UseCache, Return, Goto, serviceVars, deathVars, managerVars,
       localVars, LockDiscipline, Inside, TypeOK
  <2>3. TriesCounted'
    BY <1>14 DEF BaseInv, UseCache, Return, Goto, serviceVars, deathVars, managerVars,
       localVars, TriesCounted, TypeOK
  <2>4. SensorsOfServer'
    BY <1>14 DEF BaseInv, UseCache, Return, Goto, serviceVars, deathVars, managerVars,
       localVars, SensorsOfServer, LockDiscipline, Inside, TypeOK
  <2>5. Freshness'
    BY <1>14 DEF BaseInv, UseCache, Return, Goto, serviceVars, deathVars, managerVars,
       localVars, Freshness, AnswerIsFresh, SensorsOfServer, LockDiscipline, Inside,
       TypeOK, Incarnations
  <2> QED BY <2>1, <2>2, <2>3, <2>4, <2>5 DEF BaseInv
<1>15. ASSUME NEW c \in Callers, UseServer(c)
      PROVE  BaseInv'
  <2>1. TypeOK'
    BY <1>15 DEF BaseInv, UseServer, UseProxy, Remote, Return, Goto, serviceVars,
       deathVars, managerVars, localVars, TypeOK, Incarnations, TriesCounted, Dangling
  <2>2. LockDiscipline'
    BY <1>15 DEF BaseInv, UseServer, UseProxy, Remote, Return, Goto, serviceVars,
       deathVars, managerVars, localVars, LockDiscipline, Inside, TypeOK
  <2>3. TriesCounted'
    BY <1>15 DEF BaseInv, UseServer, UseProxy, Remote, Return, Goto, serviceVars,
       deathVars, managerVars, localVars, TriesCounted, TypeOK
  <2>4. SensorsOfServer'
    BY <1>15 DEF BaseInv, UseServer, UseProxy, Remote, Return, Goto, serviceVars,
       deathVars, managerVars, localVars, SensorsOfServer, LockDiscipline, Inside, TypeOK
  <2>5. Freshness'
    BY <1>15 DEF BaseInv, UseServer, UseProxy, Remote, Return, Goto, serviceVars,
       deathVars, managerVars, localVars, Freshness, AnswerIsFresh, SensorsOfServer,
       LockDiscipline, Inside, TypeOK, Incarnations
  <2> QED BY <2>1, <2>2, <2>3, <2>4, <2>5 DEF BaseInv
<1>16. ASSUME UNCHANGED vars
      PROVE  BaseInv'
  <2>1. TypeOK'
    BY <1>16 DEF BaseInv, vars, Goto, serviceVars, deathVars, managerVars, localVars,
       TypeOK, Incarnations, TriesCounted, Dangling
  <2>2. LockDiscipline'
    BY <1>16 DEF BaseInv, vars, Goto, serviceVars, deathVars, managerVars, localVars,
       LockDiscipline, Inside, TypeOK
  <2>3. TriesCounted'
    BY <1>16 DEF BaseInv, vars, Goto, serviceVars, deathVars, managerVars, localVars,
       TriesCounted, TypeOK
  <2>4. SensorsOfServer'
    BY <1>16 DEF BaseInv, vars, Goto, serviceVars, deathVars, managerVars, localVars,
       SensorsOfServer, LockDiscipline, Inside, TypeOK
  <2>5. Freshness'
    BY <1>16 DEF BaseInv, vars, Goto, serviceVars, deathVars, managerVars, localVars,
       Freshness, AnswerIsFresh, SensorsOfServer, LockDiscipline, Inside, TypeOK,
       Incarnations
  <2> QED BY <2>1, <2>2, <2>3, <2>4, <2>5 DEF BaseInv
<1> QED   BY <1>1, <1>2, <1>3, <1>4, <1>5, <1>6, <1>7, <1>8, <1>9, <1>10, <1>11, <1>12,
   <1>13, <1>14, <1>15, <1>16 DEF Next, Caller

\* The manager's cache, the lock and the locals of every call keep their types,
\* however often the service restarts: assertStateLocked() never counts beyond
\* its last try.
THEOREM TypeCorrect == Spec => []TypeOK
<1>1. BaseInv => TypeOK
  BY DEF BaseInv
<1> QED
  BY <1>1, InitBaseInv, NextBaseInv, PTL DEF Spec

\* A blob is never told what an incarnation said that was dead before the call
\* began: assertStateLocked() pings the proxy, so the answer is right although
\* sensorManagerDied() may still be waiting.
THEOREM AnswersAreFresh == Spec => []AnswerIsFresh
<1>1. BaseInv => AnswerIsFresh
  BY DEF BaseInv, Freshness
<1> QED
  BY <1>1, InitBaseInv, NextBaseInv, PTL DEF Spec

-----------------------------------------------------------------------------
(* The proxy and the list *)

\* In the initial state there is nobody to lose a proxy.
LEMMA InitProxyIsKept == Init => ProxyIsKept
  BY ManagerAssumption DEF Init, ProxyIsKept, NullProxyOnlyInConstructor

\* A death report needs mLock, so no step takes the proxy away under a call.
LEMMA NextProxyIsKept ==
  ASSUME BaseInv, ProxyIsKept, [Next]_vars
  PROVE  ProxyIsKept'
<1> USE ManagerAssumption
<1>1. ASSUME ServiceDies
      PROVE  ProxyIsKept'
  BY <1>1 DEF ServiceDies, Goto, serviceVars, deathVars, managerVars, localVars,
     BaseInv, ProxyIsKept, NullProxyOnlyInConstructor, TypeOK, LockDiscipline,
     Inside
<1>2. ASSUME ServiceUnregistered
      PROVE  ProxyIsKept'
  BY <1>2 DEF ServiceUnregistered, Goto, serviceVars, deathVars, managerVars,
     localVars, BaseInv, ProxyIsKept, NullProxyOnlyInConstructor, TypeOK,
     LockDiscipline, Inside
<1>3. ASSUME ServiceRestarts
      PROVE  ProxyIsKept'
  BY <1>3 DEF ServiceRestarts, Goto, serviceVars, deathVars, managerVars, localVars,
     BaseInv, ProxyIsKept, NullProxyOnlyInConstructor, TypeOK, LockDiscipline,
     Inside
<1>4. ASSUME NEW i \in Incarnations, DeathReported(i)
      PROVE  ProxyIsKept'
  BY <1>4 DEF DeathReported, ObserverAlive, Goto, serviceVars, deathVars,
     managerVars, localVars, BaseInv, ProxyIsKept, NullProxyOnlyInConstructor,
     TypeOK, LockDiscipline, Inside
<1>5. ASSUME NEW i \in Incarnations, sensorManagerDied(i)
      PROVE  ProxyIsKept'
  BY <1>5 DEF sensorManagerDied, DiedMayEnter, Goto, serviceVars, deathVars,
     managerVars, localVars, BaseInv, ProxyIsKept, NullProxyOnlyInConstructor,
     TypeOK, LockDiscipline, Inside
<1>6. ASSUME NEW c \in Callers, Construct(c)
      PROVE  ProxyIsKept'
  BY <1>6 DEF Construct, Goto, serviceVars, deathVars, managerVars, localVars,
     BaseInv, ProxyIsKept, NullProxyOnlyInConstructor, TypeOK, LockDiscipline,
     Inside
<1>7. ASSUME NEW c \in Callers, NEW o \in Operations, CallBegins(c, o)
      PROVE  ProxyIsKept'
  BY <1>7 DEF CallBegins, Goto, serviceVars, deathVars, managerVars, localVars,
     BaseInv, ProxyIsKept, NullProxyOnlyInConstructor, TypeOK, LockDiscipline,
     Inside
<1>8. ASSUME NEW c \in Callers, CallLocks(c)
      PROVE  ProxyIsKept'
  BY <1>8 DEF CallLocks, Alive, Goto, serviceVars, deathVars, managerVars,
     localVars, BaseInv, ProxyIsKept, NullProxyOnlyInConstructor, TypeOK,
     LockDiscipline, Inside
<1>9. ASSUME NEW c \in Callers, GetServiceFails(c)
      PROVE  ProxyIsKept'
  BY <1>9 DEF GetServiceFails, TriesAfter, Goto, serviceVars, deathVars,
     managerVars, localVars, BaseInv, ProxyIsKept, NullProxyOnlyInConstructor,
     TypeOK, LockDiscipline, Inside
<1>10. ASSUME NEW c \in Callers, GetServiceFinds(c)
      PROVE  ProxyIsKept'
  BY <1>10 DEF GetServiceFinds, Goto, serviceVars, deathVars, managerVars,
     localVars, BaseInv, ProxyIsKept, NullProxyOnlyInConstructor, TypeOK,
     LockDiscipline, Inside
<1>11. ASSUME NEW c \in Callers, LinkToDeath(c)
      PROVE  ProxyIsKept'
  BY <1>11 DEF LinkToDeath, UseProxy, Goto, serviceVars, deathVars, managerVars,
     localVars, BaseInv, ProxyIsKept, NullProxyOnlyInConstructor, TypeOK,
     LockDiscipline, Inside
<1>12. ASSUME NEW c \in Callers, FetchSensors(c)
      PROVE  ProxyIsKept'
  BY <1>12 DEF FetchSensors, UseProxy, Remote, Goto, serviceVars, deathVars,
     managerVars, localVars, BaseInv, ProxyIsKept, NullProxyOnlyInConstructor,
     TypeOK, LockDiscipline, Inside
<1>13. ASSUME NEW c \in Callers, PublishList(c)
      PROVE  ProxyIsKept'
  BY <1>13 DEF PublishList, Goto, serviceVars, deathVars, managerVars, localVars,
     BaseInv, ProxyIsKept, NullProxyOnlyInConstructor, TypeOK, LockDiscipline,
     Inside
<1>14. ASSUME NEW c \in Callers, UseCache(c)
      PROVE  ProxyIsKept'
  BY <1>14 DEF UseCache, Return, Goto, serviceVars, deathVars, managerVars,
     localVars, BaseInv, ProxyIsKept, NullProxyOnlyInConstructor, TypeOK,
     LockDiscipline, Inside
<1>15. ASSUME NEW c \in Callers, UseServer(c)
      PROVE  ProxyIsKept'
  BY <1>15 DEF UseServer, UseProxy, Remote, Return, Goto, serviceVars, deathVars,
     managerVars, localVars, BaseInv, ProxyIsKept, NullProxyOnlyInConstructor,
     TypeOK, LockDiscipline, Inside
<1>16. ASSUME UNCHANGED vars
      PROVE  ProxyIsKept'
  BY <1>16 DEF vars, Goto, serviceVars, deathVars, managerVars, localVars, BaseInv,
     ProxyIsKept, NullProxyOnlyInConstructor, TypeOK, LockDiscipline, Inside
<1> QED   BY <1>1, <1>2, <1>3, <1>4, <1>5, <1>6, <1>7, <1>8, <1>9, <1>10, <1>11, <1>12,
   <1>13, <1>14, <1>15, <1>16 DEF Next, Caller

\* sensorManagerDied() takes the proxy away only under mLock, and every use of
\* the proxy outside the constructor is behind mLock: whatever dies and whenever
\* it is reported, no method of a constructed manager dereferences NULL.
THEOREM NullProxyNeverInCall == Spec => []NullProxyOnlyInConstructor
<1>1. BaseInv /\ ProxyIsKept => NullProxyOnlyInConstructor
  BY DEF ProxyIsKept
<1>2. BaseInv /\ ProxyIsKept /\ [Next]_vars => ProxyIsKept'
  BY NextProxyIsKept
<1> QED
  BY <1>1, <1>2, InitBaseInv, NextBaseInv, InitProxyIsKept, PTL DEF Spec

\* A call that has passed assertStateLocked() finds a list of exactly the cached
\* sensors, also after a construction that a death report has disturbed.
THEOREM ListMatchesSensors == Spec => []ListIsOfCachedSensors
<1>1. BaseInv /\ ProxyIsKept => ListIsOfCachedSensors
  BY DEF ProxyIsKept, ListIsOfCachedSensors, BaseInv, LockDiscipline
<1>2. BaseInv /\ ProxyIsKept /\ [Next]_vars => ProxyIsKept'
  BY NextProxyIsKept
<1> QED
  BY <1>1, <1>2, InitBaseInv, NextBaseInv, InitProxyIsKept, PTL DEF Spec
=============================================================================
