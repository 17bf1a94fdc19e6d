------------------------ MODULE ServerLifecycle_proofs ------------------------
(***************************************************************************)
(* Theorems of ServerLifecycle for every set of connections, every pool    *)
(* size and every set of faults; then of InstanceRegistry, the files by    *)
(* which the servers of several processes are found, for any number of     *)
(* processes, pids and ports.                                              *)
(***************************************************************************)
EXTENDS ServerLifecycle, InstanceRegistry, TLAPS

\* A step keeps every variable in its type.
LEMMA TypeStep == TypeOK /\ [Next]_vars => TypeOK'
<1> SUFFICES ASSUME TypeOK, [Next]_vars PROVE TypeOK'
  OBVIOUS
<1> USE ConnAssumption, FaultsAssumption
    DEF TypeOK, Conn, MainState, ThreadState, ConnState,
        mainVars, pluginVars, serverVars, syncVars, sseVars, vars
<1>1. CASE RunStart
  BY <1>1 DEF RunStart, Abort
<1>2. CASE BindOk
  BY <1>2 DEF BindOk
<1>3. CASE BindFail
  BY <1>3 DEF BindFail
<1>4. CASE StartReturn
  BY <1>4 DEF StartReturn, Abort
<1>5. CASE StopCloseSse
  BY <1>5 DEF StopCloseSse
<1>6. CASE StopSocket
  BY <1>6 DEF StopSocket, ResetBacklog
<1>7. CASE StopJoin
  BY <1>7 DEF StopJoin
<1>8. CASE Unload
  BY <1>8 DEF Unload, Abort
<1>9. CASE Load
  BY <1>9 DEF Load
<1>10. CASE ExecEnd
  BY <1>10 DEF ExecEnd
<1>11. CASE ListenBegin
  BY <1>11 DEF ListenBegin
<1>12. CASE ListenEnd
  BY <1>12 DEF ListenEnd, ResetBacklog
<1>13. CASE PoolJoined
  BY <1>13 DEF PoolJoined
<1>14. CASE ThreadEnd
  BY <1>14 DEF ThreadEnd
<1>15. ASSUME NEW u \in BOOLEAN, StopBegin(u) PROVE TypeOK'
  BY <1>15 DEF StopBegin
<1>16. ASSUME NEW c \in Conn, Accept(c) PROVE TypeOK'
  BY <1>16 DEF Accept
<1>17. ASSUME NEW c \in Conn, Connect(c) PROVE TypeOK'
  BY <1>17 DEF Connect
<1>18. ASSUME NEW c \in Conn, Take(c) PROVE TypeOK'
  BY <1>18 DEF Take
<1>19. ASSUME NEW c \in Conn, Submit(c) PROVE TypeOK'
  BY <1>19 DEF Submit
<1>20. ASSUME NEW c \in Conn, SyncReturn(c) PROVE TypeOK'
  BY <1>20 DEF SyncReturn
<1>21. ASSUME NEW c \in Conn, SyncRefused(c) PROVE TypeOK'
  BY <1>21 DEF SyncRefused
<1>22. ASSUME NEW c \in Conn, FutureReady(c) PROVE TypeOK'
  BY <1>22 DEF FutureReady
<1>23. ASSUME NEW c \in Conn, FutureTimeout(c) PROVE TypeOK'
  BY <1>23 DEF FutureTimeout
<1>24. ASSUME NEW c \in Conn, ServeLocal(c) PROVE TypeOK'
  BY <1>24 DEF ServeLocal
<1>25. ASSUME NEW c \in Conn, NextRequest(c) PROVE TypeOK'
  BY <1>25 DEF NextRequest
<1>26. ASSUME NEW c \in Conn, KeepAliveEnd(c) PROVE TypeOK'
  BY <1>26 DEF KeepAliveEnd
<1>27. ASSUME NEW c \in Conn, StreamOpen(c) PROVE TypeOK'
  BY <1>27 DEF StreamOpen
<1>28. ASSUME NEW c \in Conn, StreamStop(c) PROVE TypeOK'
  BY <1>28 DEF StreamStop
<1>29. ASSUME NEW c \in Conn, StreamBroken(c) PROVE TypeOK'
  BY <1>29 DEF StreamBroken
<1>30. ASSUME NEW c \in Conn, StreamRelease(c) PROVE TypeOK'
  BY <1>30 DEF StreamRelease
<1>31. ASSUME NEW c \in Conn, ExecBegin(c) PROVE TypeOK'
  BY <1>31 DEF ExecBegin
<1>32. CASE UNCHANGED vars
  BY <1>32
<1>. QED
  BY <1>1, <1>2, <1>3, <1>4, <1>5, <1>6, <1>7, <1>8, <1>9, <1>10, <1>11,
     <1>12, <1>13, <1>14, <1>15, <1>16, <1>17, <1>18, <1>19, <1>20, <1>21,
     <1>22, <1>23, <1>24, <1>25, <1>26, <1>27, <1>28, <1>29, <1>30, <1>31,
     <1>32
  DEF Next, MainProgress, UserStep, ServerThread, Worker, Environment

\* Before the plugin has run, every variable is of its type.
LEMMA TypeInit == Init => TypeOK
  BY ConnAssumption
     DEF Init, TypeOK, Conn, MainState, ThreadState, ConnState

(***************************************************************************)
(* Every variable stays in its type, whatever the threads, the clients and *)
(* the faults do (server.cpp, sync.cpp, plugin.cpp).                       *)
(***************************************************************************)
THEOREM TypeCorrect == Spec => []TypeOK
  BY TypeInit, TypeStep, PTL DEF Spec

-----------------------------------------------------------------------------
(* The inductive invariant                                                  *)

\* No worker is busy and no job waits exactly when every connection is
\* closed or still in the kernel's backlog.
LEMMA NoWork ==
  ASSUME TypeOK
  PROVE  Held \cup Jobs = {} <=> \A c \in Conn : conn[c] \in {"idle", "backlog"}
  BY DEF TypeOK, Held, Jobs, ConnState

\* The invariant holds before the plugin has run.
LEMMA InvInit == Init => Inv
<1> SUFFICES ASSUME Init PROVE Inv
  OBVIOUS
<1>1. TypeOK
  BY TypeInit
<1>2. Held \cup Jobs = {}
  BY <1>1, NoWork DEF Init
<1>. QED
  BY <1>1, <1>2, ConnAssumption
     DEF Init, Inv, NoDanglingRequest, FreshRequests, MainConsistent, Lifetimes,
         SessionsHaveWorkers, EveryStreamIsReachable, NoSelfStop, Conn, Stopping

\* The parts of Inv about requests, which are preserved together.
RequestParts == /\ NoDanglingRequest /\ FreshRequests
                /\ MainConsistent /\ SessionsHaveWorkers

\* Every step keeps the invariant.
LEMMA InvStep == Inv /\ [Next]_vars => Inv'
<1> SUFFICES ASSUME Inv, [Next]_vars PROVE Inv'
  OBVIOUS
<1>t. TypeOK'
  BY TypeStep DEF Inv
<1>w. /\ Held \cup Jobs = {} <=> \A c \in Conn : conn[c] \in {"idle", "backlog"}
      /\ (Held \cup Jobs = {})' <=> \A c \in Conn : conn'[c] \in {"idle", "backlog"}
  <2>1. Held \cup Jobs = {} <=> \A c \in Conn : conn[c] \in {"idle", "backlog"}
    BY NoWork DEF Inv
  <2>2. (Held \cup Jobs = {})' <=> \A c \in Conn : conn'[c] \in {"idle", "backlog"}
    BY <1>t DEF TypeOK, Held, Jobs, ConnState
  <2>. QED
    BY <2>1, <2>2
<1>a. RequestParts'
  <2> USE <1>t, ConnAssumption
      DEF TypeOK, Conn, Inv, RequestParts, NoDanglingRequest, FreshRequests,
          MainConsistent, SessionsHaveWorkers, Lifetimes,
          mainVars, pluginVars, serverVars, syncVars, sseVars, vars
  <2>1. CASE RunStart
    BY <2>1 DEF RunStart, Abort
  <2>2. CASE BindOk
    BY <2>2 DEF BindOk
  <2>3. CASE BindFail
    BY <2>3 DEF BindFail
  <2>4. CASE StartReturn
    BY <2>4 DEF StartReturn, Abort
  <2>5. CASE StopCloseSse
    BY <2>5 DEF StopCloseSse
  <2>6. CASE StopSocket
    BY <2>6 DEF StopSocket, ResetBacklog
  <2>7. CASE StopJoin
    BY <2>7 DEF StopJoin
  <2>8. CASE Unload
    BY <2>8 DEF Unload, Abort
  <2>9. CASE Load
    BY <2>9 DEF Load
  <2>10. CASE ExecEnd
    BY <2>10 DEF ExecEnd
  <2>11. CASE ListenBegin
    BY <2>11 DEF ListenBegin
  <2>12. CASE ListenEnd
    BY <2>12 DEF ListenEnd, ResetBacklog
  <2>13. CASE PoolJoined
    BY <2>13 DEF PoolJoined
  <2>14. CASE ThreadEnd
    BY <2>14 DEF ThreadEnd
  <2>15. ASSUME NEW u \in BOOLEAN, StopBegin(u) PROVE RequestParts'
    BY <2>15 DEF StopBegin
  <2>16. ASSUME NEW c \in Conn, Accept(c) PROVE RequestParts'
    BY <2>16 DEF Accept
  <2>17. ASSUME NEW c \in Conn, Connect(c) PROVE RequestParts'
    BY <2>17 DEF Connect
  <2>18. ASSUME NEW c \in Conn, Take(c) PROVE RequestParts'
    BY <2>18 DEF Take
  <2>19. ASSUME NEW c \in Conn, Submit(c) PROVE RequestParts'
    BY <2>19 DEF Submit
  <2>20. ASSUME NEW c \in Conn, SyncReturn(c) PROVE RequestParts'
    BY <2>20 DEF SyncReturn
  <2>21. ASSUME NEW c \in Conn, SyncRefused(c) PROVE RequestParts'
    BY <2>21 DEF SyncRefused
  <2>22. ASSUME NEW c \in Conn, FutureReady(c) PROVE RequestParts'
    BY <2>22 DEF FutureReady
  <2>23. ASSUME NEW c \in Conn, FutureTimeout(c) PROVE RequestParts'
    BY <2>23 DEF FutureTimeout
  <2>24. ASSUME NEW c \in Conn, ServeLocal(c) PROVE RequestParts'
    BY <2>24 DEF ServeLocal
  <2>25. ASSUME NEW c \in Conn, NextRequest(c) PROVE RequestParts'
    BY <2>25 DEF NextRequest
  <2>26. ASSUME NEW c \in Conn, KeepAliveEnd(c) PROVE RequestParts'
    BY <2>26 DEF KeepAliveEnd
  <2>27. ASSUME NEW c \in Conn, StreamOpen(c) PROVE RequestParts'
    BY <2>27 DEF StreamOpen
  <2>28. ASSUME NEW c \in Conn, StreamStop(c) PROVE RequestParts'
    BY <2>28 DEF StreamStop
  <2>29. ASSUME NEW c \in Conn, StreamBroken(c) PROVE RequestParts'
    BY <2>29 DEF StreamBroken
  <2>30. ASSUME NEW c \in Conn, StreamRelease(c) PROVE RequestParts'
    BY <2>30 DEF StreamRelease
  <2>31. ASSUME NEW c \in Conn, ExecBegin(c) PROVE RequestParts'
    BY <2>31 DEF ExecBegin
  <2>32. CASE UNCHANGED vars
    BY <2>32
  <2>. QED
    BY <2>1, <2>2, <2>3, <2>4, <2>5, <2>6, <2>7, <2>8, <2>9, <2>10, <2>11,
       <2>12, <2>13, <2>14, <2>15, <2>16, <2>17, <2>18, <2>19, <2>20, <2>21,
       <2>22, <2>23, <2>24, <2>25, <2>26, <2>27, <2>28, <2>29, <2>30, <2>31,
       <2>32
    DEF Next, MainProgress, UserStep, ServerThread, Worker, Environment
<1>b. Lifetimes'
  <2> USE <1>t, <1>w, ConnAssumption
      DEF TypeOK, Conn, Inv, MainConsistent, Lifetimes, NoDanglingRequest,
          mainVars, pluginVars, serverVars, syncVars, sseVars, vars
  <2>1. CASE RunStart
    BY <2>1 DEF RunStart, Abort
  <2>2. CASE BindOk
    BY <2>2 DEF BindOk
  <2>3. CASE BindFail
    BY <2>3 DEF BindFail
  <2>4. CASE StartReturn
    BY <2>4 DEF StartReturn, Abort
  <2>5. CASE StopCloseSse
    BY <2>5 DEF StopCloseSse
  <2>6. CASE StopSocket
    BY <2>6 DEF StopSocket, ResetBacklog
  <2>7. CASE StopJoin
    BY <2>7 DEF StopJoin
  <2>8. CASE Unload
    BY <2>8 DEF Unload, Abort
  <2>9. CASE Load
    BY <2>9 DEF Load
  <2>10. CASE ExecEnd
    BY <2>10 DEF ExecEnd
  <2>11. CASE ListenBegin
    BY <2>11 DEF ListenBegin
  <2>12. CASE ListenEnd
    BY <2>12 DEF ListenEnd, ResetBacklog
  <2>13. CASE PoolJoined
    BY <2>13 DEF PoolJoined
  <2>14. CASE ThreadEnd
    BY <2>14 DEF ThreadEnd
  <2>15. ASSUME NEW u \in BOOLEAN, StopBegin(u) PROVE Lifetimes'
    BY <2>15 DEF StopBegin
  <2>16. ASSUME NEW c \in Conn, Accept(c) PROVE Lifetimes'
    BY <2>16 DEF Accept
  <2>17. ASSUME NEW c \in Conn, Connect(c) PROVE Lifetimes'
    BY <2>17 DEF Connect
  <2>18. ASSUME NEW c \in Conn, Take(c) PROVE Lifetimes'
    BY <2>18 DEF Take
  <2>19. ASSUME NEW c \in Conn, Submit(c) PROVE Lifetimes'
    BY <2>19 DEF Submit
  <2>20. ASSUME NEW c \in Conn, SyncReturn(c) PROVE Lifetimes'
    BY <2>20 DEF SyncReturn
  <2>21. ASSUME NEW c \in Conn, SyncRefused(c) PROVE Lifetimes'
    BY <2>21 DEF SyncRefused
  <2>22. ASSUME NEW c \in Conn, FutureReady(c) PROVE Lifetimes'
    BY <2>22 DEF FutureReady
  <2>23. ASSUME NEW c \in Conn, FutureTimeout(c) PROVE Lifetimes'
    BY <2>23 DEF FutureTimeout
  <2>24. ASSUME NEW c \in Conn, ServeLocal(c) PROVE Lifetimes'
    BY <2>24 DEF ServeLocal
  <2>25. ASSUME NEW c \in Conn, NextRequest(c) PROVE Lifetimes'
    BY <2>25 DEF NextRequest
  <2>26. ASSUME NEW c \in Conn, KeepAliveEnd(c) PROVE Lifetimes'
    BY <2>26 DEF KeepAliveEnd
  <2>27. ASSUME NEW c \in Conn, StreamOpen(c) PROVE Lifetimes'
    BY <2>27 DEF StreamOpen
  <2>28. ASSUME NEW c \in Conn, StreamStop(c) PROVE Lifetimes'
    BY <2>28 DEF StreamStop
  <2>29. ASSUME NEW c \in Conn, StreamBroken(c) PROVE Lifetimes'
    BY <2>29 DEF StreamBroken
  <2>30. ASSUME NEW c \in Conn, StreamRelease(c) PROVE Lifetimes'
    BY <2>30 DEF StreamRelease
  <2>31. ASSUME NEW c \in Conn, ExecBegin(c) PROVE Lifetimes'
    BY <2>31 DEF ExecBegin
  <2>32. CASE UNCHANGED vars
    BY <2>32
  <2>. QED
    BY <2>1, <2>2, <2>3, <2>4, <2>5, <2>6, <2>7, <2>8, <2>9, <2>10, <2>11,
       <2>12, <2>13, <2>14, <2>15, <2>16, <2>17, <2>18, <2>19, <2>20, <2>21,
       <2>22, <2>23, <2>24, <2>25, <2>26, <2>27, <2>28, <2>29, <2>30, <2>31,
       <2>32
    DEF Next, MainProgress, UserStep, ServerThread, Worker, Environment
<1>c. EveryStreamIsReachable'
  <2> USE <1>t, <1>w, ConnAssumption
      DEF TypeOK, Conn, Inv, MainConsistent, Lifetimes, EveryStreamIsReachable,
          mainVars, pluginVars, serverVars, syncVars, sseVars, vars
  <2>1. CASE RunStart
    BY <2>1 DEF RunStart, Abort
  <2>2. CASE BindOk
    BY <2>2 DEF BindOk
  <2>3. CASE BindFail
    BY <2>3 DEF BindFail
  <2>4. CASE StartReturn
    BY <2>4 DEF StartReturn, Abort
  <2>5. CASE StopCloseSse
    BY <2>5 DEF StopCloseSse
  <2>6. CASE StopSocket
    BY <2>6 DEF StopSocket, ResetBacklog
  <2>7. CASE StopJoin
    BY <2>7 DEF StopJoin
  <2>8. CASE Unload
    BY <2>8 DEF Unload, Abort
  <2>9. CASE Load
    BY <2>9 DEF Load
  <2>10. CASE ExecEnd
    BY <2>10 DEF ExecEnd
  <2>11. CASE ListenBegin
    BY <2>11 DEF ListenBegin
  <2>12. CASE ListenEnd
    BY <2>12 DEF ListenEnd, ResetBacklog
  <2>13. CASE PoolJoined
    BY <2>13 DEF PoolJoined
  <2>14. CASE ThreadEnd
    BY <2>14 DEF ThreadEnd
  <2>15. ASSUME NEW u \in BOOLEAN, StopBegin(u) PROVE EveryStreamIsReachable'
    BY <2>15 DEF StopBegin
  <2>16. ASSUME NEW c \in Conn, Accept(c) PROVE EveryStreamIsReachable'
    BY <2>16 DEF Accept
  <2>17. ASSUME NEW c \in Conn, Connect(c) PROVE EveryStreamIsReachable'
    BY <2>17 DEF Connect
  <2>18. ASSUME NEW c \in Conn, Take(c) PROVE EveryStreamIsReachable'
    BY <2>18 DEF Take
  <2>19. ASSUME NEW c \in Conn, Submit(c) PROVE EveryStreamIsReachable'
    BY <2>19 DEF Submit
  <2>20. ASSUME NEW c \in Conn, SyncReturn(c) PROVE EveryStreamIsReachable'
    BY <2>20 DEF SyncReturn
  <2>21. ASSUME NEW c \in Conn, SyncRefused(c) PROVE EveryStreamIsReachable'
    BY <2>21 DEF SyncRefused
  <2>22. ASSUME NEW c \in Conn, FutureReady(c) PROVE EveryStreamIsReachable'
    BY <2>22 DEF FutureReady
  <2>23. ASSUME NEW c \in Conn, FutureTimeout(c) PROVE EveryStreamIsReachable'
    BY <2>23 DEF FutureTimeout
  <2>24. ASSUME NEW c \in Conn, ServeLocal(c) PROVE EveryStreamIsReachable'
    BY <2>24 DEF ServeLocal
  <2>25. ASSUME NEW c \in Conn, NextRequest(c) PROVE EveryStreamIsReachable'
    BY <2>25 DEF NextRequest
  <2>26. ASSUME NEW c \in Conn, KeepAliveEnd(c) PROVE EveryStreamIsReachable'
    BY <2>26 DEF KeepAliveEnd
  <2>27. ASSUME NEW c \in Conn, StreamOpen(c) PROVE EveryStreamIsReachable'
    BY <2>27 DEF StreamOpen
  <2>28. ASSUME NEW c \in Conn, StreamStop(c) PROVE EveryStreamIsReachable'
    BY <2>28 DEF StreamStop
  <2>29. ASSUME NEW c \in Conn, StreamBroken(c) PROVE EveryStreamIsReachable'
    BY <2>29 DEF StreamBroken
  <2>30. ASSUME NEW c \in Conn, StreamRelease(c) PROVE EveryStreamIsReachable'
    BY <2>30 DEF StreamRelease
  <2>31. ASSUME NEW c \in Conn, ExecBegin(c) PROVE EveryStreamIsReachable'
    BY <2>31 DEF ExecBegin
  <2>32. CASE UNCHANGED vars
    BY <2>32
  <2>. QED
    BY <2>1, <2>2, <2>3, <2>4, <2>5, <2>6, <2>7, <2>8, <2>9, <2>10, <2>11,
       <2>12, <2>13, <2>14, <2>15, <2>16, <2>17, <2>18, <2>19, <2>20, <2>21,
       <2>22, <2>23, <2>24, <2>25, <2>26, <2>27, <2>28, <2>29, <2>30, <2>31,
       <2>32
    DEF Next, MainProgress, UserStep, ServerThread, Worker, Environment
<1>d. NoSelfStop'
  <2> USE <1>t, ConnAssumption, FaultsAssumption
      DEF TypeOK, Conn, Inv, MainConsistent, Lifetimes, NoSelfStop, Stopping,
          mainVars, pluginVars, serverVars, syncVars, sseVars, vars
  <2>1. CASE RunStart
    BY <2>1 DEF RunStart, Abort
  <2>2. CASE BindOk
    BY <2>2 DEF BindOk
  <2>3. CASE BindFail
    BY <2>3 DEF BindFail
  <2>4. CASE StartReturn
    BY <2>4 DEF StartReturn, Abort
  <2>5. CASE StopCloseSse
    BY <2>5 DEF StopCloseSse
  <2>6. CASE StopSocket
    BY <2>6 DEF StopSocket, ResetBacklog
  <2>7. CASE StopJoin
    BY <2>7 DEF StopJoin
  <2>8. CASE Unload
    BY <2>8 DEF Unload, Abort
  <2>9. CASE Load
    BY <2>9 DEF Load
  <2>10. CASE ExecEnd
    BY <2>10 DEF ExecEnd
  <2>11. CASE ListenBegin
    BY <2>11 DEF ListenBegin
  <2>12. CASE ListenEnd
    BY <2>12 DEF ListenEnd, ResetBacklog
  <2>13. CASE PoolJoined
    BY <2>13 DEF PoolJoined
  <2>14. CASE ThreadEnd
    BY <2>14 DEF ThreadEnd
  <2>15. ASSUME NEW u \in BOOLEAN, StopBegin(u) PROVE NoSelfStop'
    BY <2>15 DEF StopBegin
  <2>16. ASSUME NEW c \in Conn, Accept(c) PROVE NoSelfStop'
    BY <2>16 DEF Accept
  <2>17. ASSUME NEW c \in Conn, Connect(c) PROVE NoSelfStop'
    BY <2>17 DEF Connect
  <2>18. ASSUME NEW c \in Conn, Take(c) PROVE NoSelfStop'
    BY <2>18 DEF Take
  <2>19. ASSUME NEW c \in Conn, Submit(c) PROVE NoSelfStop'
    BY <2>19 DEF Submit
  <2>20. ASSUME NEW c \in Conn, SyncReturn(c) PROVE NoSelfStop'
    BY <2>20 DEF SyncReturn
  <2>21. ASSUME NEW c \in Conn, SyncRefused(c) PROVE NoSelfStop'
    BY <2>21 DEF SyncRefused
  <2>22. ASSUME NEW c \in Conn, FutureReady(c) PROVE NoSelfStop'
    BY <2>22 DEF FutureReady
  <2>23. ASSUME NEW c \in Conn, FutureTimeout(c) PROVE NoSelfStop'
    BY <2>23 DEF FutureTimeout
  <2>24. ASSUME NEW c \in Conn, ServeLocal(c) PROVE NoSelfStop'
    BY <2>24 DEF ServeLocal
  <2>25. ASSUME NEW c \in Conn, NextRequest(c) PROVE NoSelfStop'
    BY <2>25 DEF NextRequest
  <2>26. ASSUME NEW c \in Conn, KeepAliveEnd(c) PROVE NoSelfStop'
    BY <2>26 DEF KeepAliveEnd
  <2>27. ASSUME NEW c \in Conn, StreamOpen(c) PROVE NoSelfStop'
    BY <2>27 DEF StreamOpen
  <2>28. ASSUME NEW c \in Conn, StreamStop(c) PROVE NoSelfStop'
    BY <2>28 DEF StreamStop
  <2>29. ASSUME NEW c \in Conn, StreamBroken(c) PROVE NoSelfStop'
    BY <2>29 DEF StreamBroken
  <2>30. ASSUME NEW c \in Conn, StreamRelease(c) PROVE NoSelfStop'
    BY <2>30 DEF StreamRelease
  <2>31. ASSUME NEW c \in Conn, ExecBegin(c) PROVE NoSelfStop'
    BY <2>31 DEF ExecBegin
  <2>32. CASE UNCHANGED vars
    BY <2>32
  <2>. QED
    BY <2>1, <2>2, <2>3, <2>4, <2>5, <2>6, <2>7, <2>8, <2>9, <2>10, <2>11,
       <2>12, <2>13, <2>14, <2>15, <2>16, <2>17, <2>18, <2>19, <2>20, <2>21,
       <2>22, <2>23, <2>24, <2>25, <2>26, <2>27, <2>28, <2>29, <2>30, <2>31,
       <2>32
    DEF Next, MainProgress, UserStep, ServerThread, Worker, Environment
<1>. QED
  BY <1>t, <1>a, <1>b, <1>c, <1>d DEF Inv, RequestParts

\* The invariant always holds.
LEMMA InvCorrect == Spec => []Inv
  BY InvInit, InvStep, PTL DEF Spec

-----------------------------------------------------------------------------
(* What the invariant gives                                                 *)

(***************************************************************************)
(* No closure that captures a worker's stack by reference is queued or     *)
(* executed after execute_on_main_thread has returned, for every number of *)
(* callers and also when IDA refuses requests.                             *)
(***************************************************************************)
THEOREM NoDanglingRequestAlways == Spec => []NoDanglingRequest
<1>1. Inv => NoDanglingRequest
  BY DEF Inv
<1>. QED
  BY <1>1, InvCorrect, PTL

(***************************************************************************)
(* The protocol and the HTTP server outlive every worker that refers to    *)
(* them, under every fault of the environment.                             *)
(***************************************************************************)
THEOREM NoUseAfterFreeAlways == Spec => []NoUseAfterFree
<1>1. Inv => NoUseAfterFree
  BY DEF Inv, Lifetimes, NoUseAfterFree
<1>. QED
  BY <1>1, InvCorrect, PTL

(***************************************************************************)
(* A stopped plugin has no worker, session, queued request, thread, socket *)
(* or instance file left.                                                  *)
(***************************************************************************)
THEOREM QuietWhenStoppedAlways == Spec => []QuietWhenStopped
<1>1. Inv => QuietWhenStopped
  <2> SUFFICES ASSUME Inv, main \in {"ui", "gone"}, ~httpServer
               PROVE  /\ sse = {} /\ queue = {} /\ Held \cup Jobs = {}
                      /\ thread = "none" /\ sock = "none"
                      /\ ~running /\ ~published /\ ~protocol
    BY DEF QuietWhenStopped
  <2>1. thread = "none" /\ sock = "none" /\ ~running /\ ~published /\ ~protocol
    BY DEF Inv, Lifetimes, TypeOK
  <2>2. Held \cup Jobs = {}
    BY <2>1 DEF Inv, Lifetimes
  <2>3. \A c \in Conn : conn[c] \in {"idle", "backlog"}
    BY <2>2, NoWork DEF Inv
  <2>4. sse = {}
    BY <2>3 DEF Inv, TypeOK, SessionsHaveWorkers, Conn
  <2>5. queue = {}
    BY <2>3 DEF Inv, TypeOK, NoDanglingRequest, Conn
  <2>. QED
    BY <2>1, <2>2, <2>4, <2>5
<1>. QED
  BY <1>1, InvCorrect, PTL

(***************************************************************************)
(* stop() never loses a stream: each one is in the map it sweeps, or will  *)
(* find running_ cleared.                                                  *)
(***************************************************************************)
THEOREM EveryStreamIsReachableAlways == Spec => []EveryStreamIsReachable
<1>1. Inv => EveryStreamIsReachable
  BY DEF Inv
<1>. QED
  BY <1>1, InvCorrect, PTL

(***************************************************************************)
(* No joinable std::thread is ever destroyed before accept() has failed    *)
(* for good, however slow the server thread is and whatever IDA refuses.   *)
(***************************************************************************)
THEOREM AbortOnlyAfterListenErrorAlways == Spec => []AbortOnlyAfterListenError
<1>1. Inv => AbortOnlyAfterListenError
  BY DEF Inv, NoSelfStop, AbortOnlyAfterListenError, ListenFailed, Stopping
<1>. QED
  BY <1>1, InvCorrect, PTL

(***************************************************************************)
(* An advertised instance accepts connections, or its accept() has failed  *)
(* for good.                                                               *)
(***************************************************************************)
THEOREM AdvertisedIsServedAlways == Spec => []AdvertisedIsServed
<1>1. Inv => AdvertisedIsServed
  BY DEF Inv, TypeOK, Lifetimes, NoSelfStop, AdvertisedIsServed, ListenFailed, Stopping
<1>. QED
  BY <1>1, InvCorrect, PTL

-----------------------------------------------------------------------------
(* Refinement                                                               *)

\* The initial states map to initial states of the request service.
LEMMA RpcInit == Init => Rpc!Init
  BY ConnAssumption DEF Init, Rpc!Init, CallOf, Conn

\* Every step maps to a step of the request service or leaves it alone.
LEMMA RpcStep == Inv /\ [Next]_vars => [Rpc!Next]_(Rpc!vars)
<1> SUFFICES ASSUME Inv, [Next]_vars PROVE [Rpc!Next]_(Rpc!vars)
  OBVIOUS
<1> USE ConnAssumption
    DEF Inv, TypeOK, Conn, NoDanglingRequest, FreshRequests, MainConsistent,
        CallOf, Rpc!vars,
        mainVars, pluginVars, serverVars, syncVars, sseVars, vars
<1>1. CASE RunStart
  BY <1>1 DEF RunStart, Abort
<1>2. CASE BindOk
  BY <1>2 DEF BindOk
<1>3. CASE BindFail
  BY <1>3 DEF BindFail
<1>4. CASE StartReturn
  BY <1>4 DEF StartReturn, Abort
<1>5. CASE StopCloseSse
  BY <1>5 DEF StopCloseSse
<1>6. CASE StopSocket
  BY <1>6 DEF StopSocket, ResetBacklog
<1>7. CASE StopJoin
  BY <1>7 DEF StopJoin
<1>8. CASE Unload
  BY <1>8 DEF Unload, Abort
<1>9. CASE Load
  BY <1>9 DEF Load
<1>10. CASE ExecEnd
  <2>1. PICK c \in Tool : current = c /\ conn[c] = "sync"
    BY <1>10 DEF ExecEnd
  <2>2. PICK o \in {"value", "exception"} : promise' = [promise EXCEPT ![c] = o]
    BY <1>10, <2>1 DEF ExecEnd
  <2>3. CallOf' = [CallOf EXCEPT ![c] = o]
    <3>1. promise'[c] = o /\ \A d \in Tool \ {c} : promise'[d] = promise[d]
      BY <2>2
    <3>2. current' = None /\ conn' = conn /\ c # None /\ o # "unset"
      BY <1>10 DEF ExecEnd
    <3>3. CallOf'[c] = o
      BY <2>1, <3>1, <3>2
    <3>4. \A d \in Tool \ {c} : CallOf'[d] = CallOf[d]
      BY <2>1, <3>1, <3>2
    <3>5. CallOf = [d \in Tool |-> CallOf[d]] /\ CallOf' = [d \in Tool |-> CallOf'[d]]
      OBVIOUS
    <3> HIDE DEF CallOf
    <3>. QED
      BY <3>3, <3>4, <3>5
  <2>e. CallOf[c] = "executing"
    BY <2>1
  <2>4. Rpc!Finish(c)
    BY <1>10, <2>e, <2>3 DEF ExecEnd, Rpc!Finish, Rpc!Outcome
  <2>. QED
    BY <2>1, <2>4 DEF Rpc!Next
<1>11. CASE ListenBegin
  BY <1>11 DEF ListenBegin
<1>12. CASE ListenEnd
  BY <1>12 DEF ListenEnd, ResetBacklog
<1>13. CASE PoolJoined
  BY <1>13 DEF PoolJoined
<1>14. CASE ThreadEnd
  BY <1>14 DEF ThreadEnd
<1>15. ASSUME NEW u \in BOOLEAN, StopBegin(u) PROVE [Rpc!Next]_(Rpc!vars)
  BY <1>15 DEF StopBegin
<1>16. ASSUME NEW c \in Conn, Accept(c) PROVE [Rpc!Next]_(Rpc!vars)
  BY <1>16 DEF Accept
<1>17. ASSUME NEW c \in Conn, Connect(c) PROVE [Rpc!Next]_(Rpc!vars)
  BY <1>17 DEF Connect
<1>18. ASSUME NEW c \in Conn, Take(c) PROVE [Rpc!Next]_(Rpc!vars)
  BY <1>18 DEF Take
<1>19. ASSUME NEW c \in Conn, Submit(c) PROVE [Rpc!Next]_(Rpc!vars)
  <2>1. c \in Tool
    BY <1>19 DEF Submit
  <2>2. CallOf' = [CallOf EXCEPT ![c] = "pending"]
    BY <1>19, <2>1 DEF Submit
  <2>3. Rpc!Submit(c)
    BY <1>19, <2>1, <2>2 DEF Submit, Rpc!Submit
  <2>. QED
    BY <2>1, <2>3 DEF Rpc!Next
<1>20. ASSUME NEW c \in Conn, SyncReturn(c) PROVE [Rpc!Next]_(Rpc!vars)
  BY <1>20 DEF SyncReturn
<1>21. ASSUME NEW c \in Conn, SyncRefused(c) PROVE [Rpc!Next]_(Rpc!vars)
  BY <1>21 DEF SyncRefused
<1>22. ASSUME NEW c \in Conn, FutureReady(c) PROVE [Rpc!Next]_(Rpc!vars)
  <2>1. c \in Tool
    BY <1>22 DEF FutureReady
  <2>2. CallOf' = [CallOf EXCEPT ![c] = "none"]
    BY <1>22, <2>1 DEF FutureReady
  <2>3. Rpc!Deliver(c)
    BY <1>22, <2>1, <2>2 DEF FutureReady, Rpc!Deliver, Rpc!Outcome
  <2>. QED
    BY <2>1, <2>3 DEF Rpc!Next
<1>23. ASSUME NEW c \in Conn, FutureTimeout(c) PROVE [Rpc!Next]_(Rpc!vars)
  <2>1. c \in Tool
    BY <1>23 DEF FutureTimeout
  <2>2. CallOf' = [CallOf EXCEPT ![c] = "none"]
    BY <1>23, <2>1 DEF FutureTimeout
  <2>3. Rpc!GiveUp(c)
    BY <1>23, <2>1, <2>2 DEF FutureTimeout, Rpc!GiveUp
  <2>. QED
    BY <2>1, <2>3 DEF Rpc!Next
<1>24. ASSUME NEW c \in Conn, ServeLocal(c) PROVE [Rpc!Next]_(Rpc!vars)
  BY <1>24 DEF ServeLocal
<1>25. ASSUME NEW c \in Conn, NextRequest(c) PROVE [Rpc!Next]_(Rpc!vars)
  BY <1>25 DEF NextRequest
<1>26. ASSUME NEW c \in Conn, KeepAliveEnd(c) PROVE [Rpc!Next]_(Rpc!vars)
  BY <1>26 DEF KeepAliveEnd
<1>27. ASSUME NEW c \in Conn, StreamOpen(c) PROVE [Rpc!Next]_(Rpc!vars)
  BY <1>27 DEF StreamOpen
<1>28. ASSUME NEW c \in Conn, StreamStop(c) PROVE [Rpc!Next]_(Rpc!vars)
  BY <1>28 DEF StreamStop
<1>29. ASSUME NEW c \in Conn, StreamBroken(c) PROVE [Rpc!Next]_(Rpc!vars)
  BY <1>29 DEF StreamBroken
<1>30. ASSUME NEW c \in Conn, StreamRelease(c) PROVE [Rpc!Next]_(Rpc!vars)
  BY <1>30 DEF StreamRelease
<1>31. ASSUME NEW c \in Conn, ExecBegin(c) PROVE [Rpc!Next]_(Rpc!vars)
  <2>1. c \in Tool /\ current = None
    BY <1>31 DEF ExecBegin
  <2>2. CallOf' = [CallOf EXCEPT ![c] = "executing"]
    BY <1>31, <2>1 DEF ExecBegin
  <2>3. \A d \in Tool : CallOf[d] # "executing"
    BY <2>1
  <2>4. CallOf[c] = "pending"
    BY <1>31, <2>1 DEF ExecBegin
  <2>5. Rpc!Begin(c)
    BY <1>31, <2>2, <2>3, <2>4 DEF ExecBegin, Rpc!Begin
  <2>. QED
    BY <2>1, <2>5 DEF Rpc!Next
<1>32. CASE UNCHANGED vars
  BY <1>32
<1>. QED
  BY <1>1, <1>2, <1>3, <1>4, <1>5, <1>6, <1>7, <1>8, <1>9, <1>10, <1>11,
     <1>12, <1>13, <1>14, <1>15, <1>16, <1>17, <1>18, <1>19, <1>20, <1>21,
     <1>22, <1>23, <1>24, <1>25, <1>26, <1>27, <1>28, <1>29, <1>30, <1>31,
     <1>32
  DEF Next, MainProgress, UserStep, ServerThread, Worker, Environment

(***************************************************************************)
(* execute_on_main_thread as the threads run it implements RpcService:     *)
(* requests run one at a time, at most once, the caller gets its own       *)
(* outcome, and a timed-out request has not run and never will.            *)
(***************************************************************************)
THEOREM RpcImplemented == Spec => ImplementsRpc
  BY RpcInit, RpcStep, InvCorrect, PTL DEF Spec, Rpc!Spec, ImplementsRpc

-----------------------------------------------------------------------------
(* The instance files: what a server writes stays, what a crash leaves goes, as *)
(* far as pids tell the processes apart.                                        *)

\* A pid belongs to one living process, and a process keeps it.
PidInv ==
    /\ \A p \in Process : phase[p] = "unborn" <=> pid[p] = Nothing
    /\ \A p, r \in Living : p # r => pid[p] # pid[r]

\* A file is named after its writer; one about to be removed, and one that was
\* stale when a cleanup began, are named after a dead process.  Only a server
\* has written its file.
WriterInv ==
    /\ \A q \in Pid : entry[q] # Nothing => pid[entry[q].by] = q
    /\ \A p \in Process : phase[p] = "remove" =>
          /\ doomed[p] \in Pid
          /\ \E w \in Process : phase[w] = "dead" /\ pid[w] = doomed[p]
    /\ \A p \in Process : \A e \in stale[p] :
          phase[e[2]] = "dead" /\ pid[e[2]] = e[1]
    /\ \A p \in Process : written[p] => phase[p] = "serving"

\* What the file of a process that has its pid for itself contains, as far as
\* its operations on it have not failed.
OwnEntry(p) ==
    /\ phase[p] \in {"idle", "cleanup", "remove", "bind", "open"} /\ pid[p] \notin kept =>
          entry[pid[p]] = Nothing
    /\ phase[p] = "write" => entry[pid[p]] = [by |-> p, port |-> Nothing]
    /\ phase[p] = "serving" /\ written[p] => entry[pid[p]] = [by |-> p, port |-> port[p]]

EntryInv == \A p \in Living : ~Reused(pid[p]) => OwnEntry(p)

\* A stale file that a cleanup has neither removed nor failed to remove is one it
\* has still to look at.
CleanupInv ==
    \A p \in Process :
        /\ phase[p] \in {"cleanup", "remove", "bind"} =>
              \A e \in stale[p] \cap StaleEntries :
                  \/ Reused(e[1])
                  \/ e[1] \in kept
                  \/ phase[p] # "bind" /\ e[1] \in todo[p]
                  \/ phase[p] = "remove" /\ e[1] = doomed[p]
        /\ phase[p] \notin {"cleanup", "remove", "bind"} => stale[p] = {}

RegistryInv == RegistryTypeOK /\ PidInv /\ WriterInv /\ EntryInv /\ CleanupInv

-----------------------------------------------------------------------------
\* A step keeps everything of its kind.
LEMMA RegistryTypeStep ==
    ASSUME RegistryTypeOK, PidInv, WriterInv, [RegistryNext]_registryVars
    PROVE  RegistryTypeOK'
<1> USE RegistryAssumption DEF RegistryTypeOK, Phase, Port
<1>1. ASSUME NEW p \in Process, RunBegin(p) PROVE RegistryTypeOK'
  BY <1>1 DEF RunBegin, StaleEntries
<1>2. ASSUME NEW p \in Process, CleanupRemove(p) PROVE RegistryTypeOK'
  BY <1>2 DEF CleanupRemove, Remove, WriterInv
<1>3. ASSUME NEW p \in Process, CleanupEnd(p) PROVE RegistryTypeOK'
  BY <1>3 DEF CleanupEnd
<1>4. ASSUME NEW p \in Process, TryPort(p) PROVE RegistryTypeOK'
  BY <1>4 DEF TryPort
<1>5. ASSUME NEW p \in Process, OpenFile(p) PROVE RegistryTypeOK'
  BY <1>5 DEF OpenFile, Entry
<1>6. ASSUME NEW p \in Process, WriteFile(p) PROVE RegistryTypeOK'
  BY <1>6 DEF WriteFile, Entry
<1>7. ASSUME NEW p \in Process, Stop(p) PROVE RegistryTypeOK'
  BY <1>7 DEF Stop
<1>8. ASSUME NEW p \in Process, Unpublish(p) PROVE RegistryTypeOK'
  BY <1>8 DEF Unpublish, Remove, PidInv
<1>9. ASSUME NEW p \in Process, Quit(p) PROVE RegistryTypeOK'
  BY <1>9 DEF Quit, Remove, PidInv
<1>10. ASSUME NEW p \in Process, Crash(p) PROVE RegistryTypeOK'
  BY <1>10 DEF Crash
<1>11. ASSUME NEW p \in Process, NEW q \in Pid, Boot(p, q) PROVE RegistryTypeOK'
  BY <1>11 DEF Boot
<1>12. ASSUME NEW p \in Process, NEW q \in Pid, CleanupCheck(p, q) PROVE RegistryTypeOK'
  BY <1>12 DEF CleanupCheck
<1>13. CASE UNCHANGED registryVars
  BY <1>13 DEF registryVars
<1>14. ASSUME NEW p \in Process, OpenFails(p) PROVE RegistryTypeOK'
  BY <1>14 DEF OpenFails
<1>15. ASSUME NEW p \in Process, WriteFails(p) PROVE RegistryTypeOK'
  BY <1>15 DEF WriteFails
<1> QED
  BY <1>1, <1>2, <1>3, <1>4, <1>5, <1>6, <1>7, <1>8, <1>9, <1>10, <1>11,
     <1>12, <1>13, <1>14, <1>15 DEF RegistryNext

\* A pid that was given out again stays so: processes keep their pids.
LEMMA ReusedStep ==
    ASSUME RegistryTypeOK, PidInv, [RegistryNext]_registryVars
    PROVE  \A q \in Pid : Reused(q) => Reused(q)'
<1>1. \A p \in Process : pid[p] # Nothing => pid'[p] = pid[p]
  <2> USE DEF RegistryTypeOK, PidInv
  <2>1. ASSUME NEW p \in Process, NEW q \in Pid, Boot(p, q)
        PROVE  \A r \in Process : pid[r] # Nothing => pid'[r] = pid[r]
    BY <2>1 DEF Boot
  <2>2. CASE UNCHANGED pid
    BY <2>2
  <2> QED
    BY <2>1, <2>2 DEF RegistryNext, registryVars, RunBegin, CleanupRemove, CleanupEnd, TryPort,
        OpenFile, OpenFails, WriteFile, WriteFails, Stop, Unpublish, Quit, Crash, CleanupCheck
<1> QED BY <1>1, RegistryAssumption DEF Reused

\* Every step keeps the invariant.
LEMMA RegistryInvStep == RegistryInv /\ [RegistryNext]_registryVars => RegistryInv'
<1> SUFFICES ASSUME RegistryInv, [RegistryNext]_registryVars PROVE RegistryInv'
  OBVIOUS
<1>t. RegistryTypeOK'
  BY RegistryTypeStep DEF RegistryInv
<1>r. \A q \in Pid : Reused(q) => Reused(q)'
  BY ReusedStep DEF RegistryInv
<1> USE RegistryAssumption
<1>a. PidInv'
  <2> USE <1>t DEF RegistryInv, RegistryTypeOK, PidInv, Living
  <2>1. ASSUME NEW p \in Process, RunBegin(p) PROVE PidInv'
    BY <2>1 DEF RunBegin
  <2>2. ASSUME NEW p \in Process, CleanupRemove(p) PROVE PidInv'
    BY <2>2 DEF CleanupRemove, Remove
  <2>3. ASSUME NEW p \in Process, CleanupEnd(p) PROVE PidInv'
    BY <2>3 DEF CleanupEnd
  <2>4. ASSUME NEW p \in Process, TryPort(p) PROVE PidInv'
    BY <2>4 DEF TryPort
  <2>5. ASSUME NEW p \in Process, OpenFile(p) PROVE PidInv'
    BY <2>5 DEF OpenFile
  <2>6. ASSUME NEW p \in Process, WriteFile(p) PROVE PidInv'
    BY <2>6 DEF WriteFile
  <2>7. ASSUME NEW p \in Process, Stop(p) PROVE PidInv'
    BY <2>7 DEF Stop
  <2>8. ASSUME NEW p \in Process, Unpublish(p) PROVE PidInv'
    BY <2>8 DEF Unpublish, Remove
  <2>9. ASSUME NEW p \in Process, Quit(p) PROVE PidInv'
    BY <2>9 DEF Quit, Remove
  <2>10. ASSUME NEW p \in Process, Crash(p) PROVE PidInv'
    BY <2>10 DEF Crash
  <2>11. ASSUME NEW p \in Process, NEW q \in Pid, Boot(p, q) PROVE PidInv'
    BY <2>11 DEF Boot
  <2>12. ASSUME NEW p \in Process, NEW q \in Pid, CleanupCheck(p, q) PROVE PidInv'
    BY <2>12 DEF CleanupCheck
  <2>13. CASE UNCHANGED registryVars
    BY <2>13 DEF registryVars
  <2>14. ASSUME NEW p \in Process, OpenFails(p) PROVE PidInv'
    BY <2>14 DEF OpenFails
  <2>15. ASSUME NEW p \in Process, WriteFails(p) PROVE PidInv'
    BY <2>15 DEF WriteFails
  <2> QED
    BY <2>1, <2>2, <2>3, <2>4, <2>5, <2>6, <2>7, <2>8, <2>9, <2>10, <2>11,
       <2>12, <2>13, <2>14, <2>15 DEF RegistryNext
<1>b. WriterInv'
  <2> USE <1>t DEF RegistryInv, RegistryTypeOK, PidInv, WriterInv, Living
  <2>1. ASSUME NEW p \in Process, RunBegin(p) PROVE WriterInv'
    BY <2>1 DEF RunBegin, StaleEntries
  <2>2. ASSUME NEW p \in Process, CleanupRemove(p) PROVE WriterInv'
    BY <2>2 DEF CleanupRemove, Remove
  <2>3. ASSUME NEW p \in Process, CleanupEnd(p) PROVE WriterInv'
    BY <2>3 DEF CleanupEnd
  <2>4. ASSUME NEW p \in Process, TryPort(p) PROVE WriterInv'
    BY <2>4 DEF TryPort
  <2>5. ASSUME NEW p \in Process, OpenFile(p) PROVE WriterInv'
    BY <2>5 DEF OpenFile, Entry
  <2>6. ASSUME NEW p \in Process, WriteFile(p) PROVE WriterInv'
    BY <2>6 DEF WriteFile, Entry
  <2>7. ASSUME NEW p \in Process, Stop(p) PROVE WriterInv'
    BY <2>7 DEF Stop
  <2>8. ASSUME NEW p \in Process, Unpublish(p) PROVE WriterInv'
    BY <2>8 DEF Unpublish, Remove
  <2>9. ASSUME NEW p \in Process, Quit(p) PROVE WriterInv'
    BY <2>9 DEF Quit, Remove
  <2>10. ASSUME NEW p \in Process, Crash(p) PROVE WriterInv'
    BY <2>10 DEF Crash
  <2>11. ASSUME NEW p \in Process, NEW q \in Pid, Boot(p, q) PROVE WriterInv'
    BY <2>11 DEF Boot
  <2>12. ASSUME NEW p \in Process, NEW q \in Pid, CleanupCheck(p, q) PROVE WriterInv'
    BY <2>12 DEF CleanupCheck, is_pid_alive, Entry
  <2>13. CASE UNCHANGED registryVars
    BY <2>13 DEF registryVars
  <2>14. ASSUME NEW p \in Process, OpenFails(p) PROVE WriterInv'
    BY <2>14 DEF OpenFails
  <2>15. ASSUME NEW p \in Process, WriteFails(p) PROVE WriterInv'
    BY <2>15 DEF WriteFails
  <2> QED
    BY <2>1, <2>2, <2>3, <2>4, <2>5, <2>6, <2>7, <2>8, <2>9, <2>10, <2>11,
       <2>12, <2>13, <2>14, <2>15 DEF RegistryNext
<1>c. EntryInv'
  <2> USE <1>t, <1>a, <1>r DEF RegistryInv, RegistryTypeOK, PidInv, WriterInv, EntryInv, OwnEntry, Living
  <2>1. ASSUME NEW p \in Process, RunBegin(p) PROVE EntryInv'
    BY <2>1 DEF RunBegin
  <2>2. ASSUME NEW p \in Process, CleanupRemove(p) PROVE EntryInv'
    BY <2>2 DEF CleanupRemove, Remove, Reused
  <2>3. ASSUME NEW p \in Process, CleanupEnd(p) PROVE EntryInv'
    BY <2>3 DEF CleanupEnd
  <2>4. ASSUME NEW p \in Process, TryPort(p) PROVE EntryInv'
    <3> SUFFICES ASSUME NEW r \in Living', ~Reused(pid[r])' PROVE OwnEntry(r)'
      BY DEF EntryInv
    <3>1. r \in Living /\ pid[r] \in Pid /\ OwnEntry(r)
      BY <2>4 DEF TryPort
    <3> QED BY <2>4, <3>1 DEF TryPort
  <2>5. ASSUME NEW p \in Process, OpenFile(p) PROVE EntryInv'
    BY <2>5 DEF OpenFile, Entry
  <2>6. ASSUME NEW p \in Process, WriteFile(p) PROVE EntryInv'
    BY <2>6 DEF WriteFile, Entry
  <2>7. ASSUME NEW p \in Process, Stop(p) PROVE EntryInv'
    BY <2>7 DEF Stop
  <2>8. ASSUME NEW p \in Process, Unpublish(p) PROVE EntryInv'
    BY <2>8 DEF Unpublish, Remove
  <2>9. ASSUME NEW p \in Process, Quit(p) PROVE EntryInv'
    BY <2>9 DEF Quit, Remove
  <2>10. ASSUME NEW p \in Process, Crash(p) PROVE EntryInv'
    BY <2>10 DEF Crash
  <2>11. ASSUME NEW p \in Process, NEW q \in Pid, Boot(p, q) PROVE EntryInv'
    <3> SUFFICES ASSUME NEW r \in Living', ~Reused(pid[r])' PROVE OwnEntry(r)'
      BY DEF EntryInv
    <3>1. CASE r = p
      <4>1. entry[q] = Nothing
        BY <2>11, <3>1 DEF Boot, Reused, Entry
      <4> QED BY <2>11, <3>1, <4>1 DEF Boot
    <3>2. CASE r # p
      <4>1. r \in Living /\ pid[r] \in Pid /\ OwnEntry(r)
        BY <2>11, <3>2 DEF Boot
      <4> QED BY <2>11, <3>2, <4>1 DEF Boot
    <3> QED BY <3>1, <3>2
  <2>12. ASSUME NEW p \in Process, NEW q \in Pid, CleanupCheck(p, q) PROVE EntryInv'
    BY <2>12 DEF CleanupCheck
  <2>13. CASE UNCHANGED registryVars
    BY <2>13 DEF registryVars
  <2>14. ASSUME NEW p \in Process, OpenFails(p) PROVE EntryInv'
    BY <2>14 DEF OpenFails
  <2>15. ASSUME NEW p \in Process, WriteFails(p) PROVE EntryInv'
    BY <2>15 DEF WriteFails
  <2> QED
    BY <2>1, <2>2, <2>3, <2>4, <2>5, <2>6, <2>7, <2>8, <2>9, <2>10, <2>11,
       <2>12, <2>13, <2>14, <2>15 DEF RegistryNext
<1>d. CleanupInv'
  <2> USE <1>t, <1>a, <1>b, <1>r DEF RegistryInv, RegistryTypeOK, PidInv, WriterInv, CleanupInv, Living, StaleEntries
  <2>1. ASSUME NEW p \in Process, RunBegin(p) PROVE CleanupInv'
    BY <2>1 DEF RunBegin
  <2>2. ASSUME NEW p \in Process, CleanupRemove(p) PROVE CleanupInv'
    BY <2>2 DEF CleanupRemove, Remove
  <2>3. ASSUME NEW p \in Process, CleanupEnd(p) PROVE CleanupInv'
    BY <2>3 DEF CleanupEnd
  <2>4. ASSUME NEW p \in Process, TryPort(p) PROVE CleanupInv'
    BY <2>4 DEF TryPort
  <2>5. ASSUME NEW p \in Process, OpenFile(p) PROVE CleanupInv'
    BY <2>5 DEF OpenFile, Entry
  <2>6. ASSUME NEW p \in Process, WriteFile(p) PROVE CleanupInv'
    BY <2>6 DEF WriteFile, Entry
  <2>7. ASSUME NEW p \in Process, Stop(p) PROVE CleanupInv'
    BY <2>7 DEF Stop
  <2>8. ASSUME NEW p \in Process, Unpublish(p) PROVE CleanupInv'
    BY <2>8 DEF Unpublish, Remove
  <2>9. ASSUME NEW p \in Process, Quit(p) PROVE CleanupInv'
    BY <2>9 DEF Quit, Remove
  <2>10. ASSUME NEW p \in Process, Crash(p) PROVE CleanupInv'
    BY <2>10 DEF Crash
  <2>11. ASSUME NEW p \in Process, NEW q \in Pid, Boot(p, q) PROVE CleanupInv'
    BY <2>11 DEF Boot
  <2>12. ASSUME NEW p \in Process, NEW q \in Pid, CleanupCheck(p, q) PROVE CleanupInv'
    BY <2>12 DEF CleanupCheck, is_pid_alive, Reused
  <2>13. CASE UNCHANGED registryVars
    BY <2>13 DEF registryVars
  <2>14. ASSUME NEW p \in Process, OpenFails(p) PROVE CleanupInv'
    BY <2>14 DEF OpenFails
  <2>15. ASSUME NEW p \in Process, WriteFails(p) PROVE CleanupInv'
    BY <2>15 DEF WriteFails
  <2> QED
    BY <2>1, <2>2, <2>3, <2>4, <2>5, <2>6, <2>7, <2>8, <2>9, <2>10, <2>11,
       <2>12, <2>13, <2>14, <2>15 DEF RegistryNext
<1> QED BY <1>t, <1>a, <1>b, <1>c, <1>d DEF RegistryInv

\* The invariant holds before any process has booted, and so always.
LEMMA RegistryInvInit == RegistryInit => RegistryInv
BY RegistryAssumption
DEF RegistryInit, RegistryInv, RegistryTypeOK, Phase, Port, PidInv, WriterInv, EntryInv, CleanupInv, Living, StaleEntries

\* The invariant always holds.
LEMMA RegistryInvCorrect == RegistrySpec => []RegistryInv
BY RegistryInvInit, RegistryInvStep, PTL DEF RegistrySpec

-----------------------------------------------------------------------------
\* The type invariant: processes hold pids, ports and files of the right kind.
THEOREM RegistryTypeCorrect == RegistrySpec => []RegistryTypeOK
<1>1. RegistryInv => RegistryTypeOK
  BY DEF RegistryInv
<1> QED BY <1>1, RegistryInvCorrect, PTL

\* However many processes clean up, crash and start, and whatever fails for them:
\* the file a server has written names its port as long as it serves, if its pid
\* has not been given out before.
THEOREM ServingIsAdvertisedAlways == RegistrySpec => []ServingIsAdvertised
<1>1. RegistryInv => ServingIsAdvertised
  BY RegistryAssumption DEF RegistryInv, EntryInv, OwnEntry, ServingIsAdvertised, Living
<1> QED BY <1>1, RegistryInvCorrect, PTL

\* A cleanup removes every file that was stale when it opened the directory and
\* that can be removed.
THEOREM CleanupIsThoroughAlways == RegistrySpec => []CleanupIsThorough
<1>1. RegistryInv => CleanupIsThorough
  BY DEF RegistryInv, CleanupInv, CleanupIsThorough
<1> QED BY <1>1, RegistryInvCorrect, PTL

\* A living process that does not serve has no file, unless removing it failed.
THEOREM IdleIsUnadvertisedAlways == RegistrySpec => []IdleIsUnadvertised
<1>1. RegistryInv => IdleIsUnadvertised
  BY DEF RegistryInv, EntryInv, OwnEntry, IdleIsUnadvertised
<1> QED BY <1>1, RegistryInvCorrect, PTL
=============================================================================
