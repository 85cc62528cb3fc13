----------------------- MODULE GatewayAdmission_proofs -----------------------
(***************************************************************************)
(* Proofs about GatewayAdmission, for any sets of requests, /shutdown      *)
(* handlers and watchers and any number of transports.                     *)
(***************************************************************************)
EXTENDS GatewayAdmission, TLAPS

(* A thread inside cancel() has a target; an attach that is being finished  *)
(* has a transport.                                                         *)
Scoped ==
    /\ \A c \in Cancellers : cphase[c] \in {"lock", "invoke", "close"} =>
          ctarget[c] \in Requests
    /\ \A r \in Requests : handler[r] = "attached" => transport[r] # 0

(* The evidence of a cancellation never precedes the event: targets of      *)
(* cancel(), what attach saw, closed transports and aborted reads.          *)
EventFirst ==
    /\ \A c \in Cancellers : cphase[c] \in {"lock", "invoke", "close"} =>
          cancelled[ctarget[c]]
    /\ \A r \in Requests : saw[r] => cancelled[r]
    /\ \A r \in Requests : closed[r] # {} => cancelled[r]
    /\ \A r \in Requests : failure[r] = "closed" => cancelled[r]
    /\ \A r \in Requests : handler[r] \notin {"finishing", "done"} => outcome[r] = "none"
    /\ NoFalseUpstreamError

(* The controller's flags agree with its set of active requests.            *)
ControllerAgrees ==
    /\ activeDrained <=> active = {}
    /\ shutdownStarted <=> ~admissionOpen
    /\ server = "waiting" => shutdownStarted
    /\ waitResult = "drained" => shutdownStarted
    /\ DrainedIsFinal

(* Every step of every thread keeps the types and the scopes.               *)
LEMMA TypeStep ==
  ASSUME TypeOK, Scoped, [Next]_vars
  PROVE  TypeOK' /\ Scoped'
<1>. USE ConstantsAssumption DEF TypeOK, Scoped, HandlerStates, Outcomes,
    Failures, CancelPhases, ServerStates, Cancellers, HandlerGoes,
    CancellerGoes, ServerGoes, controllerVars, admissionVars, handlerVars,
    cancellerVars, serverVars
<1>1. CASE \E r \in Requests : Admit(r)
  <2>1. PICK r \in Requests : Admit(r)
    BY <1>1
  <2>2. active' \in SUBSET Requests
    BY <2>1 DEF Admit
  <2>3. QED
    BY <2>1, <2>2 DEF Admit
<1>2. CASE \E r \in Requests : Reject(r)
  BY <1>2 DEF Reject
<1>3. CASE \E r \in Requests : CheckAdmission(r)
  <2>1. PICK r \in Requests : CheckAdmission(r)
    BY <1>3
  <2>2. CASE cancelled[r]
    BY <2>1, <2>2 DEF CheckAdmission, Checkpoint
  <2>3. CASE ~cancelled[r]
    BY <2>1, <2>3 DEF CheckAdmission, Checkpoint
  <2>4. QED
    BY <2>2, <2>3
<1>4. CASE \E r \in Requests : AnswerLocally(r)
  BY <1>4 DEF AnswerLocally
<1>5. CASE \E r \in Requests : PrepareWithoutListener(r)
  BY <1>5 DEF PrepareWithoutListener
<1>6. CASE \E r \in Requests : AddCancelListener(r)
  BY <1>6 DEF AddCancelListener
<1>7. CASE \E r \in Requests : FinishAddListener(r)
  BY <1>7 DEF FinishAddListener
<1>8. CASE \E r \in Requests : CheckBeforeOpen(r)
  <2>1. PICK r \in Requests : CheckBeforeOpen(r)
    BY <1>8
  <2>2. CASE cancelled[r]
    BY <2>1, <2>2 DEF CheckBeforeOpen, Checkpoint
  <2>3. CASE ~cancelled[r]
    BY <2>1, <2>3 DEF CheckBeforeOpen, Checkpoint
  <2>4. QED
    BY <2>2, <2>3
<1>9. CASE \E r \in Requests : AttachTransport(r)
  BY <1>9 DEF AttachTransport
<1>10. CASE \E r \in Requests : FinishAttach(r)
  BY <1>10 DEF FinishAttach
<1>11. CASE \E r \in Requests : CheckAfterAttach(r)
  <2>1. PICK r \in Requests : CheckAfterAttach(r)
    BY <1>11
  <2>2. CASE cancelled[r]
    BY <2>1, <2>2 DEF CheckAfterAttach, Checkpoint
  <2>3. CASE ~cancelled[r]
    BY <2>1, <2>3 DEF CheckAfterAttach, Checkpoint
  <2>4. QED
    BY <2>2, <2>3
<1>12. CASE \E r \in Requests : OpenFails(r)
  BY <1>12 DEF OpenFails
<1>13. CASE \E r \in Requests : AfterOpenFailure(r)
  BY <1>13 DEF AfterOpenFailure, Checkpoint
<1>14. CASE \E r \in Requests : ReadCompletes(r)
  BY <1>14 DEF ReadCompletes
<1>15. CASE \E r \in Requests : ReadFails(r)
  BY <1>15 DEF ReadFails
<1>16. CASE \E r \in Requests : ReadAborted(r)
  BY <1>16 DEF ReadAborted
<1>17. CASE \E r \in Requests : PollCancellation(r)
  BY <1>17 DEF PollCancellation
<1>18. CASE \E r \in Requests : RetryExchange(r)
  BY <1>18 DEF RetryExchange
<1>19. CASE \E r \in Requests : DispatchFailure(r)
  BY <1>19 DEF DispatchFailure
<1>20. CASE \E r \in Requests : Complete(r)
  BY <1>20 DEF Complete
<1>21. CASE \E s \in Shutdowns : CloseAdmission(s)
  <2>1. PICK s \in Shutdowns : CloseAdmission(s)
    BY <1>21
  <2>2. cpending' \in [Cancellers -> SUBSET Requests]
    BY <2>1 DEF CloseAdmission
  <2>3. QED
    BY <2>1, <2>2 DEF CloseAdmission
<1>22. CASE \E s \in Shutdowns : ShutdownResponds(s)
  BY <1>22 DEF ShutdownResponds
<1>23. CASE \E s \in Shutdowns : ShutdownResponseFails(s)
  BY <1>23 DEF ShutdownResponseFails
<1>24. CASE \E w \in Watchers, r \in Requests : WatcherFires(w, r)
  BY <1>24 DEF WatcherFires
<1>25. CASE \E c \in Cancellers, r \in Requests : CancelEvent(c, r)
  BY <1>25 DEF CancelEvent
<1>26. CASE \E c \in Cancellers : CancelSnapshot(c)
  BY <1>26 DEF CancelSnapshot
<1>27. CASE \E c \in Cancellers : CancelInvoke(c)
  BY <1>27 DEF CancelInvoke
<1>28. CASE \E c \in Cancellers : CancelClose(c)
  BY <1>28 DEF CancelClose
<1>29. CASE \E c \in Cancellers : CancelReturns(c)
  BY <1>29 DEF CancelReturns
<1>30. CASE ServeForeverReturns
  BY <1>30 DEF ServeForeverReturns
<1>31. CASE Interrupt
  BY <1>31 DEF Interrupt
<1>32. CASE ChooseExit
  BY <1>32 DEF ChooseExit
<1>33. CASE WaitSeesDrained
  BY <1>33 DEF WaitSeesDrained
<1>34. CASE WaitTimesOut
  BY <1>34 DEF WaitTimesOut
<1>35. CASE FlushAndExit
  BY <1>35 DEF FlushAndExit
<1>36. CASE UNCHANGED vars
  BY <1>36 DEF vars
<1>37. QED
  BY <1>1, <1>2, <1>3, <1>4, <1>5, <1>6, <1>7, <1>8, <1>9, <1>10, <1>11,
    <1>12, <1>13, <1>14, <1>15, <1>16, <1>17, <1>18, <1>19, <1>20, <1>21,
    <1>22, <1>23, <1>24, <1>25, <1>26, <1>27, <1>28, <1>29, <1>30, <1>31,
    <1>32, <1>33, <1>34, <1>35, <1>36 DEF Next, HandlerStep, CancellerStep,
    ServerStep, Stopped

(* No step produces evidence of a cancellation before the event is set.     *)
LEMMA EventStep ==
  ASSUME TypeOK, Scoped, EventFirst, [Next]_vars
  PROVE  EventFirst'
<1>. USE DEF TypeOK, Scoped, EventFirst, NoFalseUpstreamError, Failures,
    Outcomes, HandlerGoes, CancellerGoes, ServerGoes, controllerVars,
    admissionVars, handlerVars, cancellerVars, serverVars
<1>1. CASE \E r \in Requests : CheckAdmission(r)
  <2>1. PICK r \in Requests : CheckAdmission(r)
    BY <1>1
  <2>2. CASE cancelled[r]
    BY <2>1, <2>2 DEF CheckAdmission, Checkpoint
  <2>3. CASE ~cancelled[r]
    BY <2>1, <2>3 DEF CheckAdmission, Checkpoint
  <2>4. QED
    BY <2>2, <2>3
<1>2. CASE \E r \in Requests : AddCancelListener(r)
  BY <1>2 DEF AddCancelListener
<1>3. CASE \E r \in Requests : FinishAddListener(r)
  BY <1>3 DEF FinishAddListener
<1>4. CASE \E r \in Requests : CheckBeforeOpen(r)
  <2>1. PICK r \in Requests : CheckBeforeOpen(r)
    BY <1>4
  <2>2. CASE cancelled[r]
    BY <2>1, <2>2 DEF CheckBeforeOpen, Checkpoint
  <2>3. CASE ~cancelled[r]
    BY <2>1, <2>3 DEF CheckBeforeOpen, Checkpoint
  <2>4. QED
    BY <2>2, <2>3
<1>5. CASE \E r \in Requests : AttachTransport(r)
  BY <1>5 DEF AttachTransport
<1>6. CASE \E r \in Requests : FinishAttach(r)
  BY <1>6 DEF FinishAttach
<1>7. CASE \E r \in Requests : CheckAfterAttach(r)
  <2>1. PICK r \in Requests : CheckAfterAttach(r)
    BY <1>7
  <2>2. CASE cancelled[r]
    BY <2>1, <2>2 DEF CheckAfterAttach, Checkpoint
  <2>3. CASE ~cancelled[r]
    BY <2>1, <2>3 DEF CheckAfterAttach, Checkpoint
  <2>4. QED
    BY <2>2, <2>3
<1>8. CASE \E r \in Requests : AfterOpenFailure(r)
  BY <1>8 DEF AfterOpenFailure, Checkpoint
<1>9. CASE \E r \in Requests : ReadAborted(r)
  BY <1>9 DEF ReadAborted
<1>10. CASE \E r \in Requests : RetryExchange(r)
  BY <1>10 DEF RetryExchange
<1>11. CASE \E r \in Requests : DispatchFailure(r)
  BY <1>11 DEF DispatchFailure
<1>12. CASE \E c \in Cancellers : CancelSnapshot(c)
  BY <1>12 DEF CancelSnapshot
<1>13. CASE \E c \in Cancellers : CancelInvoke(c)
  BY <1>13 DEF CancelInvoke
<1>14. CASE \E c \in Cancellers : CancelClose(c)
  BY <1>14 DEF CancelClose
<1>15. CASE \E c \in Cancellers : CancelReturns(c)
  BY <1>15 DEF CancelReturns
<1>16. CASE \E r \in Requests : Admit(r) \/ Reject(r) \/
      AnswerLocally(r) \/ PrepareWithoutListener(r) \/ OpenFails(r) \/
      ReadCompletes(r) \/ ReadFails(r) \/ PollCancellation(r) \/ Complete(r)
  BY <1>16 DEF Admit, Reject, AnswerLocally, PrepareWithoutListener,
    OpenFails, ReadCompletes, ReadFails, PollCancellation, Complete
<1>17. CASE \E s \in Shutdowns : CloseAdmission(s) \/
      ShutdownResponds(s) \/ ShutdownResponseFails(s)
  BY <1>17 DEF CloseAdmission, ShutdownResponds, ShutdownResponseFails
<1>18. CASE \E w \in Watchers, r \in Requests : WatcherFires(w, r)
  BY <1>18 DEF WatcherFires
<1>19. CASE \E c \in Cancellers, r \in Requests : CancelEvent(c, r)
  BY <1>19 DEF CancelEvent
<1>20. CASE ServeForeverReturns \/ Interrupt \/ ChooseExit \/
      WaitSeesDrained \/ WaitTimesOut \/ FlushAndExit
  BY <1>20 DEF ServeForeverReturns, Interrupt, ChooseExit, WaitSeesDrained,
    WaitTimesOut, FlushAndExit
<1>21. CASE UNCHANGED vars
  BY <1>21 DEF vars
<1>22. QED
  BY <1>1, <1>2, <1>3, <1>4, <1>5, <1>6, <1>7, <1>8, <1>9, <1>10, <1>11,
    <1>12, <1>13, <1>14, <1>15, <1>16, <1>17, <1>18, <1>19, <1>20, <1>21 DEF
    Next, HandlerStep, CancellerStep, ServerStep, Stopped

(* No step forgets the transport of a cancelled request.                    *)
LEMMA TransportStep ==
  ASSUME TypeOK, Scoped, CancelledTransportCloses, [Next]_vars
  PROVE  CancelledTransportCloses'
<1>. USE DEF TypeOK, Scoped, CancelledTransportCloses, WillClose, HandlerGoes,
    CancellerGoes, ServerGoes, controllerVars, admissionVars, handlerVars,
    cancellerVars, serverVars
<1>1. CASE \E r \in Requests : AddCancelListener(r)
  BY <1>1 DEF AddCancelListener
<1>2. CASE \E r \in Requests : FinishAddListener(r)
  BY <1>2 DEF FinishAddListener
<1>3. CASE \E r \in Requests : AttachTransport(r)
  BY <1>3 DEF AttachTransport
<1>4. CASE \E r \in Requests : FinishAttach(r)
  BY <1>4 DEF FinishAttach
<1>5. CASE \E c \in Cancellers : CancelSnapshot(c)
  BY <1>5 DEF CancelSnapshot
<1>6. CASE \E c \in Cancellers : CancelInvoke(c)
  BY <1>6 DEF CancelInvoke
<1>7. CASE \E c \in Cancellers : CancelClose(c)
  BY <1>7 DEF CancelClose
<1>8. CASE \E r \in Requests : Admit(r) \/ Reject(r) \/
      CheckAdmission(r) \/ AnswerLocally(r) \/ PrepareWithoutListener(r) \/
      CheckBeforeOpen(r) \/ CheckAfterAttach(r) \/ OpenFails(r) \/
      AfterOpenFailure(r) \/ ReadCompletes(r) \/ ReadFails(r) \/
      ReadAborted(r) \/ PollCancellation(r) \/ RetryExchange(r) \/
      DispatchFailure(r) \/ Complete(r)
  BY <1>8 DEF Admit, Reject, CheckAdmission, AnswerLocally,
    PrepareWithoutListener, CheckBeforeOpen, CheckAfterAttach, OpenFails,
    AfterOpenFailure, ReadCompletes, ReadFails, ReadAborted, PollCancellation,
    RetryExchange, DispatchFailure, Complete, Checkpoint
<1>9. CASE \E s \in Shutdowns : CloseAdmission(s) \/ ShutdownResponds(s)
      \/ ShutdownResponseFails(s)
  BY <1>9 DEF CloseAdmission, ShutdownResponds, ShutdownResponseFails
<1>10. CASE \E w \in Watchers, r \in Requests : WatcherFires(w, r)
  BY <1>10 DEF WatcherFires
<1>11. CASE \E c \in Cancellers, r \in Requests : CancelEvent(c, r)
  BY <1>11 DEF CancelEvent
<1>12. CASE \E c \in Cancellers : CancelReturns(c)
  BY <1>12 DEF CancelReturns
<1>13. CASE ServeForeverReturns \/ Interrupt \/ ChooseExit \/
      WaitSeesDrained \/ WaitTimesOut \/ FlushAndExit
  BY <1>13 DEF ServeForeverReturns, Interrupt, ChooseExit, WaitSeesDrained,
    WaitTimesOut, FlushAndExit
<1>14. CASE UNCHANGED vars
  BY <1>14 DEF vars
<1>15. QED
  BY <1>1, <1>2, <1>3, <1>4, <1>5, <1>6, <1>7, <1>8, <1>9, <1>10, <1>11,
    <1>12, <1>13, <1>14 DEF Next, HandlerStep, CancellerStep, ServerStep,
    Stopped

(* No step forgets the listener of a cancelled request.                     *)
LEMMA ListenerStep ==
  ASSUME TypeOK, Scoped, CancelledListenerRuns, [Next]_vars
  PROVE  CancelledListenerRuns'
<1>. USE DEF TypeOK, Scoped, CancelledListenerRuns, WillNotify, HandlerGoes,
    CancellerGoes, ServerGoes, controllerVars, admissionVars, handlerVars,
    cancellerVars, serverVars
<1>1. CASE \E r \in Requests : AddCancelListener(r)
  BY <1>1 DEF AddCancelListener
<1>2. CASE \E r \in Requests : FinishAddListener(r)
  BY <1>2 DEF FinishAddListener
<1>3. CASE \E r \in Requests : AttachTransport(r)
  BY <1>3 DEF AttachTransport
<1>4. CASE \E r \in Requests : FinishAttach(r)
  BY <1>4 DEF FinishAttach
<1>5. CASE \E c \in Cancellers : CancelSnapshot(c)
  BY <1>5 DEF CancelSnapshot
<1>6. CASE \E c \in Cancellers : CancelInvoke(c)
  BY <1>6 DEF CancelInvoke
<1>7. CASE \E c \in Cancellers : CancelClose(c)
  BY <1>7 DEF CancelClose
<1>8. CASE \E r \in Requests : Admit(r) \/ Reject(r) \/
      CheckAdmission(r) \/ AnswerLocally(r) \/ PrepareWithoutListener(r) \/
      CheckBeforeOpen(r) \/ CheckAfterAttach(r) \/ OpenFails(r) \/
      AfterOpenFailure(r) \/ ReadCompletes(r) \/ ReadFails(r) \/
      ReadAborted(r) \/ PollCancellation(r) \/ RetryExchange(r) \/
      DispatchFailure(r) \/ Complete(r)
  BY <1>8 DEF Admit, Reject, CheckAdmission, AnswerLocally,
    PrepareWithoutListener, CheckBeforeOpen, CheckAfterAttach, OpenFails,
    AfterOpenFailure, ReadCompletes, ReadFails, ReadAborted, PollCancellation,
    RetryExchange, DispatchFailure, Complete, Checkpoint
<1>9. CASE \E s \in Shutdowns : CloseAdmission(s) \/ ShutdownResponds(s)
      \/ ShutdownResponseFails(s)
  BY <1>9 DEF CloseAdmission, ShutdownResponds, ShutdownResponseFails
<1>10. CASE \E w \in Watchers, r \in Requests : WatcherFires(w, r)
  BY <1>10 DEF WatcherFires
<1>11. CASE \E c \in Cancellers, r \in Requests : CancelEvent(c, r)
  BY <1>11 DEF CancelEvent
<1>12. CASE \E c \in Cancellers : CancelReturns(c)
  BY <1>12 DEF CancelReturns
<1>13. CASE ServeForeverReturns \/ Interrupt \/ ChooseExit \/
      WaitSeesDrained \/ WaitTimesOut \/ FlushAndExit
  BY <1>13 DEF ServeForeverReturns, Interrupt, ChooseExit, WaitSeesDrained,
    WaitTimesOut, FlushAndExit
<1>14. CASE UNCHANGED vars
  BY <1>14 DEF vars
<1>15. QED
  BY <1>1, <1>2, <1>3, <1>4, <1>5, <1>6, <1>7, <1>8, <1>9, <1>10, <1>11,
    <1>12, <1>13, <1>14 DEF Next, HandlerStep, CancellerStep, ServerStep,
    Stopped

(* The drained event follows the active set, and nothing is admitted once   *)
(* shutdown started.                                                        *)
LEMMA ControllerStep ==
  ASSUME TypeOK, ControllerAgrees, [Next]_vars
  PROVE  ControllerAgrees'
<1>. USE DEF TypeOK, ControllerAgrees, DrainedIsFinal, HandlerGoes,
    CancellerGoes, ServerGoes, controllerVars, admissionVars, handlerVars,
    cancellerVars, serverVars
<1>1. CASE \E r \in Requests : Admit(r)
  BY <1>1 DEF Admit
<1>2. CASE \E r \in Requests : Complete(r)
  BY <1>2 DEF Complete
<1>3. CASE \E s \in Shutdowns : CloseAdmission(s)
  BY <1>3 DEF CloseAdmission
<1>4. CASE ChooseExit
  BY <1>4 DEF ChooseExit
<1>5. CASE WaitSeesDrained
  BY <1>5 DEF WaitSeesDrained
<1>6. CASE \E r \in Requests : Reject(r) \/ CheckAdmission(r) \/
      AnswerLocally(r) \/ PrepareWithoutListener(r) \/ AddCancelListener(r) \/
      FinishAddListener(r) \/ CheckBeforeOpen(r) \/ AttachTransport(r) \/
      FinishAttach(r) \/ CheckAfterAttach(r) \/ OpenFails(r) \/
      AfterOpenFailure(r) \/ ReadCompletes(r) \/ ReadFails(r) \/
      ReadAborted(r) \/ PollCancellation(r) \/ RetryExchange(r) \/
      DispatchFailure(r)
  BY <1>6 DEF Reject, CheckAdmission, AnswerLocally, PrepareWithoutListener,
    AddCancelListener, FinishAddListener, CheckBeforeOpen, AttachTransport,
    FinishAttach, CheckAfterAttach, OpenFails, AfterOpenFailure,
    ReadCompletes, ReadFails, ReadAborted, PollCancellation, RetryExchange,
    DispatchFailure, Checkpoint
<1>7. CASE \E s \in Shutdowns : ShutdownResponds(s) \/
      ShutdownResponseFails(s)
  BY <1>7 DEF ShutdownResponds, ShutdownResponseFails
<1>8. CASE \E w \in Watchers, r \in Requests : WatcherFires(w, r)
  BY <1>8 DEF WatcherFires
<1>9. CASE \E c \in Cancellers, r \in Requests : CancelEvent(c, r)
  BY <1>9 DEF CancelEvent
<1>10. CASE \E c \in Cancellers : CancelSnapshot(c) \/ CancelInvoke(c)
      \/ CancelClose(c) \/ CancelReturns(c)
  BY <1>10 DEF CancelSnapshot, CancelInvoke, CancelClose, CancelReturns
<1>11. CASE ServeForeverReturns \/ Interrupt \/ WaitTimesOut \/
      FlushAndExit
  BY <1>11 DEF ServeForeverReturns, Interrupt, WaitTimesOut, FlushAndExit
<1>12. CASE UNCHANGED vars
  BY <1>12 DEF vars
<1>13. QED
  BY <1>1, <1>2, <1>3, <1>4, <1>5, <1>6, <1>7, <1>8, <1>9, <1>10, <1>11,
    <1>12 DEF Next, HandlerStep, CancellerStep, ServerStep, Stopped

(* Shutdown loses no active request between its snapshot and cancel().      *)
LEMMA SnapshotStep ==
  ASSUME TypeOK, ControllerAgrees, ShutdownReachesActive, [Next]_vars
  PROVE  ShutdownReachesActive'
<1>. USE DEF TypeOK, ControllerAgrees, ShutdownReachesActive, Cancellers,
    HandlerGoes, CancellerGoes, ServerGoes, controllerVars, admissionVars,
    handlerVars, cancellerVars, serverVars
<1>1. CASE \E r \in Requests : Admit(r)
  BY <1>1 DEF Admit
<1>2. CASE \E r \in Requests : Complete(r)
  BY <1>2 DEF Complete
<1>3. CASE \E s \in Shutdowns : CloseAdmission(s)
  BY <1>3 DEF CloseAdmission
<1>4. CASE \E r \in Requests : Reject(r) \/ CheckAdmission(r) \/
      AnswerLocally(r) \/ PrepareWithoutListener(r) \/ AddCancelListener(r) \/
      FinishAddListener(r) \/ CheckBeforeOpen(r) \/ AttachTransport(r) \/
      FinishAttach(r) \/ CheckAfterAttach(r) \/ OpenFails(r) \/
      AfterOpenFailure(r) \/ ReadCompletes(r) \/ ReadFails(r) \/
      ReadAborted(r) \/ PollCancellation(r) \/ RetryExchange(r) \/
      DispatchFailure(r)
  <2>1. UNCHANGED <<shutdownStarted, active, cancelled, cpending>>
    BY <1>4 DEF Reject, CheckAdmission, AnswerLocally,
      PrepareWithoutListener, AddCancelListener, FinishAddListener,
      CheckBeforeOpen, AttachTransport, FinishAttach, CheckAfterAttach,
      OpenFails, AfterOpenFailure, ReadCompletes, ReadFails, ReadAborted,
      PollCancellation, RetryExchange, DispatchFailure, Checkpoint
  <2>2. QED
    BY <2>1
<1>5. CASE \E s \in Shutdowns : ShutdownResponds(s) \/
      ShutdownResponseFails(s)
  BY <1>5 DEF ShutdownResponds, ShutdownResponseFails
<1>6. CASE \E w \in Watchers, r \in Requests : WatcherFires(w, r)
  BY <1>6, ConstantsAssumption DEF WatcherFires
<1>7. CASE \E c \in Cancellers, r \in Requests : CancelEvent(c, r)
  BY <1>7 DEF CancelEvent
<1>8. CASE \E c \in Cancellers : CancelSnapshot(c) \/ CancelInvoke(c) \/
      CancelClose(c) \/ CancelReturns(c)
  BY <1>8 DEF CancelSnapshot, CancelInvoke, CancelClose, CancelReturns
<1>9. CASE ServeForeverReturns \/ Interrupt \/ ChooseExit \/
      WaitSeesDrained \/ WaitTimesOut \/ FlushAndExit
  BY <1>9 DEF ServeForeverReturns, Interrupt, ChooseExit, WaitSeesDrained,
    WaitTimesOut, FlushAndExit
<1>10. CASE UNCHANGED vars
  BY <1>10 DEF vars
<1>11. QED
  BY <1>1, <1>2, <1>3, <1>4, <1>5, <1>6, <1>7, <1>8, <1>9, <1>10 DEF Next,
    HandlerStep, CancellerStep, ServerStep, Stopped

(* The inductive invariant: its last conjuncts are what the other parts are for. *)
IInv ==
    /\ TypeOK
    /\ Scoped
    /\ EventFirst
    /\ ControllerAgrees
    /\ CancelledTransportCloses
    /\ CancelledListenerRuns
    /\ ShutdownReachesActive

(* The invariant holds when the Gateway starts.                             *)
LEMMA Initially == Init => IInv
<1>. SUFFICES ASSUME Init PROVE IInv
  OBVIOUS
<1>. 0 \in 0..MaxTransports
  BY ConstantsAssumption
<1>1. TypeOK
  BY DEF Init, TypeOK, HandlerStates, Outcomes, Failures, CancelPhases, ServerStates
<1>2. Scoped /\ EventFirst /\ ControllerAgrees
  BY DEF Init, Scoped, EventFirst, NoFalseUpstreamError, ControllerAgrees, DrainedIsFinal
<1>3. CancelledTransportCloses /\ CancelledListenerRuns /\ ShutdownReachesActive
  BY DEF Init, CancelledTransportCloses, CancelledListenerRuns, ShutdownReachesActive
<1>4. QED
  BY <1>1, <1>2, <1>3 DEF IInv

(* Every step of every thread preserves it.                                 *)
LEMMA Inductive == IInv /\ [Next]_vars => IInv'
  BY TypeStep, EventStep, ControllerStep, TransportStep, ListenerStep, SnapshotStep
     DEF IInv

(* The invariant holds of every behaviour; the theorems below name its parts. *)
THEOREM Invariant == Spec => []IInv
  BY Initially, Inductive, PTL DEF Spec

(* Variables of the admission controller, its requests and the threads that *)
(* cancel them keep their types.                                            *)
THEOREM TypeCorrect == Spec => []TypeOK
<1>1. IInv => TypeOK
  BY DEF IInv
<1>2. QED
  BY Invariant, <1>1, PTL

(* gateway_admission.py: whatever the interleaving of cancel() (two or more *)
(* at once included), attach_upstream_transport and add_cancel_listener,    *)
(* the transport a cancelled request last attached is closed and its        *)
(* listener invoked, or about to be.                                        *)
THEOREM CancellationIsComplete == Spec => []CancellationReaches
<1>1. IInv => CancellationReaches
  BY DEF IInv, CancellationReaches
<1>2. QED
  BY Invariant, <1>1, PTL

(* close_admission reaches every request that was admitted.                 *)
THEOREM NoActiveRequestMissed == Spec => []ShutdownReachesActive
<1>1. IInv => ShutdownReachesActive
  BY DEF IInv
<1>2. QED
  BY Invariant, <1>1, PTL

(* When wait_for_active_requests returns True no request is active, then or *)
(* until the process exits.                                                 *)
THEOREM DrainedStaysDrained == Spec => []DrainedIsFinal
<1>1. IInv => DrainedIsFinal
  BY DEF IInv, ControllerAgrees
<1>2. QED
  BY Invariant, <1>1, PTL

(* A read the Gateway itself aborted is never reported as an upstream error. *)
THEOREM ShutdownNotBlamedOnUpstream == Spec => []NoFalseUpstreamError
<1>1. IInv => NoFalseUpstreamError
  BY DEF IInv, EventFirst
<1>2. QED
  BY Invariant, <1>1, PTL
=============================================================================
