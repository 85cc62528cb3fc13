--------------------------- MODULE GatewayAdmission ---------------------------
(***************************************************************************)
(* Request admission and user-requested shutdown of the CodexHub Gateway   *)
(* (src-python/gateway_admission.py), with the code that drives it:        *)
(*                                                                         *)
(*  - handler threads, one per inbound POST, that admit themselves, open   *)
(*    an upstream response, attach it as the transport shutdown may        *)
(*    cancel, read it, and complete;                                       *)
(*  - canceller threads: POST /shutdown handlers (close_admission) and the *)
(*    downstream-disconnect watchers of ChatGPT-web relays (cancel);       *)
(*  - the main thread of run_server, which waits for active requests for   *)
(*    at most the shutdown budget and then exits the process.              *)
(*                                                                         *)
(* One action is one atomic section of the code: a critical section under  *)
(* a lock, one Event operation, or one call on the transport.  Transports  *)
(* of a request are numbered in the order they are attached; 0 is None.    *)
(* A local variable goes back to its initial value when its scope ends.    *)
(***************************************************************************)
EXTENDS Naturals, FiniteSets

CONSTANTS
    Requests,       \* admissions, one per handler thread
    WebRequests,    \* the ones routed to the ChatGPT-web runtime
    Shutdowns,      \* POST /shutdown handler threads
    Watchers,       \* downstream-disconnect watcher threads
    MaxTransports,  \* bound on the transports one request attaches
    NoRequest       \* the target of a thread that is not inside cancel()

ASSUME ConstantsAssumption ==
    /\ MaxTransports \in Nat
    /\ WebRequests \subseteq Requests
    /\ Shutdowns \cap Watchers = {}
    /\ NoRequest \notin Requests

Cancellers == Shutdowns \cup Watchers

VARIABLES
    admissionOpen, shutdownStarted, active, activeDrained,  \* the controller
    cancelled, transport, closed, listener, notified,       \* the admissions
    handler, saw, failure, outcome,                         \* handler threads
    cphase, ctarget, cpending, ctransport, clistener,       \* cancellers
    serverShutdown, server, waitResult                      \* run_server

controllerVars == <<admissionOpen, shutdownStarted, active, activeDrained>>
admissionVars  == <<cancelled, transport, closed, listener, notified>>
handlerVars    == <<handler, saw, failure, outcome>>
cancellerVars  == <<cphase, ctarget, cpending, ctransport, clistener>>
serverVars     == <<serverShutdown, server, waitResult>>
vars == <<controllerVars, admissionVars, handlerVars, cancellerVars, serverVars>>

HandlerStates ==
    {"idle", "admitted", "preparing", "listening", "opening", "connecting",
     "attached", "attachChecked", "openFailed", "reading", "failed",
     "finishing", "done"}
Outcomes == {"none", "completed", "upstream_error", "user_requested_shutdown"}
Failures == {"none", "upstream", "closed"}
CancelPhases == {"idle", "iterate", "lock", "invoke", "close", "respond", "done"}
ServerStates == {"serving", "closing", "waiting", "flushing", "stopped"}

TypeOK ==
    /\ admissionOpen \in BOOLEAN
    /\ shutdownStarted \in BOOLEAN
    /\ active \in SUBSET Requests
    /\ activeDrained \in BOOLEAN
    /\ cancelled \in [Requests -> BOOLEAN]
    /\ transport \in [Requests -> 0..MaxTransports]
    /\ closed \in [Requests -> SUBSET (1..MaxTransports)]
    /\ listener \in [Requests -> BOOLEAN]
    /\ notified \in [Requests -> BOOLEAN]
    /\ handler \in [Requests -> HandlerStates]
    /\ saw \in [Requests -> BOOLEAN]
    /\ failure \in [Requests -> Failures]
    /\ outcome \in [Requests -> Outcomes]
    /\ cphase \in [Cancellers -> CancelPhases]
    /\ ctarget \in [Cancellers -> Requests \cup {NoRequest}]
    /\ cpending \in [Cancellers -> SUBSET Requests]
    /\ ctransport \in [Cancellers -> 0..MaxTransports]
    /\ clistener \in [Cancellers -> BOOLEAN]
    /\ serverShutdown \in BOOLEAN
    /\ server \in ServerStates
    /\ waitResult \in {"none", "drained", "timeout"}

Init ==
    /\ admissionOpen = TRUE
    /\ shutdownStarted = FALSE
    /\ active = {}
    /\ activeDrained = TRUE
    /\ cancelled = [r \in Requests |-> FALSE]
    /\ transport = [r \in Requests |-> 0]
    /\ closed = [r \in Requests |-> {}]
    /\ listener = [r \in Requests |-> FALSE]
    /\ notified = [r \in Requests |-> FALSE]
    /\ handler = [r \in Requests |-> "idle"]
    /\ saw = [r \in Requests |-> FALSE]
    /\ failure = [r \in Requests |-> "none"]
    /\ outcome = [r \in Requests |-> "none"]
    /\ cphase = [c \in Cancellers |-> "idle"]
    /\ ctarget = [c \in Cancellers |-> NoRequest]
    /\ cpending = [c \in Cancellers |-> {}]
    /\ ctransport = [c \in Cancellers |-> 0]
    /\ clistener = [c \in Cancellers |-> FALSE]
    /\ serverShutdown = FALSE
    /\ server = "serving"
    /\ waitResult = "none"

(* The interpreter exits when run_server returns; handler, /shutdown and    *)
(* watcher threads are daemons and stop with it.                            *)
Alive == server # "stopped"

HandlerGoes(r, from, to) ==
    /\ Alive
    /\ handler[r] = from
    /\ handler' = [handler EXCEPT ![r] = to]

(***************************************************************************)
(* Handler threads                                                         *)
(***************************************************************************)

(* GatewayShutdownController.admit while admission is open.                 *)
AdmitWithoutClearing(r) ==
    /\ admissionOpen
    /\ HandlerGoes(r, "idle", "admitted")
    /\ active' = active \cup {r}
    /\ UNCHANGED <<activeDrained, admissionOpen, shutdownStarted>>
    /\ UNCHANGED <<saw, failure, outcome, admissionVars, cancellerVars, serverVars>>

Admit(r) ==
    /\ admissionOpen
    /\ HandlerGoes(r, "idle", "admitted")
    /\ active' = active \cup {r}
    /\ activeDrained' = FALSE
    /\ UNCHANGED <<admissionOpen, shutdownStarted, saw, failure, outcome>>
    /\ UNCHANGED <<admissionVars, cancellerVars, serverVars>>

(* admit returned None: the body is drained and 503 is answered.            *)
Reject(r) ==
    /\ ~admissionOpen
    /\ HandlerGoes(r, "idle", "done")
    /\ outcome' = [outcome EXCEPT ![r] = "user_requested_shutdown"]
    /\ UNCHANGED <<saw, failure, controllerVars, admissionVars, cancellerVars, serverVars>>

(* raise_if_cancelled at a checkpoint: continue, or leave through the       *)
(* GatewayUserRequestedShutdown branch of the handler.                      *)
Checkpoint(r, from, to) ==
    \/ /\ ~cancelled[r]
       /\ HandlerGoes(r, from, to)
       /\ UNCHANGED outcome
    \/ /\ cancelled[r]
       /\ HandlerGoes(r, from, "finishing")
       /\ outcome' = [outcome EXCEPT ![r] = "user_requested_shutdown"]

CheckAdmission(r) ==
    /\ Checkpoint(r, "admitted", "preparing")
    /\ UNCHANGED <<saw, failure, controllerVars, admissionVars, cancellerVars, serverVars>>

(* The request is answered locally: bad length, oversized body, replay.     *)
AnswerLocally(r) ==
    /\ HandlerGoes(r, "preparing", "finishing")
    /\ outcome' = [outcome EXCEPT ![r] = "completed"]
    /\ UNCHANGED <<saw, failure, controllerVars, admissionVars, cancellerVars, serverVars>>

PrepareWithoutListener(r) ==
    /\ HandlerGoes(r, "preparing", "opening")
    /\ UNCHANGED <<saw, failure, outcome>>
    /\ UNCHANGED <<controllerVars, admissionVars, cancellerVars, serverVars>>

(* add_cancel_listener: append and read the event under the lock ...        *)
AddCancelListener(r) ==
    /\ r \in WebRequests
    /\ HandlerGoes(r, "preparing", "listening")
    /\ listener' = [listener EXCEPT ![r] = TRUE]
    /\ saw' = [saw EXCEPT ![r] = cancelled[r]]
    /\ UNCHANGED <<failure, outcome, cancelled, transport, closed, notified>>
    /\ UNCHANGED <<controllerVars, cancellerVars, serverVars>>

(* ... and invoke the listener after the lock when already cancelled.       *)
FinishAddListener(r) ==
    /\ HandlerGoes(r, "listening", "opening")
    /\ notified' = [notified EXCEPT ![r] = @ \/ saw[r]]
    /\ saw' = [saw EXCEPT ![r] = FALSE]
    /\ UNCHANGED <<failure, outcome, cancelled, transport, closed, listener>>
    /\ UNCHANGED <<controllerVars, cancellerVars, serverVars>>

(* Top of the retry loop of _open_upstream_response.                        *)
CheckBeforeOpen(r) ==
    /\ Checkpoint(r, "opening", "connecting")
    /\ UNCHANGED <<saw, failure, controllerVars, admissionVars, cancellerVars, serverVars>>

(* attach_upstream_transport: store the transport and read the event under  *)
(* the lock.  Taken for a newly opened response and again when the SSE      *)
(* reader that owns the response replaces it.                               *)
AttachTransport(r) ==
    /\ Alive
    /\ handler[r] \in {"connecting", "reading"}
    /\ transport[r] < MaxTransports
    /\ handler' = [handler EXCEPT ![r] = "attached"]
    /\ transport' = [transport EXCEPT ![r] = @ + 1]
    /\ saw' = [saw EXCEPT ![r] = cancelled[r]]
    /\ UNCHANGED <<failure, outcome, cancelled, closed, listener, notified>>
    /\ UNCHANGED <<controllerVars, cancellerVars, serverVars>>

(* ... and close it after the lock when the request is already cancelled.   *)
AttachWithoutClose(r) ==
    /\ HandlerGoes(r, "attached", "attachChecked")
    /\ UNCHANGED <<saw, failure, outcome>>
    /\ UNCHANGED <<controllerVars, admissionVars, cancellerVars, serverVars>>

FinishAttach(r) ==
    /\ HandlerGoes(r, "attached", "attachChecked")
    /\ closed' = [closed EXCEPT ![r] = IF saw[r] THEN @ \cup {transport[r]} ELSE @]
    /\ saw' = [saw EXCEPT ![r] = FALSE]
    /\ UNCHANGED <<failure, outcome, cancelled, transport, listener, notified>>
    /\ UNCHANGED <<controllerVars, cancellerVars, serverVars>>

CheckAfterAttach(r) ==
    /\ Checkpoint(r, "attachChecked", "reading")
    /\ UNCHANGED <<saw, failure, controllerVars, admissionVars, cancellerVars, serverVars>>

(* The opener raised; or the pre-response budget was exhausted, before the  *)
(* attempt or on its success (the response is closed before it is           *)
(* attached), which leaves the retry loop without a look at the event.      *)
OpenFails(r) ==
    /\ \/ HandlerGoes(r, "connecting", "openFailed") /\ UNCHANGED failure
       \/ /\ HandlerGoes(r, "connecting", "failed")
          /\ failure' = [failure EXCEPT ![r] = "upstream"]
    /\ UNCHANGED <<saw, outcome>>
    /\ UNCHANGED <<controllerVars, admissionVars, cancellerVars, serverVars>>

(* The except clause: cancellation first, then a retry or the failure.  The *)
(* retry delay is a wait on the cancellation event, so it never outlasts    *)
(* it; the next checkpoint is CheckBeforeOpen.                              *)
AfterOpenFailure(r) ==
    /\ \/ Checkpoint(r, "openFailed", "opening") /\ UNCHANGED failure
       \/ /\ ~cancelled[r]
          /\ HandlerGoes(r, "openFailed", "failed")
          /\ failure' = [failure EXCEPT ![r] = "upstream"]
          /\ UNCHANGED outcome
    /\ UNCHANGED <<saw, controllerVars, admissionVars, cancellerVars, serverVars>>

ReadCompletes(r) ==
    /\ HandlerGoes(r, "reading", "finishing")
    /\ outcome' = [outcome EXCEPT ![r] = "completed"]
    /\ UNCHANGED <<saw, failure, controllerVars, admissionVars, cancellerVars, serverVars>>

ReadFails(r) ==
    /\ HandlerGoes(r, "reading", "failed")
    /\ failure' = [failure EXCEPT ![r] = "upstream"]
    /\ UNCHANGED <<saw, outcome, controllerVars, admissionVars, cancellerVars, serverVars>>

(* The read in progress raises because another thread closed the transport. *)
ReadAborted(r) ==
    /\ HandlerGoes(r, "reading", "failed")
    /\ transport[r] \in closed[r]
    /\ failure' = [failure EXCEPT ![r] = "closed"]
    /\ UNCHANGED <<saw, outcome, controllerVars, admissionVars, cancellerVars, serverVars>>

(* The read loops look at the event between two lines.                      *)
PollCancellation(r) ==
    /\ cancelled[r]
    /\ HandlerGoes(r, "reading", "finishing")
    /\ outcome' = [outcome EXCEPT ![r] = "user_requested_shutdown"]
    /\ UNCHANGED <<saw, failure, controllerVars, admissionVars, cancellerVars, serverVars>>

(* A relay failure that execute_exchange retries: back to the open loop.    *)
RetryExchange(r) ==
    /\ transport[r] < MaxTransports
    /\ HandlerGoes(r, "failed", "opening")
    /\ failure' = [failure EXCEPT ![r] = "none"]
    /\ UNCHANGED <<saw, outcome, controllerVars, admissionVars, cancellerVars, serverVars>>

(* dispatch_proxy_post_exception: a cancelled admission turns every failure *)
(* into the shutdown answer, otherwise the upstream error is reported.      *)
DispatchFailure(r) ==
    /\ HandlerGoes(r, "failed", "finishing")
    /\ outcome' = [outcome EXCEPT ![r] =
          IF cancelled[r] THEN "user_requested_shutdown" ELSE "upstream_error"]
    /\ UNCHANGED <<saw, failure, controllerVars, admissionVars, cancellerVars, serverVars>>

(* GatewayShutdownController.complete, in the handler's finally.            *)
Complete(r) ==
    /\ HandlerGoes(r, "finishing", "done")
    /\ active' = active \ {r}
    /\ activeDrained' = (active' = {} \/ activeDrained)
    /\ UNCHANGED <<admissionOpen, shutdownStarted, saw, failure, outcome>>
    /\ UNCHANGED <<admissionVars, cancellerVars, serverVars>>

(***************************************************************************)
(* Canceller threads                                                       *)
(***************************************************************************)

CancellerGoes(c, from, to) ==
    /\ Alive
    /\ cphase[c] = from
    /\ cphase' = [cphase EXCEPT ![c] = to]

(* The critical section of close_admission: refuse new requests and take    *)
(* the snapshot of the active ones.                                         *)
CloseKeepingAdmissionOpen(s) ==
    /\ CancellerGoes(s, "idle", "iterate")
    /\ shutdownStarted' = TRUE
    /\ cpending' = [cpending EXCEPT ![s] = active]
    /\ UNCHANGED <<admissionOpen, active, activeDrained, ctarget, ctransport, clistener>>
    /\ UNCHANGED <<admissionVars, handlerVars, serverVars>>

CloseAdmission(s) ==
    /\ CancellerGoes(s, "idle", "iterate")
    /\ admissionOpen' = FALSE
    /\ shutdownStarted' = TRUE
    /\ cpending' = [cpending EXCEPT ![s] = active]
    /\ UNCHANGED <<active, activeDrained, ctarget, ctransport, clistener>>
    /\ UNCHANGED <<admissionVars, handlerVars, serverVars>>

(* The relay, and with it the watcher, starts after the first open returned.*)
RelayStarted(r) ==
    /\ transport[r] # 0
    /\ ~(transport[r] = 1 /\ handler[r] \in {"attached", "attachChecked"})

(* A ChatGPT-web relay's watcher sees its client gone and calls cancel(),   *)
(* possibly after the relay has already ended and set the stop event.       *)
WatcherFires(w, r) ==
    /\ CancellerGoes(w, "idle", "iterate")
    /\ r \in WebRequests
    /\ RelayStarted(r)
    /\ cpending' = [cpending EXCEPT ![w] = {r}]
    /\ UNCHANGED <<ctarget, ctransport, clistener>>
    /\ UNCHANGED <<controllerVars, admissionVars, handlerVars, serverVars>>

(* cancel(): set the event ...                                              *)
CancelWithoutEvent(c, r) ==
    /\ r \in cpending[c]
    /\ CancellerGoes(c, "iterate", "lock")
    /\ cpending' = [cpending EXCEPT ![c] = @ \ {r}]
    /\ ctarget' = [ctarget EXCEPT ![c] = r]
    /\ UNCHANGED <<ctransport, clistener, admissionVars>>
    /\ UNCHANGED <<controllerVars, handlerVars, serverVars>>

CancelEvent(c, r) ==
    /\ r \in cpending[c]
    /\ CancellerGoes(c, "iterate", "lock")
    /\ cpending' = [cpending EXCEPT ![c] = @ \ {r}]
    /\ ctarget' = [ctarget EXCEPT ![c] = r]
    /\ cancelled' = [cancelled EXCEPT ![r] = TRUE]
    /\ UNCHANGED <<ctransport, clistener, transport, closed, listener, notified>>
    /\ UNCHANGED <<controllerVars, handlerVars, serverVars>>

(* ... then copy the transport and the listeners under the lock ...         *)
CancelSnapshot(c) ==
    /\ CancellerGoes(c, "lock", "invoke")
    /\ ctransport' = [ctransport EXCEPT ![c] = transport[ctarget[c]]]
    /\ clistener' = [clistener EXCEPT ![c] = listener[ctarget[c]]]
    /\ UNCHANGED <<ctarget, cpending>>
    /\ UNCHANGED <<controllerVars, admissionVars, handlerVars, serverVars>>

(* ... invoke the listeners ...                                             *)
CancelInvoke(c) ==
    /\ CancellerGoes(c, "invoke", "close")
    /\ notified' = [notified EXCEPT ![ctarget[c]] = @ \/ clistener[c]]
    /\ UNCHANGED <<ctarget, cpending, ctransport, clistener>>
    /\ UNCHANGED <<cancelled, transport, closed, listener>>
    /\ UNCHANGED <<controllerVars, handlerVars, serverVars>>

(* ... and close the transport.                                             *)
CancelWithoutClose(c) ==
    /\ CancellerGoes(c, "close", "iterate")
    /\ ctarget' = [ctarget EXCEPT ![c] = NoRequest]
    /\ ctransport' = [ctransport EXCEPT ![c] = 0]
    /\ clistener' = [clistener EXCEPT ![c] = FALSE]
    /\ UNCHANGED <<cpending, admissionVars, controllerVars, handlerVars, serverVars>>

CancelClose(c) ==
    /\ CancellerGoes(c, "close", "iterate")
    /\ closed' = [closed EXCEPT ![ctarget[c]] =
          IF ctransport[c] # 0 THEN @ \cup {ctransport[c]} ELSE @]
    /\ ctarget' = [ctarget EXCEPT ![c] = NoRequest]
    /\ ctransport' = [ctransport EXCEPT ![c] = 0]
    /\ clistener' = [clistener EXCEPT ![c] = FALSE]
    /\ UNCHANGED cpending
    /\ UNCHANGED <<cancelled, transport, listener, notified>>
    /\ UNCHANGED <<controllerVars, handlerVars, serverVars>>

(* Back in close_admission, which also revokes the tool permissions of the  *)
(* ChatGPT-web runtime (not modelled), or in the watcher.                   *)
CancelReturns(c) ==
    /\ cpending[c] = {}
    /\ CancellerGoes(c, "iterate", IF c \in Shutdowns THEN "respond" ELSE "done")
    /\ UNCHANGED <<ctarget, cpending, ctransport, clistener>>
    /\ UNCHANGED <<controllerVars, admissionVars, handlerVars, serverVars>>

(* The /shutdown handler answers 200 and starts the server.shutdown thread. *)
ShutdownResponds(s) ==
    /\ CancellerGoes(s, "respond", "done")
    /\ serverShutdown' = TRUE
    /\ UNCHANGED <<ctarget, cpending, ctransport, clistener, server, waitResult>>
    /\ UNCHANGED <<controllerVars, admissionVars, handlerVars>>

(* Writing the answer raises: the handler ends before it starts the thread. *)
ShutdownResponseFails(s) ==
    /\ CancellerGoes(s, "respond", "done")
    /\ UNCHANGED <<ctarget, cpending, ctransport, clistener>>
    /\ UNCHANGED <<controllerVars, admissionVars, handlerVars, serverVars>>

(***************************************************************************)
(* The main thread: run_server                                             *)
(***************************************************************************)

ServerGoes(from, to) ==
    /\ server = from
    /\ server' = to
    /\ UNCHANGED <<serverShutdown, controllerVars, admissionVars>>
    /\ UNCHANGED <<handlerVars, cancellerVars>>

ServeForeverReturns ==
    serverShutdown /\ ServerGoes("serving", "closing") /\ UNCHANGED waitResult

Interrupt == ServerGoes("serving", "closing") /\ UNCHANGED waitResult

ChooseExit ==
    /\ ServerGoes("closing", IF shutdownStarted THEN "waiting" ELSE "flushing")
    /\ UNCHANGED waitResult

WaitSeesDrained ==
    activeDrained /\ ServerGoes("waiting", "flushing") /\ waitResult' = "drained"

WaitTimesOut ==
    ServerGoes("waiting", "flushing") /\ waitResult' = "timeout"

FlushAndExit == ServerGoes("flushing", "stopped") /\ UNCHANGED waitResult

Stopped == server = "stopped" /\ UNCHANGED vars

-----------------------------------------------------------------------------

HandlerStep(r) ==
    \/ Admit(r) \/ Reject(r) \/ CheckAdmission(r) \/ AnswerLocally(r)
    \/ PrepareWithoutListener(r) \/ AddCancelListener(r) \/ FinishAddListener(r)
    \/ CheckBeforeOpen(r) \/ AttachTransport(r) \/ FinishAttach(r)
    \/ CheckAfterAttach(r) \/ OpenFails(r) \/ AfterOpenFailure(r)
    \/ ReadCompletes(r) \/ ReadFails(r) \/ ReadAborted(r) \/ PollCancellation(r)
    \/ RetryExchange(r) \/ DispatchFailure(r) \/ Complete(r)

CancellerStep(c) ==
    \/ \E r \in Requests : CancelEvent(c, r)
    \/ CancelSnapshot(c) \/ CancelInvoke(c) \/ CancelClose(c) \/ CancelReturns(c)

ServerStep ==
    \/ ServeForeverReturns \/ Interrupt \/ ChooseExit
    \/ WaitSeesDrained \/ WaitTimesOut \/ FlushAndExit \/ Stopped

Next ==
    \/ \E r \in Requests : HandlerStep(r)
    \/ \E s \in Shutdowns : CloseAdmission(s) \/ ShutdownResponds(s) \/ ShutdownResponseFails(s)
    \/ \E w \in Watchers, r \in Requests : WatcherFires(w, r)
    \/ \E c \in Cancellers : CancellerStep(c)
    \/ ServerStep

(* Handler and canceller threads are always scheduled, but an idle upstream *)
(* owes nothing: a read in progress is only sure to end when its transport  *)
(* is closed.  An open is sure to end, by its attempt timeout.  Serving,    *)
(* shutting down and interrupting are the environment's choice, and so is   *)
(* the expiry of the shutdown budget: WaitTimesOut is not fair.             *)
HandlerProgress(r) ==
    \/ CheckAdmission(r) \/ PrepareWithoutListener(r) \/ FinishAddListener(r)
    \/ CheckBeforeOpen(r) \/ FinishAttach(r) \/ CheckAfterAttach(r)
    \/ (handler[r] = "connecting" /\ AttachTransport(r)) \/ OpenFails(r)
    \/ AfterOpenFailure(r) \/ ReadAborted(r) \/ DispatchFailure(r) \/ Complete(r)

ServerProgress == ServeForeverReturns \/ ChooseExit \/ WaitSeesDrained \/ FlushAndExit

Fairness ==
    /\ \A r \in Requests : WF_vars(HandlerProgress(r))
    /\ \A c \in Cancellers : WF_vars(CancellerStep(c))
    /\ \A s \in Shutdowns : WF_vars(ShutdownResponds(s) \/ ShutdownResponseFails(s))
    /\ WF_vars(ServerProgress)

Spec == Init /\ [][Next]_vars
FairSpec == Spec /\ Fairness

-----------------------------------------------------------------------------
(* Properties *)

(* A canceller that has set r's event but has not yet closed the transport  *)
(* k of r it is going to close.                                             *)
WillClose(c, r, k) ==
    /\ ctarget[c] = r
    /\ \/ cphase[c] = "lock"
       \/ cphase[c] \in {"invoke", "close"} /\ ctransport[c] = k

(* cancel() and attach_upstream_transport leave no gap between them: at all *)
(* times the transport a cancelled request last attached is closed, or a    *)
(* thread that is still running is about to close it.                       *)
CancelledTransportCloses ==
    \A r \in Requests : cancelled[r] /\ transport[r] # 0 =>
        \/ transport[r] \in closed[r]
        \/ handler[r] = "attached" /\ saw[r]
        \/ \E c \in Cancellers : WillClose(c, r, transport[r])

WillNotify(c, r) ==
    /\ ctarget[c] = r
    /\ \/ cphase[c] = "lock"
       \/ cphase[c] = "invoke" /\ clistener[c]

(* The same for listeners: the listener of a cancelled request was invoked, *)
(* or a thread that is still running is about to invoke it.                 *)
CancelledListenerRuns ==
    \A r \in Requests : cancelled[r] /\ listener[r] =>
        \/ notified[r]
        \/ handler[r] = "listening" /\ saw[r]
        \/ \E c \in Cancellers : WillNotify(c, r)

(* Cancelling a request reaches both, whatever it is doing.                 *)
CancellationReaches == CancelledTransportCloses /\ CancelledListenerRuns

(* close_admission misses nobody: once shutdown started, every active       *)
(* request is cancelled or in the snapshot of a close_admission under way.  *)
ShutdownReachesActive ==
    shutdownStarted =>
        \A r \in active : cancelled[r] \/ \E s \in Shutdowns : r \in cpending[s]

(* wait_for_active_requests is right when it says drained, and stays right: *)
(* no request is active then or later, while the event writer flushes.      *)
DrainedIsFinal == waitResult = "drained" => active = {}

(* A failure caused by the Gateway's own close is never reported as the     *)
(* upstream's: the admission is cancelled before its transport is closed.   *)
NoFalseUpstreamError ==
    \A r \in Requests : failure[r] = "closed" => outcome[r] # "upstream_error"

(* A closed admission drains: every request active at a shutdown completes, *)
(* even one reading from a silent upstream.  A shutdown whose answer was    *)
(* sent then ends the process without the help of the budget: the last      *)
(* complete() wakes wait_for_active_requests.                               *)
ShutdownEnds ==
    /\ shutdownStarted ~> (active = {} \/ server = "stopped")
    /\ serverShutdown ~> server = "stopped"
=============================================================================
