------------------------------ MODULE WebTurns ------------------------------
(***************************************************************************)
(* Permission to send tool results to the ChatGPT-web runtime: the permits *)
(* of chatgpt_web_route.py, the collaboration permits and turn slots of    *)
(* chatgpt_web_collab.py, which wraps it, and the steps of                 *)
(* execute_exchange in gateway_exchange.py that use both.                  *)
(*                                                                         *)
(* The runtime issues calls in the events of a turn; a later request of    *)
(* the same turn brings their results.  Handler threads run concurrently;  *)
(* the permits are guarded by one lock, the collaboration permits by       *)
(* another, and each action is what happens under one of them.             *)
(***************************************************************************)
EXTENDS Integers, FiniteSets

CONSTANTS
    Handlers,       \* threads that serve requests, one after the other
    Calls,          \* identities of tool calls
    Collab,         \* the calls of the collaboration namespace
    Interrupts,     \* those of them that are interrupt_agent
    Turns,
    ThreadOf,       \* the thread of each turn
    TurnOf,         \* the turn in which the runtime issues each call
    Models,         \* model and effort of a request
    Inputs,         \* the requests a client may send
    Capacity,       \* MAX_INFLIGHT_WEB_TURNS
    None,
    MaxRequests,    \* bound
    MaxChanges      \* bound: new processes and version switches of the runtime

(* Its turn, model, results, collaboration calls and declared tools, and    *)
(* whether it asks to compact the conversation                              *)
RequestShapes == [turn : Turns \cup {None}, model : Models, outs : SUBSET Calls, calls : SUBSET Collab,
                  tools : {"none", "plain", "collab"}, compact : BOOLEAN]

(* A recorded answer stands for the results that it answers *)
Bodies == [turn : Turns, outs : SUBSET Calls]

ASSUME ConstantsAssumption ==
    /\ Inputs \subseteq RequestShapes
    /\ Interrupts \subseteq Collab /\ Collab \subseteq Calls
    /\ None \notin Turns \cup Calls \cup Models \cup {ThreadOf[t] : t \in Turns}
    /\ None \notin Nat \cup Bodies
    /\ TurnOf \in [Calls -> Turns]
    /\ {Capacity, MaxRequests, MaxChanges} \subseteq Nat

VARIABLES
    permit,     \* _CALLS
    collab,     \* _PERMITS of the collaboration module
    slots,      \* the handlers that hold one of _SLOTS
    gen,        \* _PROCESS_GENERATION
    epoch,      \* _EPOCHS
    drainSeen,  \* _DRAIN_SEEN
    pc,         \* where each handler is
    req,        \* its request
    joint,      \* it is taken for a collaboration submission
    consumed,   \* collaboration results its admission claimed
    inflight,   \* its exchange is registered for cancellation
    submitted, terminal, aborted, observed,     \* of its exchange
    status,     \* the process generation it read
    event,      \* the call of the event it is observing
    body,       \* the recorded answer it replays
    runtime, drain, requests,       \* the world
    sent,       \* history: how often the runtime took each result and began to answer
    lost        \* history: how often it took the result and nothing of its answer arrived

tables == <<permit, collab, slots>>
marks == <<gen, epoch, drainSeen>>
exchange == <<req, joint, consumed, inflight, submitted, terminal, aborted, observed, status, event, body>>
world == <<runtime, drain, requests, sent, lost>>
vars == <<tables, marks, pc, exchange, world>>

Threads == {ThreadOf[t] : t \in Turns}
Thread(t) == IF t = None THEN None ELSE ThreadOf[t]

(* What is left of a request that has been forgotten *)
NoRequest == [turn |-> None, model |-> None, outs |-> {}, calls |-> {}, tools |-> "none", compact |-> FALSE]

Init ==
    /\ permit = [c \in Calls |-> [state |-> "none", turn |-> None, body |-> None]]
    /\ collab = [c \in Calls |-> [state |-> "none", turn |-> None]]
    /\ slots = {}
    /\ gen = None
    /\ epoch = [t \in Threads |-> None]
    /\ drainSeen = 0
    /\ pc = [h \in Handlers |-> "idle"]
    /\ req = [h \in Handlers |-> NoRequest] /\ joint = [h \in Handlers |-> FALSE]
    /\ consumed = [h \in Handlers |-> {}] /\ observed = [h \in Handlers |-> {}]
    /\ inflight = [h \in Handlers |-> FALSE] /\ submitted = [h \in Handlers |-> FALSE]
    /\ terminal = [h \in Handlers |-> FALSE] /\ aborted = [h \in Handlers |-> FALSE]
    /\ status = [h \in Handlers |-> None] /\ event = [h \in Handlers |-> None]
    /\ body = [h \in Handlers |-> None]
    /\ runtime = 0 /\ drain = 0 /\ requests = 0
    /\ sent = [c \in Calls |-> 0] /\ lost = [c \in Calls |-> 0]

-----------------------------------------------------------------------------
Goto(h, label) == pc' = [pc EXCEPT ![h] = label]

(* The request is over.  A registered exchange is remembered as long as a  *)
(* late cancellation could still reach it.                                 *)
End(h) ==
    LET kept == inflight[h] /\ ~terminal[h] /\ ~aborted[h]
    IN /\ Goto(h, "idle")
       /\ inflight' = [inflight EXCEPT ![h] = kept]
       /\ req' = [req EXCEPT ![h] = IF kept THEN @ ELSE NoRequest]
       /\ observed' = [observed EXCEPT ![h] = IF kept THEN @ ELSE {}]
       /\ consumed' = [consumed EXCEPT ![h] = {}] /\ joint' = [joint EXCEPT ![h] = FALSE]
       /\ submitted' = [submitted EXCEPT ![h] = FALSE]
       /\ terminal' = [terminal EXCEPT ![h] = FALSE] /\ aborted' = [aborted EXCEPT ![h] = FALSE]
       /\ status' = [status EXCEPT ![h] = None] /\ event' = [event EXCEPT ![h] = None]
       /\ body' = [body EXCEPT ![h] = None]

NeedsTools(h) == req[h].tools # "none" \/ req[h].outs # {} \/ req[h].calls # {}

Phase(h) ==
    IF req[h].compact THEN "compact"
    ELSE IF req[h].outs # {} THEN "continue"
    ELSE IF NeedsTools(h) THEN "issue" ELSE "text"

(* The table with the permits C revoked that are in one of the states S *)
Revoke(C, S) ==
    [c \in Calls |-> IF c \in C /\ permit[c].state \in S
                     THEN [permit[c] EXCEPT !.state = "revoked", !.body = None] ELSE permit[c]]

RevokeCollab(table, C) ==
    [c \in Calls |-> IF c \in C /\ table[c].state \in {"open", "consumed"}
                     THEN [table[c] EXCEPT !.state = "revoked"] ELSE table[c]]

AnyState == {"open", "forwarding", "recorded"}

OfThread(t) == {c \in Calls : Thread(permit[c].turn) = Thread(t)}
CollabOfThread(table, t) == IF t = None THEN {} ELSE {c \in Calls : Thread(table[c].turn) = Thread(t)}

-----------------------------------------------------------------------------
(* begin_exchange                                                          *)

(* A new request.  Whether it is a collaboration submission is found out   *)
(* before the lock is taken.                                               *)
Arrive(h) ==
    /\ pc[h] = "idle" /\ requests < MaxRequests
    /\ \E r \in Inputs :
          /\ req' = [req EXCEPT ![h] = r]
          /\ joint' = [joint EXCEPT ![h] = \/ r.tools = "collab" \/ r.calls # {}
                                          \/ \E c \in r.outs : collab[c].state # "none"]
    /\ inflight' = [inflight EXCEPT ![h] = FALSE] /\ observed' = [observed EXCEPT ![h] = {}]
    /\ aborted' = [aborted EXCEPT ![h] = FALSE]
    /\ requests' = requests + 1
    /\ Goto(h, "begin")
    /\ UNCHANGED <<tables, marks, consumed, submitted, terminal, status, event, body, runtime, drain, sent, lost>>

BeginPlain(h) ==
    /\ pc[h] = "begin" /\ ~joint[h]
    /\ slots' = slots \cup {h}
    /\ Goto(h, "drain")
    /\ UNCHANGED <<permit, collab, marks, exchange, world>>

(* Encrypted arguments, or the runtime or the slots are full *)
BeginRefused(h) ==
    /\ pc[h] = "begin" /\ joint[h]
    /\ End(h)
    /\ UNCHANGED <<tables, marks, world>>

(* The calls C of a request get a permit, and an interrupt revokes others *)
WithCalls(h, C) ==
    [c \in Calls |-> IF c \in C /\ collab[c].state = "none"
                     THEN [state |-> "open", turn |-> req[h].turn] ELSE collab[c]]

Interrupted(h) ==
    LET table == WithCalls(h, req[h].calls)
        kept == req[h].calls \cap Interrupts
    IN IF kept = {} THEN table
       ELSE RevokeCollab(table, CollabOfThread(table, req[h].turn) \ kept)

RevokedCall(h) == \E c \in req[h].calls : collab[c].state = "revoked"

(* _claim_results_locked fails half way: calls registered and results      *)
(* claimed before the offending one stay as they are                       *)
BeginFails(h) ==
    /\ pc[h] = "begin" /\ joint[h] /\ Cardinality(slots) < Capacity
    /\ \/ /\ RevokedCall(h)
          /\ \E C \in SUBSET req[h].calls : collab' = WithCalls(h, C)
       \/ /\ ~RevokedCall(h)
          /\ \E c \in req[h].outs, C \in SUBSET {d \in req[h].outs : Interrupted(h)[d].state = "open"} :
                /\ Interrupted(h)[c].state \in {"revoked", "consumed"}
                /\ collab' = [d \in Calls |->
                      IF d = c THEN [Interrupted(h)[d] EXCEPT !.state = "revoked"]
                      ELSE IF d \in C THEN [Interrupted(h)[d] EXCEPT !.state = "consumed"] ELSE Interrupted(h)[d]]
    /\ End(h)
    /\ UNCHANGED <<permit, slots, marks, world>>

BeginJoint(h) ==
    /\ pc[h] = "begin" /\ joint[h] /\ Cardinality(slots) < Capacity
    /\ ~RevokedCall(h)
    /\ \A c \in req[h].outs : Interrupted(h)[c].state \in {"none", "open"}
    /\ LET claimed == {c \in req[h].outs : Interrupted(h)[c].state = "open"}
       IN /\ consumed' = [consumed EXCEPT ![h] = claimed]
          /\ collab' = [c \in Calls |-> IF c \in claimed THEN [Interrupted(h)[c] EXCEPT !.state = "consumed"]
                                        ELSE Interrupted(h)[c]]
    /\ slots' = slots \cup {h}
    /\ Goto(h, "drain")
    /\ UNCHANGED <<permit, marks, req, joint, inflight, submitted, terminal, aborted, observed, status, event, body, world>>

-----------------------------------------------------------------------------
(* prepare_responses_exchange                                              *)

RevokeAll == permit' = Revoke(Calls, AnyState)

ConsumeDrain(h) ==
    /\ pc[h] = "drain"
    /\ drainSeen' = drain
    /\ IF drain = drainSeen THEN Goto(h, "status") /\ UNCHANGED permit
       ELSE Goto(h, "drained") /\ RevokeAll
    /\ UNCHANGED <<collab, slots, gen, epoch, exchange, world>>

DrainCollab(h) ==
    /\ pc[h] = "drained"
    /\ collab' = RevokeCollab(collab, Calls)
    /\ Goto(h, "status")
    /\ UNCHANGED <<permit, slots, marks, exchange, world>>

(* The runtime may look dead, and be dead or alive when the answer is used *)
ReadStatus(h) ==
    /\ pc[h] = "status"
    /\ \E g \in {runtime, None} : status' = [status EXCEPT ![h] = g]
    /\ Goto(h, "sync")
    /\ UNCHANGED <<tables, marks, req, joint, consumed, inflight, submitted, terminal, aborted, observed, event, body, world>>

(* A dead runtime, or one that is not ready or does not offer the model *)
Allowed(h) ==
    /\ \E l \in {"epoch", "abort"} : (status[h] = None => l = "abort") /\ Goto(h, l)
    /\ status' = [status EXCEPT ![h] = None]

SyncProcessGeneration(h) ==
    /\ pc[h] = "sync"
    /\ gen' = status[h]
    /\ IF gen = status[h] THEN Allowed(h) /\ UNCHANGED <<permit, epoch>>
       ELSE /\ RevokeAll
            /\ epoch' = [t \in Threads |-> None]
            /\ Goto(h, "synced") /\ UNCHANGED status
    /\ UNCHANGED <<collab, slots, drainSeen, req, joint, consumed, inflight, submitted, terminal, aborted, observed, event, body, world>>

SyncCollab(h) ==
    /\ pc[h] = "synced"
    /\ collab' = RevokeCollab(collab, Calls)
    /\ Allowed(h)
    /\ UNCHANGED <<permit, slots, marks, req, joint, consumed, inflight, submitted, terminal, aborted, observed, event, body, world>>

(* note_turn_epoch: another model or effort ends the permits of the thread *)
NoteTurnEpoch(h) ==
    /\ pc[h] = "epoch"
    /\ LET t == Thread(req[h].turn)
           old == IF t = None \/ req[h].compact THEN req[h].model ELSE epoch[t]
       IN /\ epoch' = IF t = None \/ req[h].compact THEN epoch ELSE [epoch EXCEPT ![t] = req[h].model]
          /\ IF old \in {None, req[h].model} THEN Goto(h, "claim") /\ UNCHANGED permit
             ELSE Goto(h, "epoched") /\ permit' = Revoke(OfThread(req[h].turn), AnyState)
    /\ UNCHANGED <<collab, slots, gen, drainSeen, exchange, world>>

EpochCollab(h) ==
    /\ pc[h] = "epoched"
    /\ collab' = RevokeCollab(collab, CollabOfThread(collab, req[h].turn))
    /\ Goto(h, "claim")
    /\ UNCHANGED <<permit, slots, marks, exchange, world>>

MayClaim(h, state) ==
    req[h].turn # None /\ \A c \in req[h].outs : permit[c].state = state /\ permit[c].turn = req[h].turn

(* _claim_tool_outputs, and the registration of the exchange that follows *)
ClaimFails(h) ==
    /\ pc[h] = "claim" /\ Phase(h) = "continue"
    /\ ~MayClaim(h, "open") /\ ~MayClaim(h, "recorded")
    /\ Goto(h, "abort")
    /\ UNCHANGED <<tables, marks, exchange, world>>

ClaimReplays(h) ==
    /\ pc[h] = "claim" /\ Phase(h) = "continue" /\ MayClaim(h, "recorded")
    /\ \E c \in req[h].outs : body' = [body EXCEPT ![h] = permit[c].body]
    /\ submitted' = [submitted EXCEPT ![h] = TRUE]
    /\ Goto(h, "replay")
    /\ UNCHANGED <<tables, marks, req, joint, consumed, inflight, terminal, aborted, observed, status, event, world>>

Claim(h) ==
    /\ pc[h] = "claim"
    /\ Phase(h) = "continue" => MayClaim(h, "open")
    /\ permit' = [c \in Calls |-> IF Phase(h) = "continue" /\ c \in req[h].outs
                                  THEN [permit[c] EXCEPT !.state = "forwarding", !.body = None] ELSE permit[c]]
    /\ inflight' = [inflight EXCEPT ![h] = req[h].turn # None]
    /\ Goto(h, "open")
    /\ UNCHANGED <<collab, slots, marks, req, joint, consumed, submitted, terminal, aborted, observed, status, event, body, world>>

-----------------------------------------------------------------------------
(* execute_exchange                                                        *)

Claims(h) == IF inflight[h] /\ Phase(h) = "continue" THEN req[h].outs ELSE {}

(* The response headers arrived: note_upstream_submitted *)
NoteSubmitted(h) ==
    /\ pc[h] = "open"
    /\ submitted' = [submitted EXCEPT ![h] = TRUE]
    /\ sent' = [c \in Calls |-> IF c \in Claims(h) THEN sent[c] + 1 ELSE sent[c]]
    /\ Goto(h, "relay")
    /\ UNCHANGED <<tables, marks, req, joint, consumed, inflight, terminal, aborted, observed, status, event, body, runtime, drain, requests, lost>>

(* The request did not get through, or the runtime refused it *)
OpenFails(h) ==
    /\ pc[h] = "open"
    /\ Goto(h, "settle")
    /\ UNCHANGED <<tables, marks, exchange, world>>

(* The runtime took the request, and the connection broke or the wait      *)
(* timed out before the response headers: for the Gateway this is an open  *)
(* that failed.                                                            *)
AnswerLost(h) ==
    /\ pc[h] = "open"
    /\ lost' = [c \in Calls |-> IF c \in Claims(h) THEN lost[c] + 1 ELSE lost[c]]
    /\ Goto(h, "settle")
    /\ UNCHANGED <<tables, marks, exchange, runtime, drain, requests, sent>>

(* observe_upstream_event: an event with the call c or none, perhaps the   *)
(* last one.  Only the first answer of a turn issues calls.                *)
ObserveEvent(h) ==
    /\ pc[h] = "relay" /\ inflight[h] /\ ~terminal[h]
    /\ \E c \in {d \in Calls : TurnOf[d] = req[h].turn} \cup {None}, last \in BOOLEAN :
          /\ c # None \/ last
          /\ permit' = [d \in Calls |->
                IF d = c /\ Phase(h) = "issue" /\ permit[d].state = "none"
                THEN [state |-> "open", turn |-> req[h].turn, body |-> None]
                ELSE IF last /\ d \in Claims(h) /\ permit[d].state = "forwarding" /\ permit[d].turn = req[h].turn
                THEN [permit[d] EXCEPT !.state = "recorded", !.body = [turn |-> req[h].turn, outs |-> req[h].outs]]
                ELSE permit[d]]
          /\ observed' = [observed EXCEPT ![h] = IF Phase(h) = "issue" THEN @ \cup ({c} \ {None}) ELSE @]
          /\ terminal' = [terminal EXCEPT ![h] = last]
          /\ event' = [event EXCEPT ![h] = IF c \in Collab THEN c ELSE None]
          /\ Goto(h, IF c \in Collab THEN "note" ELSE "relay")
    /\ UNCHANGED <<collab, slots, marks, req, joint, consumed, inflight, submitted, aborted, status, body, world>>

NoteStreamEvent(h) ==
    /\ pc[h] = "note"
    /\ LET c == event[h]
           table == [collab EXCEPT ![c] = IF @.state = "none" \/ (@.state = "open" /\ @.turn = None)
                                          THEN [state |-> "open", turn |-> req[h].turn] ELSE @]
       IN collab' = IF c \in Interrupts THEN RevokeCollab(table, CollabOfThread(table, req[h].turn) \ {c}) ELSE table
    /\ event' = [event EXCEPT ![h] = None]
    /\ Goto(h, "relay")
    /\ UNCHANGED <<permit, slots, marks, req, joint, consumed, inflight, submitted, terminal, aborted, observed, status, body, world>>

RelayEnds(h) ==
    /\ pc[h] \in {"relay", "replay"}
    /\ Goto(h, "settle")
    /\ UNCHANGED <<tables, marks, exchange, world>>

(* refuse_submitted_retry only knows exchanges that are registered *)
RelayRetries(h) ==
    /\ pc[h] = "relay" /\ ~inflight[h]
    /\ Goto(h, "open")
    /\ UNCHANGED <<tables, marks, exchange, world>>

(* _revoke_inflight_locked *)
RevokeInflight(h) ==
    Revoke({c \in IF Phase(h) = "continue" THEN req[h].outs ELSE observed[h] : permit[c].turn = req[h].turn},
           {"open", "forwarding"})

(* The cancel listener.  A shutdown or a disconnect may find the request   *)
(* anywhere, also after its exchange has been settled.                     *)
Abort(h) ==
    /\ inflight[h] /\ ~terminal[h] /\ ~aborted[h]
    /\ aborted' = [aborted EXCEPT ![h] = TRUE]
    /\ permit' = RevokeInflight(h)
    /\ UNCHANGED <<collab, slots, marks, pc, req, joint, consumed, inflight, submitted, terminal, observed, status, event, body, world>>

(* Mutant: the claim is dropped whatever became of the permit meanwhile *)
SettleAnyState(h) ==
    /\ pc[h] = "settle"
    /\ permit' = IF ~inflight[h] \/ terminal[h] \/ aborted[h] THEN permit
                 ELSE IF Phase(h) = "continue" /\ ~submitted[h]
                 THEN [c \in Calls |-> IF c \in req[h].outs THEN [permit[c] EXCEPT !.state = "open"] ELSE permit[c]]
                 ELSE RevokeInflight(h)
    /\ Goto(h, "finish")
    /\ UNCHANGED <<collab, slots, marks, exchange, world>>

(* Mutant: a failed answer also gives the claim back *)
SettleForgetsSubmission(h) ==
    /\ pc[h] = "settle"
    /\ permit' = IF ~inflight[h] \/ terminal[h] \/ aborted[h] THEN permit
                 ELSE IF Phase(h) = "continue"
                 THEN [c \in Calls |-> IF c \in req[h].outs /\ permit[c].state = "forwarding"
                                       THEN [permit[c] EXCEPT !.state = "open"] ELSE permit[c]]
                 ELSE RevokeInflight(h)
    /\ Goto(h, "finish")
    /\ UNCHANGED <<collab, slots, marks, exchange, world>>

(* Mutant: only an exchange that was submitted is settled *)
SettleSubmitted(h) ==
    /\ pc[h] = "settle"
    /\ permit' = IF ~inflight[h] \/ terminal[h] \/ aborted[h] \/ ~submitted[h] THEN permit ELSE RevokeInflight(h)
    /\ Goto(h, "finish")
    /\ UNCHANGED <<collab, slots, marks, exchange, world>>

(* _settle_submission *)
Settle(h) ==
    /\ pc[h] = "settle"
    /\ permit' = IF ~inflight[h] \/ terminal[h] \/ aborted[h] THEN permit
                 ELSE IF Phase(h) = "continue" /\ ~submitted[h]
                 THEN [c \in Calls |-> IF c \in req[h].outs /\ permit[c].state = "forwarding" /\ permit[c].turn = req[h].turn
                                       THEN [permit[c] EXCEPT !.state = "open"] ELSE permit[c]]
                 ELSE RevokeInflight(h)
    /\ Goto(h, "finish")
    /\ UNCHANGED <<collab, slots, marks, exchange, world>>

(* _release_locked *)
Release(h, table, rollback) ==
    /\ slots' = slots \ {h}
    /\ collab' = [c \in Calls |-> IF rollback /\ c \in consumed[h] /\ table[c].state = "consumed"
                                  THEN [table[c] EXCEPT !.state = "open"] ELSE table[c]]

(* finish_exchange *)
Finish(h) ==
    /\ pc[h] = "finish"
    /\ LET stopped == inflight[h] /\ aborted[h]
           table == IF stopped THEN RevokeCollab(collab, {c \in Calls : collab[c].turn = req[h].turn}) ELSE collab
       IN Release(h, table, ~submitted[h] /\ ~stopped)
    /\ End(h)
    /\ UNCHANGED <<permit, marks, world>>

(* abort_exchange, when the preparation has failed *)
AbortExchange(h) ==
    /\ pc[h] = "abort"
    /\ Release(h, collab, ~submitted[h])
    /\ End(h)
    /\ UNCHANGED <<permit, marks, world>>

-----------------------------------------------------------------------------
RuntimeRestarts ==
    /\ runtime + drain < MaxChanges /\ runtime' = runtime + 1
    /\ UNCHANGED <<tables, marks, pc, exchange, drain, requests, sent, lost>>

(* The supervisor writes another drain.json *)
RuntimeDrains ==
    /\ runtime + drain < MaxChanges /\ drain' = drain + 1
    /\ UNCHANGED <<tables, marks, pc, exchange, runtime, requests, sent, lost>>

Next ==
    \/ \E h \in Handlers :
          \/ Arrive(h) \/ BeginPlain(h) \/ BeginRefused(h) \/ BeginFails(h) \/ BeginJoint(h)
          \/ ConsumeDrain(h) \/ DrainCollab(h) \/ ReadStatus(h) \/ SyncProcessGeneration(h) \/ SyncCollab(h)
          \/ NoteTurnEpoch(h) \/ EpochCollab(h) \/ ClaimFails(h) \/ ClaimReplays(h) \/ Claim(h)
          \/ NoteSubmitted(h) \/ OpenFails(h) \/ AnswerLost(h) \/ ObserveEvent(h) \/ NoteStreamEvent(h)
          \/ RelayEnds(h) \/ RelayRetries(h) \/ Abort(h) \/ Settle(h) \/ Finish(h) \/ AbortExchange(h)
    \/ RuntimeRestarts \/ RuntimeDrains

Spec == Init /\ [][Next]_vars

-----------------------------------------------------------------------------
Labels == {"idle", "begin", "drain", "drained", "status", "sync", "synced", "epoch", "epoched", "claim",
           "replay", "open", "relay", "note", "settle", "finish", "abort"}

TypeOK ==
    /\ permit \in [Calls -> [state : {"none", "revoked"} \cup AnyState, turn : Turns \cup {None}, body : Bodies \cup {None}]]
    /\ collab \in [Calls -> [state : {"none", "open", "consumed", "revoked"}, turn : Turns \cup {None}]]
    /\ slots \subseteq Handlers
    /\ gen \in Nat \cup {None} /\ epoch \in [Threads -> Models \cup {None}] /\ drainSeen \in Nat
    /\ pc \in [Handlers -> Labels]
    /\ req \in [Handlers -> RequestShapes \cup {NoRequest}] /\ joint \in [Handlers -> BOOLEAN]
    /\ consumed \in [Handlers -> SUBSET Calls] /\ observed \in [Handlers -> SUBSET Calls]
    /\ inflight \in [Handlers -> BOOLEAN] /\ submitted \in [Handlers -> BOOLEAN]
    /\ terminal \in [Handlers -> BOOLEAN] /\ aborted \in [Handlers -> BOOLEAN]
    /\ status \in [Handlers -> Nat \cup {None}]
    /\ event \in [Handlers -> Calls \cup {None}] /\ body \in [Handlers -> Bodies \cup {None}]
    /\ runtime \in Nat /\ drain \in Nat /\ requests \in Nat /\ sent \in [Calls -> Nat]
    /\ lost \in [Calls -> Nat]

(* The exchange of h has been registered and not been settled *)
Unsettled(h) == inflight[h] /\ pc[h] \in {"open", "relay", "note", "settle"}

(* A recorded answer goes to a request of its turn with a result that the   *)
(* runtime has begun to answer once                                         *)
ReplayFits ==
    \A h \in Handlers : pc[h] = "replay" =>
        body[h] # None /\ body[h].turn = req[h].turn /\ \E c \in req[h].outs : c \in body[h].outs /\ sent[c] = 1

(***************************************************************************)
(* The result of a call goes to the runtime only as long as the runtime    *)
(* has never begun to answer it, although a client may send it again at    *)
(* any time and in several requests at once, an exchange may fail before   *)
(* or after it was submitted, and permits may be revoked while they are in *)
(* use.  It may go twice in one case alone, which the Gateway cannot tell  *)
(* from a failed connection: the runtime took it and nothing of the answer *)
(* arrived.  Once an answer is recorded it is replayed instead: the answer *)
(* to a result of the request, given in the same turn, which the runtime   *)
(* has begun to answer once.                                               *)
(***************************************************************************)
ForwardedOnce ==
    /\ [][\A c \in Calls : sent'[c] + lost'[c] # sent[c] + lost[c] => sent[c] = 0 /\ sent'[c] + lost'[c] = lost[c] + 1]_vars
    /\ []ReplayFits

(***************************************************************************)
(* A result is "already in flight" only while a request that carries it    *)
(* and can still settle it is running, and a turn slot is taken only by a  *)
(* running request: otherwise the client could never send the result       *)
(* again, or the slots would run out.                                      *)
(***************************************************************************)
NothingStaysInFlight ==
    /\ \A c \in Calls : permit[c].state = "forwarding" =>
          \E h \in Handlers : Unsettled(h) /\ c \in Claims(h) /\ ~terminal[h] /\ ~aborted[h]
    /\ \A h \in slots : pc[h] \notin {"idle", "begin"}

(***************************************************************************)
(* Permission that was revoked, because the runtime process, its version,  *)
(* the model or the effort changed or because the turn was cancelled, is   *)
(* never given back, whatever exchanges end, fail or roll back later.      *)
(***************************************************************************)
RevokedForGood ==
    [][\A c \in Calls : /\ permit[c].state = "revoked" => permit'[c].state = "revoked"
                        /\ collab[c].state = "revoked" => collab'[c].state = "revoked"]_vars
=============================================================================
