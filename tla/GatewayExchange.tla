-------------------------- MODULE GatewayExchange --------------------------
(***************************************************************************)
(* One streaming Responses request of the Gateway, from the first attempt  *)
(* to open an upstream to the last byte sent to the client:                *)
(* execute_exchange with its retries and protocol fallback, the retries of *)
(* _open_upstream_response inside it, the official, the transparent and    *)
(* the compatibility relay, the DownstreamStreamCommit seam all of them    *)
(* write through, and the dispatch of exceptions to JSON or SSE errors.    *)
(*                                                                         *)
(* A run of writes is the sequence todo; each write is an action, so the   *)
(* client, a shutdown and the deadline can strike between any two of them. *)
(***************************************************************************)
EXTENDS Integers, Sequences, FiniteSets

CONSTANTS
    OpenAttempts,   \* configured attempts to open an upstream
    Expansion,      \* attempts granted to capacity and stream failures
    Notices,        \* possible values of downstream_retry_notice_enabled
    Lines,          \* kinds of SSE lines an upstream sends
    MaxLines        \* bound: lines of one upstream response

LineKinds == {"meta",   \* an event that is not output yet (response.created)
              "delta",  \* output
              "tool",   \* an event of a tool call, which may complete it
              "done",   \* a whole terminal event
              "head",   \* a terminal event without its closing blank line
              "sep",    \* the blank line that closes it
              "error",  \* an error event
              "huge"}   \* a line that exceeds the frame limit

ASSUME ConstantsAssumption ==
    /\ OpenAttempts \in Nat \ {0}
    /\ Expansion \in Nat
    /\ Notices \subseteq BOOLEAN
    /\ Lines \subseteq LineKinds
    /\ MaxLines \in Nat

VARIABLES
    plan,       \* RetryExecutionPlan and the relay it selects
    pc,         \* where the handler thread is
    exc,        \* the exception in flight
    try,        \* attempt counters: route, relay, open, and their limits
    written,    \* history: an upstream request was at least partly written
    deadline,   \* the pre-response deadline: "none", "running" or "expired"
    armed,      \* this call of _open_upstream_response has the deadline
    started,    \* ExchangeProgress.downstream_sse_started
    response,   \* the upstream response: "none", "open" or "closed"
    source,     \* what the upstream sent of it: lines, and whether a frame is open
    seam,       \* DownstreamStreamCommit
    relay,      \* locals of the relay function
    todo,       \* writes the handler is about to make, and where it goes then
    wire,       \* history: what the seam sent to the client
    direct,     \* history: what the dispatcher sent after it, past the seam
    ending,     \* history: how the upstream side of the stream ended
    client,     \* the client is connected
    cancelled   \* the admission was cancelled

env == <<client, cancelled, deadline>>
vars == <<plan, pc, exc, try, written, armed, started, response, source, seam, relay, todo, wire, direct, ending, env>>

-----------------------------------------------------------------------------
(* The plans of route_plan for a Responses stream.                         *)

Kinds == {"official", "transparent", "compat", "web"}

PlanFor(kind, main, idempotent, notice) ==
    [kind |-> kind,
     main |-> main,
     idempotent |-> idempotent,
     notice |-> notice,
     opens |-> IF kind = "web" THEN 1 ELSE OpenAttempts,
     relays |-> CASE kind = "web" -> 1 [] kind = "official" -> 2 [] OTHER -> OpenAttempts,
     budget |-> CASE kind = "web" -> 1 [] kind = "official" -> OpenAttempts [] OTHER -> 0,
     expansion |-> IF kind = "web" THEN 0 ELSE Expansion,
     retryHttp |-> kind \in {"transparent", "compat"},
     routes |-> IF kind \in {"transparent", "compat"} THEN 2 ELSE 1]

NoticeChoices == Notices \cup {FALSE}

Plans ==
    {PlanFor(k, m, i, n) : k \in Kinds, m \in BOOLEAN, i \in BOOLEAN, n \in NoticeChoices}

RealPlan(p) ==
    /\ p.notice => p.kind = "compat"
    /\ p.idempotent => p.main /\ p.kind \in {"transparent", "compat"}
    /\ p.kind = "web" => p.main

(* open_attempts_for_failure_class and relay_attempts_for_failure_class *)
AttemptsFor(base, expandable) ==
    IF base > 1 /\ expandable /\ plan.expansion > base THEN plan.expansion ELSE base

(***************************************************************************)
(* Exceptions.  "prewrite" is a failure that provably happened before the  *)
(* request was written (DNS, TCP or TLS), "io" any other failure to open.  *)
(***************************************************************************)
OpenErrors == {"prewrite", "io", "incomplete", "httpTransient", "httpPermanent"}
HttpErrors == {"httpTransient", "httpPermanent"}
RelayRetryable == {"incomplete", "interrupted", "ended", "errorEvent", "empty"}
Exceptions == OpenErrors \cup RelayRetryable
              \cup {"none", "budget", "shutdown", "closed", "tooLarge", "nameError", "translation"}

Exposed == seam.exposed \/ seam.output

GuardedPost == plan.kind # "official" /\ plan.main

(* _retry_safety_class, with the exposure _open_upstream_response measures *)
OpenSuppressed(e) == GuardedPost /\ (Exposed \/ (~plan.idempotent /\ e # "prewrite"))

(* Mutant: the write of the request no longer counts *)
SuppressedByExposure(e) == GuardedPost /\ Exposed

(* execute_exchange passes the callable itself, which is always true *)
RelaySuppressed(e) == GuardedPost

Expired == armed /\ deadline = "expired"

Goto(label) == pc' = label /\ todo' = [items |-> <<>>, then |-> "none", else |-> "none"]

Raise(e) == exc' = e /\ Goto("raised")

(* Write items one by one, then go to one label, or to the other on failure *)
Write(items, then, else) ==
    IF items = <<>>
    THEN Goto(then)
    ELSE pc' = "write" /\ todo' = [items |-> items, then |-> then, else |-> else]

NoRelay == [defer |-> FALSE, headers |-> FALSE, pending |-> <<>>, output |-> FALSE,
            visible |-> FALSE]

Init ==
    /\ plan \in {p \in Plans : RealPlan(p)}
    /\ pc = "enter" /\ exc = "none"
    /\ try = [route |-> 1, relay |-> 1, relayLimit |-> plan.relays, open |-> 1, openLimit |-> plan.opens, begun |-> 0]
    /\ written = FALSE
    /\ deadline = (IF plan.main THEN "running" ELSE "none")
    /\ armed = FALSE /\ started = FALSE /\ response = "none"
    /\ seam = [headers |-> FALSE, output |-> FALSE, exposed |-> FALSE, terminal |-> FALSE, closed |-> FALSE, frame |-> "clean"]
    /\ source = [lines |-> 0, open |-> FALSE]
    /\ relay = NoRelay
    /\ todo = [items |-> <<>>, then |-> "none", else |-> "none"]
    /\ wire = <<>> /\ direct = <<>> /\ ending = "none"
    /\ client = TRUE /\ cancelled = FALSE

-----------------------------------------------------------------------------
(* _open_upstream_response                                                 *)

EnterOpen ==
    /\ pc = "enter"
    /\ armed' = (~started /\ deadline # "none")
    /\ IF plan.budget > 0 /\ try.begun >= plan.budget
       THEN Raise("budget") /\ UNCHANGED try
       ELSE LET left == plan.budget - try.begun IN
            /\ try' = [try EXCEPT !.open = 1,
                                  !.openLimit = IF plan.budget > 0 /\ left < plan.opens THEN left ELSE plan.opens]
            /\ Goto("open") /\ UNCHANGED exc
    /\ UNCHANGED <<plan, written, started, response, source, seam, relay, wire, direct, ending, env>>

StartOpen ==
    /\ pc = "open"
    /\ IF cancelled THEN Raise("shutdown") /\ UNCHANGED try
       ELSE IF Expired THEN Raise("budget") /\ UNCHANGED try
       ELSE try' = [try EXCEPT !.begun = IF plan.budget > 0 THEN @ + 1 ELSE @] /\ Goto("opening") /\ UNCHANGED exc
    /\ UNCHANGED <<plan, written, armed, started, response, source, seam, relay, wire, direct, ending, env>>

(* attach_upstream_transport closes the response of a cancelled request, and *)
(* the seam's attach_upstream the response of a closed stream                *)
OpenSucceeds ==
    /\ pc = "opening"
    /\ written' = TRUE
    /\ IF Expired THEN response' = "closed" /\ Raise("budget")
       ELSE IF cancelled THEN response' = "closed" /\ Raise("shutdown")
       ELSE response' = (IF seam.closed THEN "closed" ELSE "open") /\ Goto("relay") /\ UNCHANGED exc
    /\ UNCHANGED <<plan, try, armed, started, source, seam, relay, wire, direct, ending, env>>

OpenLimit(e) == IF plan.budget > 0 THEN try.openLimit ELSE AttemptsFor(try.openLimit, e = "httpTransient")

(* The retry notice: SSE headers unless something was exposed, then the event *)
NoticeItems == IF Exposed THEN <<"notice">> ELSE <<"headers", "notice">>

OpenFails(e) ==
    LET raises == /\ Raise(IF cancelled THEN "shutdown"
                           ELSE IF Expired /\ ~(e \in HttpErrors /\ ~plan.retryHttp) THEN "budget" ELSE e)
        mayRetry == /\ ~cancelled /\ ~Expired
                    /\ e \in HttpErrors => plan.retryHttp
                    /\ ~OpenSuppressed(e)
                    /\ try.open < OpenLimit(e) /\ e # "httpPermanent"
    IN
    /\ pc = "opening" /\ e \in OpenErrors
    /\ written' = (written \/ e # "prewrite")
    /\ \/ ~mayRetry /\ raises
       \/ mayRetry /\ e = "httpTransient" /\ raises      \* capacity limit elapsed
       \/ mayRetry /\ armed /\ Raise("budget")           \* the delay exceeds the deadline
       \/ mayRetry /\ Write(IF plan.notice THEN NoticeItems ELSE <<>>, "openWait", "done") /\ UNCHANGED exc
    /\ UNCHANGED <<plan, try, armed, started, response, source, seam, relay, wire, direct, ending, env>>

OpenAgain ==
    /\ pc = "openWait"
    /\ IF cancelled THEN Raise("shutdown") /\ UNCHANGED try
       ELSE try' = [try EXCEPT !.open = @ + 1] /\ Goto("open") /\ UNCHANGED exc
    /\ started' = (started \/ plan.notice)
    /\ UNCHANGED <<plan, written, armed, response, source, seam, relay, wire, direct, ending, env>>

-----------------------------------------------------------------------------
(* The relays                                                              *)

StartRelay ==
    LET defer == try.relay < try.relayLimit
        upFront == ~started /\ (plan.kind \in {"compat", "web"} \/ ~defer)
    IN
    /\ pc = "relay"
    /\ relay' = [NoRelay EXCEPT !.defer = defer, !.headers = started]
    /\ seam' = [seam EXCEPT !.frame = "clean"]      \* set_terminal_observer
    /\ source' = [lines |-> 0, open |-> FALSE]
    /\ Write(IF upFront THEN <<"headers">> ELSE <<>>, "read", "relayEnds")
    /\ UNCHANGED <<plan, exc, try, written, armed, started, response, wire, direct, ending, env>>

Deferring == relay.defer /\ ~relay.headers

HeadersFirst == IF relay.headers THEN <<>> ELSE <<"headers">>

(* The official relay writes every line at once, the transparent one does   *)
(* when the headers are out or when there is no retry to fall back on       *)
PassLine(l) ==
    /\ plan.kind = "official" \/ (plan.kind = "transparent" /\ ~Deferring)
    /\ Write(HeadersFirst \o <<l>>, "read", "relayEnds")
    /\ UNCHANGED <<exc, relay, seam, response>>

(* Otherwise the transparent relay holds lines back until output or the end *)
HoldLine(l) ==
    /\ plan.kind = "transparent" /\ Deferring
    /\ UNCHANGED seam
    /\ \/ l = "error" /\ Raise("errorEvent") /\ response' = "closed" /\ UNCHANGED relay
       \/ /\ l \in {"delta", "tool", "done", "head", "huge"}
          /\ Write(<<"headers">> \o relay.pending \o <<l>>, "read", "relayEnds")
          /\ relay' = [relay EXCEPT !.pending = <<>>]
          /\ UNCHANGED <<exc, response>>
       \/ /\ l \in {"meta", "sep"}
          /\ relay' = [relay EXCEPT !.pending = Append(@, l)]
          /\ UNCHANGED <<exc, response, pc, todo>>

EmptyCompleted == ~relay.visible /\ ~relay.output
Cleared == [relay EXCEPT !.pending = <<>>]

(* A failure the compatibility relay can still hide behind a retry is raised, *)
(* any other becomes an event of the stream                                   *)
ConvertedFailure(e, item) ==
    /\ relay' = Cleared
    /\ IF relay.defer /\ ~relay.output
       THEN Raise(e) /\ response' = "closed"
       ELSE Write(<<item>>, "relayEnds", "relayEnds") /\ UNCHANGED <<exc, response>>

(* The compatibility relay holds lines back until output starts and stops at *)
(* the terminal event, whose blank line it writes itself                     *)
ConvertLine(l) ==
    LET emits(item, then) == Write(relay.pending \o <<item>>, then, "relayEnds") /\ UNCHANGED <<exc, response>>
        terminal == l \in {"done", "head"}
        now == l = "delta" \/ relay.output \/ (l = "huge" /\ relay.pending = <<>>)
    IN
    /\ plan.kind \in {"compat", "web"}
    /\ seam' = [seam EXCEPT !.exposed = @ \/ l \in {"delta", "tool"}]
    /\ \/ l = "error" /\ ConvertedFailure("errorEvent", "failed")
       \/ terminal /\ EmptyCompleted /\ ConvertedFailure("empty", "failed")
       \/ terminal /\ ~EmptyCompleted /\ emits("done", "adapterEnds") /\ relay' = Cleared
       \/ /\ ~terminal /\ l # "error" /\ now
          /\ emits(l, "read")
          /\ relay' = [Cleared EXCEPT !.output = @ \/ l = "delta", !.visible = @ \/ l \in {"delta", "tool"}]
       \/ /\ ~terminal /\ l # "error" /\ ~now
          /\ relay' = [relay EXCEPT !.pending = Append(@, l), !.visible = @ \/ l = "tool"]
          /\ UNCHANGED <<exc, response, pc, todo>>

ReadLine(l) ==
    /\ pc = "read" /\ response = "open" /\ ~cancelled
    /\ source.lines < MaxLines
    /\ (l = "sep") <=> source.open
    /\ source' = [lines |-> source.lines + 1, open |-> (l = "head")]
    /\ PassLine(l) \/ HoldLine(l) \/ ConvertLine(l)
    /\ UNCHANGED <<plan, try, written, armed, started, wire, direct, ending, env>>

(* The stream ends without an error.  The compatibility relay completes a   *)
(* response if the tool calls it holds back are complete.                   *)
ReadEnds ==
    /\ pc = "read" /\ ~cancelled
    /\ \/ /\ plan.kind = "official"
          /\ IF Deferring THEN Raise("ended") /\ response' = "closed" /\ UNCHANGED ending
             ELSE Goto("relayEnds") /\ ending' = "eof" /\ UNCHANGED <<exc, response>>
          /\ UNCHANGED relay
       \/ /\ plan.kind = "transparent"
          /\ Write(IF relay.headers \/ relay.pending = <<>> THEN <<>> ELSE <<"headers">> \o relay.pending,
                   "relayEnds", "relayEnds")
          /\ ending' = "eof" /\ UNCHANGED <<exc, response, relay>>
       \/ /\ plan.kind \in {"compat", "web"} /\ UNCHANGED ending
          /\ \/ /\ relay.visible /\ ~relay.output
                /\ Write(relay.pending \o <<"done">>, "adapterEnds", "relayEnds")
                /\ relay' = Cleared /\ UNCHANGED <<exc, response>>
             \/ ConvertedFailure("ended", "errorEvent")
    /\ UNCHANGED <<plan, try, written, armed, started, source, seam, wire, direct, env>>

(* commit_terminal_failure: the pending frame is completed, then response.failed *)
TerminalFailure == IF seam.frame = "terminal" THEN <<"completion", "failed">> ELSE <<"failed">>

(* What the three relays make of a read that fails *)
StreamFailure ==
    \/ /\ plan.kind \in {"official", "transparent"}
       /\ UNCHANGED relay
       /\ IF seam.closed THEN Goto("relayEnds") /\ UNCHANGED <<exc, response>>
          ELSE IF Deferring THEN Raise("interrupted") /\ response' = "closed"
          ELSE Write(TerminalFailure, "relayEnds", "relayEnds") /\ UNCHANGED <<exc, response>>
    \/ plan.kind \in {"compat", "web"} /\ ConvertedFailure("interrupted", "errorEvent")

ReadFails ==
    /\ pc = "read" /\ ~cancelled
    /\ StreamFailure
    /\ UNCHANGED <<plan, try, written, armed, started, source, seam, wire, direct, ending, env>>

(* The poll for cancellation.  _observed_cancellation of the official relay *)
(* reads a name it does not have; the read that fails first does not poll.  *)
ReadCancelled ==
    /\ pc = "read" /\ cancelled
    /\ response' = "closed"
    /\ \/ plan.kind = "official" /\ Raise("nameError") /\ UNCHANGED seam
       \/ plan.kind = "official" /\ seam.terminal /\ Goto("relayEnds") /\ UNCHANGED <<exc, seam>>
       \/ plan.kind = "transparent" /\ seam' = [seam EXCEPT !.closed = TRUE] /\ Goto("relayEnds") /\ UNCHANGED exc
       \/ plan.kind \in {"compat", "web"} /\ Raise("shutdown") /\ UNCHANGED seam
    /\ UNCHANGED <<plan, try, written, armed, started, source, relay, wire, direct, ending, env>>

(* _ThirdPartyApplyPatchStreamAdapter.finish may reject what was relayed *)
AdapterEnds ==
    /\ pc = "adapterEnds"
    /\ \/ Goto("relayEnds") /\ UNCHANGED <<exc, response>>
       \/ Raise("translation") /\ response' = "closed"
    /\ UNCHANGED <<plan, try, written, armed, started, source, seam, relay, wire, direct, ending, env>>

RelayEnds ==
    /\ pc = "relayEnds"
    /\ response' = "closed" /\ Goto("done")
    /\ UNCHANGED <<plan, exc, try, written, armed, started, source, seam, relay, wire, direct, ending, env>>

-----------------------------------------------------------------------------
(* DownstreamStreamCommit: the writes of todo                              *)

Item == Head(todo.items)
TerminalItems == {"done", "sep", "completion", "failed", "errorEvent", "error"}

(* What the client sees of an item: "begun" is a terminal event that lacks its end *)
OnWire(item) == IF item \in TerminalItems THEN "terminal" ELSE IF item = "head" THEN "begun" ELSE "data"

Proceed == Write(Tail(todo.items), todo.then, todo.else)

(* send_downstream_headers_once of a relay also marks the stream as started *)
HeadersAreOut ==
    LET ofRelay == todo.then \in {"read", "relayEnds"} IN
    /\ relay' = [relay EXCEPT !.headers = @ \/ ofRelay]
    /\ started' = (started \/ ofRelay)

CommitHeaders ==
    /\ pc = "write" /\ Item = "headers"
    /\ seam.headers \/ ~seam.closed
    /\ seam' = [seam EXCEPT !.headers = TRUE]
    /\ wire' = IF seam.headers THEN wire ELSE Append(wire, "headers")
    /\ HeadersAreOut /\ Proceed
    /\ UNCHANGED <<plan, exc, try, written, armed, response, source, direct, ending, env>>

(* Mutant: a terminal event does not seal the stream *)
CommitWithoutSealing ==
    /\ pc = "write" /\ Item \notin {"headers", "huge"} /\ ~seam.closed
    /\ seam' = [seam EXCEPT !.output = TRUE, !.terminal = @ \/ Item \in TerminalItems]
    /\ wire' = Append(wire, OnWire(Item))
    /\ Proceed
    /\ UNCHANGED <<plan, exc, try, written, armed, started, response, source, relay, direct, ending, env>>

(* commit_data, commit_sse_bytes, and the raw completion of a pending frame, *)
(* the one write that puts a terminal event on the wire without sealing it   *)
CommitBytes ==
    LET seals == Item \in TerminalItems \ {"completion"} IN
    /\ pc = "write" /\ Item \notin {"headers", "huge"}
    /\ ~seam.closed
    /\ seam' = [seam EXCEPT !.output = @ \/ Item # "completion",
                            !.terminal = @ \/ seals,
                            !.closed = @ \/ seals,
                            !.frame = IF Item = "head" THEN "terminal" ELSE "clean"]
    /\ wire' = Append(wire, OnWire(Item))
    /\ Proceed
    /\ UNCHANGED <<plan, exc, try, written, armed, started, response, source, relay, direct, ending, env>>

(* Mutant: the failed write leaves the upstream open *)
FailWithoutRelease ==
    /\ pc = "write" /\ ~client /\ Item # "huge" /\ ~seam.closed
    /\ seam' = [seam EXCEPT !.closed = TRUE] /\ Goto(todo.else)
    /\ UNCHANGED <<plan, exc, try, written, armed, started, response, source, relay, wire, direct, ending, env>>

(* The write raises OSError, which only a client that left can cause: close() *)
CommitFails ==
    /\ pc = "write" /\ ~client /\ Item # "huge"
    /\ ~seam.closed /\ ~(Item = "headers" /\ seam.headers)
    /\ seam' = [seam EXCEPT !.closed = TRUE]
    /\ response' = IF response = "open" THEN "closed" ELSE response
    /\ Goto(todo.else)
    /\ UNCHANGED <<plan, exc, try, written, armed, started, source, relay, wire, direct, ending, env>>

(* Mutant: the writer waits for a closed stream to accept its bytes *)
WaitForClosedStream == pc = "write" /\ seam.closed /\ UNCHANGED vars

CommitRefused ==
    /\ pc = "write" /\ seam.closed
    /\ ~(Item = "headers" /\ seam.headers)
    /\ Goto(todo.else)
    /\ UNCHANGED <<plan, exc, try, written, armed, started, response, source, seam, relay, wire, direct, ending, env>>

(* SseFrameTooLargeError of _observe_line: only the passthrough relays catch it *)
FrameTooLarge ==
    /\ pc = "write" /\ Item = "huge" /\ ~seam.closed
    /\ IF plan.kind \in {"official", "transparent"}
       THEN Write(TerminalFailure, "relayEnds", "relayEnds") /\ UNCHANGED <<exc, response>>
       ELSE Raise("tooLarge") /\ response' = "closed"
    /\ UNCHANGED <<plan, try, written, armed, started, source, seam, relay, wire, direct, ending, env>>

-----------------------------------------------------------------------------
(* execute_exchange: what becomes of an exception                          *)

(* The failure classes a retryable exception can have *)
RelayLimits(e) ==
    LET most == AttemptsFor(plan.relays, e # "incomplete")
        limits == IF e = "errorEvent" THEN {most, plan.relays} ELSE {most}
    IN IF e = "empty" THEN {IF n < 2 THEN n ELSE 2 : n \in limits} ELSE limits

RetryRelay ==
    /\ pc = "raised" /\ exc \in RelayRetryable /\ ~cancelled
    /\ ~RelaySuppressed(exc)
    /\ \E limit \in RelayLimits(exc) :
          /\ try.relay < limit
          /\ try' = [try EXCEPT !.relayLimit = limit]
    /\ Write(IF plan.notice THEN NoticeItems ELSE <<>>, "relayWait", "done")
    /\ UNCHANGED <<plan, exc, written, armed, started, response, source, seam, relay, wire, direct, ending, env>>

(* Mutant: an empty completion ends the exchange without a word *)
GiveUpSilently ==
    /\ pc = "raised" /\ exc \in RelayRetryable /\ ~cancelled
    /\ Goto(IF RelaySuppressed(exc) /\ exc = "empty" THEN "done" ELSE "dispatch")
    /\ UNCHANGED <<plan, exc, try, written, armed, started, response, source, seam, relay, wire, direct, ending, env>>

(* The attempts are used up, the failure is permanent, or time has run out *)
GiveUpRelay ==
    /\ pc = "raised" /\ exc \in RelayRetryable /\ ~cancelled
    /\ IF RelaySuppressed(exc) /\ exc = "empty"
       THEN Write(IF Exposed THEN <<"failed">> ELSE <<"headers", "failed">>, "done", "done")
       ELSE /\ RelaySuppressed(exc) \/ exc # "incomplete" \/ \E n \in RelayLimits(exc) : try.relay >= n
            /\ Goto("dispatch")
    /\ UNCHANGED <<plan, exc, try, written, armed, started, response, source, seam, relay, wire, direct, ending, env>>

RelayAgain ==
    /\ pc = "relayWait"
    /\ IF cancelled THEN Raise("shutdown") /\ UNCHANGED try
       ELSE try' = [try EXCEPT !.relay = @ + 1] /\ Goto("enter") /\ UNCHANGED exc
    /\ started' = (started \/ plan.notice)
    /\ UNCHANGED <<plan, written, armed, response, source, seam, relay, wire, direct, ending, env>>

ProtocolFallback ==
    /\ pc = "raised" /\ exc \in HttpErrors
    /\ try.route < plan.routes /\ ~started /\ ~RelaySuppressed(exc)
    /\ try' = [try EXCEPT !.route = @ + 1, !.relay = 1, !.relayLimit = plan.relays]
    /\ Goto("enter")
    /\ UNCHANGED <<plan, exc, written, armed, started, response, source, seam, relay, wire, direct, ending, env>>

Propagate ==
    /\ pc = "raised"
    /\ exc \notin RelayRetryable \/ cancelled
    /\ exc' = IF exc \in RelayRetryable THEN "shutdown" ELSE exc
    /\ Goto("dispatch")
    /\ UNCHANGED <<plan, try, written, armed, started, response, source, seam, relay, wire, direct, ending, env>>

-----------------------------------------------------------------------------
(* dispatch_proxy_post_exception                                           *)

ShutdownOutcome == exc = "shutdown" \/ cancelled

(* These branches send JSON whether or not the SSE stream was started *)
AlwaysJson == exc \in {"budget", "tooLarge"} /\ ~ShutdownOutcome

DispatchSse ==
    /\ pc = "dispatch" /\ started /\ ~AlwaysJson
    /\ Write(<<"errorEvent">>, "done", "done")
    /\ UNCHANGED <<plan, exc, try, written, armed, started, response, source, seam, relay, wire, direct, ending, env>>

DispatchJson ==
    /\ pc = "dispatch"
    /\ AlwaysJson \/ (~started /\ (exc \notin HttpErrors \/ ShutdownOutcome))
    /\ \/ direct' = <<"json">>
       \/ ~client /\ UNCHANGED direct
    /\ Goto("done")
    /\ UNCHANGED <<plan, exc, try, written, armed, started, response, source, seam, relay, wire, ending, env>>

(* The upstream's error response is relayed: headers through the seam, then *)
(* a body that is not a stream                                              *)
DispatchHttpError ==
    /\ pc = "dispatch" /\ ~started /\ exc \in HttpErrors /\ ~ShutdownOutcome
    /\ ending' = "http"
    /\ Write(<<"headers">>, "done", "done")
    /\ UNCHANGED <<plan, exc, try, written, armed, started, response, source, seam, relay, wire, direct, env>>

-----------------------------------------------------------------------------
(* The client, a shutdown and the clock                                    *)

ClientLeaves ==
    /\ client /\ client' = FALSE
    /\ UNCHANGED <<plan, pc, exc, try, written, armed, started, response, source, seam, relay, todo, wire, direct, ending, cancelled, deadline>>

Cancel ==
    /\ ~cancelled /\ pc # "done" /\ cancelled' = TRUE
    /\ response' = IF response = "open" THEN "closed" ELSE response
    /\ UNCHANGED <<plan, pc, exc, try, written, armed, started, source, seam, relay, todo, wire, direct, ending, client, deadline>>

DeadlinePasses ==
    /\ deadline = "running" /\ deadline' = "expired"
    /\ UNCHANGED <<plan, pc, exc, try, written, armed, started, response, source, seam, relay, todo, wire, direct, ending, client, cancelled>>

Open == EnterOpen \/ StartOpen \/ OpenSucceeds \/ OpenAgain \/ \E e \in OpenErrors : OpenFails(e)

Relay ==
    \/ StartRelay \/ ReadEnds \/ ReadFails \/ ReadCancelled \/ AdapterEnds \/ RelayEnds
    \/ \E l \in Lines : ReadLine(l)

Commit == CommitHeaders \/ CommitBytes \/ CommitFails \/ CommitRefused \/ FrameTooLarge

Handle == RetryRelay \/ GiveUpRelay \/ RelayAgain \/ ProtocolFallback \/ Propagate
          \/ DispatchSse \/ DispatchJson \/ DispatchHttpError

Handler == Open \/ Relay \/ Commit \/ Handle

Environment == ClientLeaves \/ Cancel \/ DeadlinePasses

Next == Handler \/ Environment

Spec == Init /\ [][Next]_vars

(* Every wait of the handler thread has a timeout, so it always goes on *)
FairSpec == Spec /\ WF_vars(Handler)

-----------------------------------------------------------------------------
Labels == {"enter", "open", "opening", "openWait", "relay", "read", "write", "adapterEnds", "relayEnds",
           "raised", "relayWait", "dispatch", "done", "none"}
Writes == LineKinds \cup {"headers", "notice", "completion", "failed", "errorEvent"}

(* No counter of an attempt exceeds the limit in force for it *)
TypeOK ==
    /\ plan \in Plans /\ RealPlan(plan)
    /\ pc \in Labels /\ exc \in Exceptions
    /\ try.route \in 1 .. plan.routes
    /\ try.relay \in 1 .. try.relayLimit
    /\ try.open \in 1 .. OpenLimit("httpTransient")
    /\ try.begun \in Nat
    /\ deadline \in {"none", "running", "expired"}
    /\ response \in {"none", "open", "closed"}
    /\ source.lines \in 0 .. MaxLines
    /\ {written, armed, started, client, cancelled, source.open} \subseteq BOOLEAN
    /\ seam \in [headers : BOOLEAN, output : BOOLEAN, exposed : BOOLEAN, terminal : BOOLEAN, closed : BOOLEAN,
                 frame : {"clean", "terminal"}]
    /\ relay \in [defer : BOOLEAN, headers : BOOLEAN, pending : Seq(LineKinds), output : BOOLEAN, visible : BOOLEAN]
    /\ todo.items \in Seq(Writes) /\ {todo.then, todo.else} \subseteq Labels
    /\ direct \in {<<>>, <<"json">>} /\ ending \in {"none", "eof", "http"}

(* The client's side: what the seam and the dispatcher sent it, in order *)
Stream == INSTANCE StreamCommit WITH sent <- wire \o direct, over <- seam.closed \/ direct # <<>>

(***************************************************************************)
(* Whatever is retried, relayed, converted, failed or cancelled, what the  *)
(* client is sent, by the seam and by the dispatcher past it, is a stream  *)
(* of StreamCommit: the promise of DownstreamStreamCommit with the two     *)
(* ways in which the code breaks it named there, a cut terminal event that *)
(* commit_terminal_failure completes and then follows by another one, and  *)
(* a JSON answer inside a begun stream.                                    *)
(***************************************************************************)
StreamIsCommitted == Stream!Spec

(* A step that hands the request to an upstream *)
AsksUpstream == pc # "opening" /\ pc' = "opening"

(***************************************************************************)
(* A main-generation POST to a third party is sent again only if the first *)
(* one was provably not written or the path is idempotent, and never once  *)
(* its content was exposed: neither the retries inside                     *)
(* _open_upstream_response, nor those of execute_exchange, nor the         *)
(* protocol fallback generate twice.  Whatever the route, no upstream is   *)
(* asked again once a byte of an earlier answer went to the client, other  *)
(* than a retry notice; the client would see two answers.                  *)
(***************************************************************************)
NoUnsafeReplay ==
    [][AsksUpstream =>
          /\ GuardedPost => (~written \/ plan.idempotent) /\ ~seam.exposed
          /\ seam.output => plan.notice]_vars

(***************************************************************************)
(* The open-attempt budget holds across the two nested retry loops: a turn *)
(* handed to the ChatGPT-web runtime is not replayed, and an official      *)
(* request is not sent more often than configured; and no counter of an    *)
(* attempt exceeds the limit in force for it (TypeOK).                     *)
(***************************************************************************)
OpensWithinBudget == TypeOK /\ (plan.budget > 0 => try.begun <= plan.budget)

(***************************************************************************)
(* Both together: the nested retry loops and the protocol fallback ask an  *)
(* upstream neither too often nor when an earlier attempt may have been    *)
(* served.                                                                 *)
(***************************************************************************)
ReplaysAreSafe == []OpensWithinBudget /\ NoUnsafeReplay

(***************************************************************************)
(* An upstream response is not left generating for nobody: it is released  *)
(* when the request is cancelled, when the client is found gone, and when  *)
(* the request ends on any path.                                           *)
(***************************************************************************)
UpstreamIsReleased ==
    response = "open" => ~cancelled /\ pc # "done" /\ (seam.closed => seam.terminal)

(* The deadline and frame-limit branches of the dispatcher answer with a second *)
(* HTTP head and JSON although the SSE stream was started                       *)
AnsweredIntoStream == started /\ exc \in {"budget", "tooLarge"}

(***************************************************************************)
(* A client that stayed is told how its request ended in a form it can     *)
(* read, on every error path of relay, retry and dispatch: by a terminal   *)
(* event, by a JSON answer to a request that was not answered otherwise,   *)
(* or by the upstream's error response.  There are two exceptions: the     *)
(* upstream itself ended a passthrough stream without a terminal event,    *)
(* and the two branches of dispatch_proxy_post_exception that do not look  *)
(* at downstream_sse_started, whose JSON lands inside the stream.          *)
(***************************************************************************)
ClientIsTold ==
    pc = "done" /\ client /\ ~cancelled /\ ending # "eof" =>
        \/ wire = <<>> /\ direct = <<"json">>
        \/ wire # <<>> /\ direct = <<>> /\ (ending = "http" \/ wire[Len(wire)] = "terminal")
        \/ wire # <<>> /\ direct = <<"json">> /\ AnsweredIntoStream

(***************************************************************************)
(* Every request ends, whatever upstream, client and shutdown do.          *)
(***************************************************************************)
RequestEnds == <>(pc = "done")
=============================================================================
