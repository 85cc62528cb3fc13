----------------------- MODULE GatewayExchange_proofs -----------------------
(***************************************************************************)
(* Proofs about GatewayExchange, for any number of attempts, any plan and  *)
(* upstream streams of any length: attempts stay within their limits and   *)
(* repeat nothing that may have been served, the upstream is released, the *)
(* client is told how its request ended, and what it is sent is a stream   *)
(* of StreamCommit, which names the two ways in which the code falls short *)
(* of its promise.                                                         *)
(***************************************************************************)
EXTENDS GatewayExchange, SequenceTheorems, TLAPS

(***************************************************************************)
(* The handler is at label, or goes there when its writes are made.        *)
(***************************************************************************)
At(label) == pc = label \/ (pc = "write" /\ todo.then = label)

Tries == [route : Nat, relay : Nat, relayLimit : Nat, open : Nat, openLimit : Nat, begun : Nat]
Seams == [headers : BOOLEAN, output : BOOLEAN, exposed : BOOLEAN, terminal : BOOLEAN, closed : BOOLEAN,
          frame : {"clean", "terminal"}]
Relays == [defer : BOOLEAN, headers : BOOLEAN, pending : Seq(LineKinds), output : BOOLEAN, visible : BOOLEAN]
Todos == [items : Seq(Writes), then : {"openWait", "relayWait", "read", "adapterEnds", "relayEnds", "done", "none"},
          else : {"relayEnds", "done", "none"}]

(* The shapes of the records, which TypeOK leaves open in part *)
Shapes ==
    /\ plan \in Plans /\ RealPlan(plan)
    /\ pc \in Labels \ {"none"} /\ exc \in Exceptions
    /\ try \in Tries
    /\ deadline \in {"none", "running", "expired"}
    /\ response \in {"none", "open", "closed"}
    /\ source \in [lines : 0 .. MaxLines, open : BOOLEAN]
    /\ written \in BOOLEAN /\ armed \in BOOLEAN /\ started \in BOOLEAN
    /\ client \in BOOLEAN /\ cancelled \in BOOLEAN
    /\ seam \in Seams /\ relay \in Relays /\ todo \in Todos
    /\ wire \in Seq({"headers", "data", "begun", "terminal"})
    /\ ending \in {"none", "eof", "http"}
    /\ direct \in {<<>>, <<"json">>}

(* What is still to be written, and where a write that fails leads *)
WriteIsPlanned ==
    pc = "write" =>
        /\ todo.items # <<>>
        /\ todo.then # "none"
        /\ todo.else = IF todo.then \in {"read", "adapterEnds", "relayEnds"} THEN "relayEnds" ELSE "done"
        /\ todo.then \in {"openWait", "relayWait"} => plan.notice

(***************************************************************************)
(* Attempts and their limits                                               *)
(***************************************************************************)
CountersInLimits ==
    /\ try.route \in 1 .. plan.routes
    /\ try.relay \in 1 .. try.relayLimit
    /\ At("relayWait") => try.relay < try.relayLimit
    /\ try.open \in 1 .. OpenLimit("httpTransient")
    /\ At("openWait") => try.open < OpenLimit("httpTransient")
    /\ plan.budget > 0 =>
        /\ try.begun <= plan.budget
        /\ pc = "open" => try.begun + try.openLimit - try.open < plan.budget
        /\ pc = "opening" \/ At("openWait") => try.begun + try.openLimit - try.open <= plan.budget

(***************************************************************************)
(* Replays.  Nothing but a retry notice went out before a request is made  *)
(* again, because the relays hold their output back while they may retry.  *)
(***************************************************************************)
Clean == ~seam.output \/ plan.notice

HeldBack == IF plan.kind \in {"official", "transparent"} THEN ~relay.headers ELSE ~relay.output

CleanUntilServed ==
    /\ pc \in {"enter", "open", "opening", "openWait", "relay", "relayWait"} => Clean
    /\ pc = "raised" /\ exc \in RelayRetryable \cup HttpErrors => Clean
    /\ At("read") /\ HeldBack => Clean
    /\ pc = "write" /\ todo.then = "read" /\ HeldBack =>
           \/ Head(todo.items) = "headers" /\ (plan.kind \in {"compat", "web"} => Len(todo.items) = 1)
           \/ plan.kind \in {"compat", "web"} /\ Head(todo.items) = "huge"

GuardedOnce ==
    GuardedPost =>
        /\ ~At("relayWait")
        /\ pc \in {"enter", "open", "opening"} \/ At("openWait") => (~written \/ plan.idempotent) /\ ~seam.exposed

(***************************************************************************)
(* The upstream response belongs to the relay.                             *)
(***************************************************************************)
OpenIsRelayed ==
    response = "open" =>
        /\ ~cancelled
        /\ seam.closed => seam.terminal
        /\ pc = "relay" \/ At("read") \/ At("adapterEnds") \/ At("relayEnds")

(***************************************************************************)
(* How the client learns of the end                                        *)
(***************************************************************************)
Present == client /\ ~cancelled

LastItem == todo.items[Len(todo.items)]

TerminalSent == wire # <<>> /\ wire[Len(wire)] = "terminal"

EndIsTold ==
    /\ seam.headers => wire # <<>>
    /\ pc # "done" => direct = <<>>
    /\ seam.closed /\ Present => TerminalSent
    /\ pc = "write" /\ todo.then = "adapterEnds" => LastItem = "done"
    /\ pc = "write" /\ todo.then = "relayEnds" => LastItem \in {"failed", "errorEvent"} \/ ending = "eof"
    /\ pc = "write" /\ todo.then = "done" =>
           LastItem \in {"failed", "errorEvent"} \/ (ending = "http" /\ todo.items = <<"headers">>)
    /\ pc = "adapterEnds" /\ Present => seam.closed
    /\ pc = "relayEnds" /\ Present => seam.closed \/ ending = "eof"
    /\ ClientIsTold

(***************************************************************************)
(* The stream starts with its headers.                                     *)
(***************************************************************************)
HeadersLead ==
    /\ seam.headers <=> wire # <<>>
    /\ started \/ Exposed => seam.headers
    /\ pc \in {"openWait", "relayWait"} /\ plan.notice => seam.headers
    /\ pc = "read" => (relay.headers \/ ~relay.defer \/ plan.kind \in {"compat", "web"} => seam.headers)
    /\ pc = "write" => Head(todo.items) = "headers" \/ seam.headers

(***************************************************************************)
(* A stream that is not marked as started has nothing on the wire, but for *)
(* a retry notice or an answer of the dispatcher.                          *)
(***************************************************************************)
Compat == plan.kind \in {"compat", "web"}

StartIsMarked ==
    /\ At("adapterEnds") => started
    /\ pc = "read" /\ Compat => started
    /\ pc = "write" /\ todo.then = "read" /\ Compat => Head(todo.items) = "headers" \/ started
    /\ At("read") => (relay.headers <=> started)
    /\ ~started /\ wire # <<>> => (plan.notice /\ (At("openWait") \/ At("relayWait"))) \/ At("done")

(***************************************************************************)
(* What is written on the way to each label: a completion only for a       *)
(* terminal event that was cut off, and nothing that seals the stream      *)
(* before the compatibility relay reads on or a request is made again.     *)
(***************************************************************************)
Unsealing == Writes \ TerminalItems

ItemsServe ==
    /\ pc = "write" =>
        /\ todo.then \in {"openWait", "relayWait"} => todo.items \in Seq({"headers", "notice"})
        /\ todo.then = "done" => todo.items \in Seq({"headers", "failed", "errorEvent"})
        /\ Compat /\ todo.then = "read" => todo.items \in Seq(Unsealing)
        /\ \/ todo.items \in Seq(Writes \ {"completion"})
           \/ todo.items = <<"completion", "failed">> /\ seam.frame = "terminal" /\ todo.then = "relayEnds"
    /\ Compat /\ At("read") => ~source.open /\ relay.pending \in Seq(Unsealing)

(***************************************************************************)
(* Nobody asks an upstream again, or answers with JSON, once the stream is *)
(* closed.                                                                 *)
(***************************************************************************)
SealIsFinal ==
    /\ pc \in {"enter", "open", "opening", "relay"} \/ At("openWait") \/ At("relayWait") => ~seam.closed
    /\ pc \in {"raised", "dispatch"} /\ seam.closed => exc \in {"translation", "nameError", "shutdown"}
    /\ Compat /\ At("read") => ~seam.closed
    /\ seam.closed /\ wire = <<>> => pc \in {"relayEnds", "done"}

(***************************************************************************)
(* A terminal event that was completed is followed by one write, another   *)
(* terminal event.                                                         *)
(***************************************************************************)
CutIsCompleted ==
    /\ seam.frame = "terminal" => wire # <<>> /\ wire[Len(wire)] = "begun"
    /\ ~seam.closed /\ TerminalSent => pc = "write" /\ todo.items = <<"failed">>

-----------------------------------------------------------------------------
(* Plans *)

LEMMA PlanFacts ==
  ASSUME plan \in Plans, RealPlan(plan)
  PROVE  /\ plan.kind \in Kinds /\ plan.main \in BOOLEAN /\ plan.idempotent \in BOOLEAN /\ plan.notice \in BOOLEAN
         /\ plan.opens \in Nat \ {0} /\ plan.relays \in Nat \ {0} /\ plan.budget \in Nat /\ plan.expansion \in Nat
         /\ plan.retryHttp \in BOOLEAN /\ plan.routes \in {1, 2}
         /\ plan.notice => plan.kind = "compat"
<1>0. NoticeChoices \subseteq BOOLEAN
  BY ConstantsAssumption, Zenon DEF NoticeChoices
<1>1. PICK k \in Kinds, m \in BOOLEAN, i \in BOOLEAN, n \in NoticeChoices : plan = PlanFor(k, m, i, n)
  BY DEF Plans
<1>2. n \in BOOLEAN
  BY <1>0
<1>3. /\ plan.kind = k /\ plan.main = m /\ plan.idempotent = i /\ plan.notice = n
      /\ plan.retryHttp = (k \in {"transparent", "compat"})
  BY <1>1 DEF PlanFor
<1>4. plan.opens \in Nat \ {0} /\ plan.expansion \in Nat /\ plan.routes \in {1, 2}
  BY <1>1, ConstantsAssumption DEF PlanFor
<1>5. plan.relays \in Nat \ {0} /\ plan.budget \in Nat
  BY <1>1, ConstantsAssumption DEF PlanFor, Kinds
<1>. QED
  BY <1>2, <1>3, <1>4, <1>5 DEF RealPlan

(* No step changes the plan *)
LEMMA PlanIsFixed ==
  ASSUME [Next]_vars
  PROVE  plan' = plan
  BY DEF Next, Handler, Environment, Open, Relay, Commit, Handle, EnterOpen, StartOpen, OpenSucceeds, OpenAgain, OpenFails,
         StartRelay, ReadEnds, ReadFails, ReadCancelled, AdapterEnds, RelayEnds, ReadLine, CommitHeaders, CommitBytes,
         CommitFails, CommitRefused, FrameTooLarge, RetryRelay, GiveUpRelay, RelayAgain, ProtocolFallback, Propagate,
         DispatchSse, DispatchJson, DispatchHttpError, ClientLeaves, Cancel, DeadlinePasses, vars

-----------------------------------------------------------------------------
(* Shapes *)

Thens == {"openWait", "relayWait", "read", "adapterEnds", "relayEnds", "done"}
Elses == {"relayEnds", "done"}

(* Where the handler goes: on with its work, or to a run of writes *)
LEMMA WriteShape ==
  ASSUME NEW items \in Seq(Writes), NEW then \in Thens, NEW else \in Elses, Write(items, then, else)
  PROVE  pc' \in Labels \ {"none"} /\ todo' \in Todos
  BY DEF Write, Goto, Todos, Labels, Thens, Elses

LEMMA GotoShape ==
  ASSUME NEW label \in Labels \ {"none"}, Goto(label)
  PROVE  pc' \in Labels \ {"none"} /\ todo' \in Todos
  BY DEF Goto, Todos, Labels

LEMMA RaiseShape ==
  ASSUME NEW e \in Exceptions, Raise(e)
  PROVE  pc' \in Labels \ {"none"} /\ todo' \in Todos /\ exc' \in Exceptions
  BY GotoShape DEF Raise, Labels

(* What a notice, a failure or a held-back line is made of *)
LEMMA ItemShapes ==
  ASSUME Shapes
  PROVE  /\ NoticeItems \in Seq(Writes) /\ TerminalFailure \in Seq(Writes) /\ HeadersFirst \in Seq(Writes)
         /\ relay.pending \in Seq(Writes)
<1>0. /\ <<>> \in Seq(Writes) /\ <<"headers">> \in Seq(Writes) /\ <<"notice">> \in Seq(Writes)
      /\ <<"headers", "notice">> \in Seq(Writes) /\ <<"failed">> \in Seq(Writes) /\ <<"completion">> \in Seq(Writes)
  BY DEF Writes
<1>1. NoticeItems \in Seq(Writes)
  BY <1>0, Zenon DEF NoticeItems
<1>2. TerminalFailure \in Seq(Writes)
  <2>1. (IF seam.frame = "terminal" THEN <<"completion">> ELSE <<>>) \in Seq(Writes)
    BY <1>0, Zenon
  <2>. QED
    BY <1>0, <2>1, ConcatProperties DEF TerminalFailure
<1>3. HeadersFirst \in Seq(Writes)
  BY <1>0, Zenon DEF HeadersFirst
<1>4. relay.pending \in Seq(Writes)
  <2>1. LineKinds \subseteq Writes /\ relay.pending \in Seq(LineKinds)
    BY DEF Shapes, Relays, Writes
  <2>. QED
    BY <2>1
<1>. QED
  BY <1>1, <1>2, <1>3, <1>4

LEMMA OpenShape ==
  ASSUME Shapes, Open
  PROVE  Shapes'
<1>. USE ConstantsAssumption, PlanFacts DEF Shapes, Tries, env, OpenErrors, Exceptions
<1>1. CASE EnterOpen
  <2>1. UNCHANGED <<plan, written, started, response, source, seam, relay, wire, direct, ending, env>> /\ armed' \in BOOLEAN
    BY <1>1 DEF EnterOpen
  <2>2. CASE plan.budget > 0 /\ try.begun >= plan.budget
    <3>1. Raise("budget") /\ try' = try
      BY <1>1, <2>2 DEF EnterOpen
    <3>. QED
      BY <2>1, <3>1, RaiseShape
  <2>3. CASE ~(plan.budget > 0 /\ try.begun >= plan.budget)
    <3>1. Goto("open") /\ exc' = exc
      BY <1>1, <2>3 DEF EnterOpen
    <3>2. PICK limit \in Nat : try' = [try EXCEPT !.open = 1, !.openLimit = limit]
      <4>. DEFINE left == plan.budget - try.begun
                  limit == IF plan.budget > 0 /\ left < plan.opens THEN left ELSE plan.opens
      <4>1. limit \in Nat
        BY <2>3
      <4>2. try' = [try EXCEPT !.open = 1, !.openLimit = limit]
        BY <1>1, <2>3 DEF EnterOpen
      <4>. HIDE DEF limit
      <4>. QED
        BY <4>1, <4>2
    <3>3. try' \in Tries
      BY <3>2
    <3>. QED
      BY <2>1, <3>1, <3>3, GotoShape DEF Labels
  <2>. QED
    BY <2>2, <2>3
<1>2. CASE StartOpen
  <2>1. UNCHANGED <<plan, written, armed, started, response, source, seam, relay, wire, direct, ending, env>>
    BY <1>2 DEF StartOpen
  <2>2. \/ \E x \in {"shutdown", "budget"} : Raise(x) /\ try' = try
        \/ /\ try' = [try EXCEPT !.begun = IF plan.budget > 0 THEN @ + 1 ELSE @] /\ Goto("opening") /\ exc' = exc
    BY <1>2 DEF StartOpen
  <2>3. try' \in Tries
    <3>1. (IF plan.budget > 0 THEN try.begun + 1 ELSE try.begun) \in Nat
      OBVIOUS
    <3>2. CASE try' = try
      BY <3>2
    <3>3. CASE try' = [try EXCEPT !.begun = IF plan.budget > 0 THEN @ + 1 ELSE @]
      BY <3>1, <3>3
    <3>. QED
      BY <2>2, <3>2, <3>3
  <2>4. pc' \in Labels \ {"none"} /\ todo' \in Todos /\ exc' \in Exceptions
    BY <2>2, RaiseShape, GotoShape DEF Labels
  <2>. QED
    BY <2>1, <2>3, <2>4
<1>3. CASE OpenSucceeds
  BY <1>3, RaiseShape, GotoShape, SMTT(30) DEF OpenSucceeds, Labels
<1>4. CASE OpenAgain
  <2>1. /\ UNCHANGED <<plan, written, armed, response, source, seam, relay, wire, direct, ending, env>>
        /\ started' \in BOOLEAN
    BY <1>4 DEF OpenAgain
  <2>2. \/ Raise("shutdown") /\ try' = try
        \/ try' = [try EXCEPT !.open = @ + 1] /\ Goto("open") /\ exc' = exc
    BY <1>4 DEF OpenAgain
  <2>3. try' \in Tries
    BY <2>2, SMTT(30)
  <2>4. pc' \in Labels \ {"none"} /\ todo' \in Todos /\ exc' \in Exceptions
    BY <2>2, RaiseShape, GotoShape DEF Labels
  <2>. QED
    BY <2>1, <2>3, <2>4
<1>5. ASSUME NEW e \in OpenErrors, OpenFails(e) PROVE Shapes'
  <2>1. UNCHANGED <<plan, try, armed, started, response, source, seam, relay, wire, direct, ending, env>> /\ written' \in BOOLEAN
    BY <1>5 DEF OpenFails
  <2>2. \/ \E x \in Exceptions : Raise(x)
        \/ exc' = exc /\ Write(IF plan.notice THEN NoticeItems ELSE <<>>, "openWait", "done")
    BY <1>5 DEF OpenFails
  <2>3. (IF plan.notice THEN NoticeItems ELSE <<>>) \in Seq(Writes)
    BY ItemShapes
  <2>4. pc' \in Labels \ {"none"} /\ todo' \in Todos /\ exc' \in Exceptions
    BY <2>2, <2>3, RaiseShape, WriteShape DEF Thens, Elses
  <2>. QED
    BY <2>1, <2>4
<1>. QED
  BY <1>1, <1>2, <1>3, <1>4, <1>5 DEF Open

(* The edits of a relay's locals *)
LEMMA RelayEdits ==
  ASSUME NEW r \in Relays, NEW q \in Seq(LineKinds), NEW o \in BOOLEAN, NEW v \in BOOLEAN
  PROVE  /\ [r EXCEPT !.pending = q] \in Relays
         /\ [r EXCEPT !.headers = o] \in Relays
         /\ [r EXCEPT !.pending = q, !.visible = v] \in Relays
         /\ [r EXCEPT !.output = o, !.visible = v] \in Relays
         /\ [r EXCEPT !.defer = o, !.headers = v] \in Relays
  BY DEF Relays

LEMMA SeamEdits ==
  ASSUME NEW s \in Seams, NEW a \in BOOLEAN
  PROVE  /\ [s EXCEPT !.frame = "clean"] \in Seams
         /\ [s EXCEPT !.headers = a] \in Seams
         /\ [s EXCEPT !.closed = a] \in Seams
  BY DEF Seams

LEMMA RelayFields ==
  ASSUME NEW r \in Relays
  PROVE  /\ r.pending \in Seq(LineKinds) /\ r.defer \in BOOLEAN
         /\ r.output \in BOOLEAN /\ r.visible \in BOOLEAN /\ r.headers \in BOOLEAN
  BY DEF Relays

(* A failure a relay converts is raised, or is one more event *)
LEMMA ConvertedShape ==
  ASSUME Shapes, NEW e \in Exceptions, NEW item \in Writes, ConvertedFailure(e, item)
  PROVE  /\ pc' \in Labels \ {"none"} /\ todo' \in Todos /\ exc' \in Exceptions
         /\ relay' \in Relays /\ response' \in {"none", "open", "closed"}
<1>. USE DEF Shapes
<1>1. relay' \in Relays
  <2>1. <<>> \in Seq(LineKinds) /\ relay' = [relay EXCEPT !.pending = <<>>]
    BY DEF ConvertedFailure, Cleared
  <2>. QED
    BY <2>1, RelayEdits
<1>2. <<item>> \in Seq(Writes)
  OBVIOUS
<1>3. CASE Raise(e) /\ response' = "closed"
  BY <1>1, <1>3, RaiseShape
<1>4. CASE Write(<<item>>, "relayEnds", "relayEnds") /\ UNCHANGED <<exc, response>>
  BY <1>1, <1>2, <1>4, WriteShape DEF Thens, Elses
<1>. QED
  BY <1>3, <1>4 DEF ConvertedFailure

(* What the relays do with a line keeps the shapes *)
LEMMA LineShape ==
  ASSUME Shapes, NEW l \in LineKinds, PassLine(l) \/ HoldLine(l) \/ ConvertLine(l)
  PROVE  /\ pc' \in Labels \ {"none"} /\ todo' \in Todos /\ exc' \in Exceptions
         /\ seam' \in Seams /\ relay' \in Relays /\ response' \in {"none", "open", "closed"}
<1>. USE DEF Shapes
<1>0. /\ l \in Writes /\ <<l>> \in Seq(Writes) /\ <<"headers">> \in Seq(Writes) /\ <<"done">> \in Seq(Writes)
      /\ relay.pending \in Seq(Writes) /\ HeadersFirst \in Seq(Writes)
  BY ItemShapes DEF Writes, LineKinds
<1>1. CASE PassLine(l)
  <2>1. HeadersFirst \o <<l>> \in Seq(Writes)
    BY <1>0, ConcatProperties
  <2>. QED
    BY <1>1, <2>1, WriteShape DEF PassLine, Thens, Elses
<1>2. CASE HoldLine(l)
  <2>1. CASE l = "error" /\ Raise("errorEvent") /\ response' = "closed" /\ UNCHANGED relay
    BY <1>2, <2>1, RaiseShape DEF HoldLine, Exceptions, RelayRetryable
  <2>2. CASE /\ Write(<<"headers">> \o relay.pending \o <<l>>, "read", "relayEnds")
             /\ relay' = [relay EXCEPT !.pending = <<>>]
             /\ UNCHANGED <<exc, response>>
    <3>1. <<"headers">> \o relay.pending \o <<l>> \in Seq(Writes)
      BY <1>0, ConcatProperties
    <3>2. relay' \in Relays
      <4>1. <<>> \in Seq(LineKinds)
        OBVIOUS
      <4>. QED
        BY <2>2, <4>1, RelayEdits
    <3>. QED
      BY <1>2, <2>2, <3>1, <3>2, WriteShape DEF HoldLine, Thens, Elses
  <2>3. CASE relay' = [relay EXCEPT !.pending = Append(@, l)] /\ UNCHANGED <<exc, response, pc, todo>>
    <3>1. relay' \in Relays
      <4>1. Append(relay.pending, l) \in Seq(LineKinds)
        BY RelayFields
      <4>. QED
        BY <2>3, <4>1, RelayEdits
    <3>. QED
      BY <1>2, <2>3, <3>1 DEF HoldLine
  <2>. QED
    BY <1>2, <2>1, <2>2, <2>3 DEF HoldLine
<1>3. CASE ConvertLine(l)
  <2>0. Cleared \in Relays
    <3>1. <<>> \in Seq(LineKinds)
      OBVIOUS
    <3>. QED
      BY <3>1, RelayEdits DEF Cleared
  <2>1. seam' \in Seams
    BY <1>3 DEF ConvertLine, Seams
  <2>2. CASE \E e \in {"errorEvent", "empty"} : ConvertedFailure(e, "failed")
    BY <2>1, <2>2, ConvertedShape DEF Exceptions, RelayRetryable, Writes
  <2>3. CASE /\ Write(relay.pending \o <<"done">>, "adapterEnds", "relayEnds") /\ UNCHANGED <<exc, response>>
             /\ relay' = Cleared
    <3>1. relay.pending \o <<"done">> \in Seq(Writes)
      BY <1>0, ConcatProperties
    <3>2. relay' \in Relays
      BY <2>0, <2>3
    <3>. QED
      BY <2>1, <2>3, <3>1, <3>2, WriteShape DEF Thens, Elses
  <2>4. CASE /\ Write(relay.pending \o <<l>>, "read", "relayEnds") /\ UNCHANGED <<exc, response>>
             /\ relay' = [Cleared EXCEPT !.output = @ \/ l = "delta", !.visible = @ \/ l \in {"delta", "tool"}]
    <3>1. relay.pending \o <<l>> \in Seq(Writes)
      BY <1>0, ConcatProperties
    <3>2. relay' \in Relays
      <4>. DEFINE o == Cleared.output \/ l = "delta"
                  v == Cleared.visible \/ l \in {"delta", "tool"}
      <4>1. o \in BOOLEAN /\ v \in BOOLEAN
        BY <2>0, RelayFields, Zenon
      <4>2. relay' = [Cleared EXCEPT !.output = o, !.visible = v]
        BY <2>4
      <4>3. [Cleared EXCEPT !.output = o, !.visible = v] \in Relays
        <5>1. <<>> \in Seq(LineKinds)
          OBVIOUS
        <5>. HIDE DEF o, v
        <5>. QED
          BY <2>0, <4>1, <5>1, RelayEdits, Zenon
      <4>. QED
        BY <4>2, <4>3, Zenon
    <3>. QED
      BY <2>1, <2>4, <3>1, <3>2, WriteShape DEF Thens, Elses
  <2>5. CASE /\ relay' = [relay EXCEPT !.pending = Append(@, l), !.visible = @ \/ l = "tool"]
             /\ UNCHANGED <<exc, response, pc, todo>>
    <3>1. relay' \in Relays
      <4>1. Append(relay.pending, l) \in Seq(LineKinds) /\ (relay.visible \/ l = "tool") \in BOOLEAN
        BY RelayFields
      <4>. QED
        BY <2>5, <4>1, RelayEdits
    <3>. QED
      BY <2>1, <2>5, <3>1
  <2>. QED
    BY <1>3, <2>2, <2>3, <2>4, <2>5 DEF ConvertLine
<1>. QED
  BY <1>1, <1>2, <1>3

LEMMA RelayShape ==
  ASSUME Shapes, Relay
  PROVE  Shapes'
<1>. USE ConstantsAssumption, PlanFacts DEF Shapes, env
<1>0. /\ <<>> \in Seq(Writes) /\ <<"headers">> \in Seq(Writes) /\ <<"done">> \in Seq(Writes)
      /\ relay.pending \in Seq(Writes) /\ TerminalFailure \in Seq(Writes)
  BY ItemShapes DEF Writes, LineKinds
<1>1. CASE StartRelay
  <2>1. UNCHANGED <<plan, exc, try, written, armed, started, response, wire, direct, ending, env>>
    BY <1>1 DEF StartRelay
  <2>2. seam' \in Seams
    BY <1>1, SeamEdits DEF StartRelay
  <2>6. source' \in [lines : 0 .. MaxLines, open : BOOLEAN]
    BY <1>1 DEF StartRelay
  <2>3. relay' \in Relays
    <3>1. <<>> \in Seq(LineKinds)
      OBVIOUS
    <3>2. NoRelay \in Relays
      BY <3>1 DEF NoRelay, Relays
    <3>. DEFINE d == try.relay < try.relayLimit
    <3>3. relay' = [NoRelay EXCEPT !.defer = d, !.headers = started] /\ d \in BOOLEAN
      BY <1>1 DEF StartRelay
    <3>. HIDE DEF d
    <3>. QED
      BY <3>2, <3>3, <3>1, RelayEdits
  <2>4. \E items \in {<<>>, <<"headers">>} : Write(items, "read", "relayEnds")
    BY <1>1 DEF StartRelay
  <2>5. pc' \in Labels \ {"none"} /\ todo' \in Todos
    BY <1>0, <2>4, WriteShape DEF Thens, Elses
  <2>. QED
    BY <2>1, <2>2, <2>3, <2>5, <2>6
<1>2. CASE ReadEnds
  <2>1. UNCHANGED <<plan, try, written, armed, started, source, seam, wire, direct, env>>
    BY <1>2 DEF ReadEnds
  <2>2. CASE plan.kind = "official"
    BY <1>2, <2>1, <2>2, RaiseShape, GotoShape DEF ReadEnds, Exceptions, RelayRetryable, Labels
  <2>3. CASE plan.kind = "transparent"
    <3>1. (IF relay.headers \/ relay.pending = <<>> THEN <<>> ELSE <<"headers">> \o relay.pending) \in Seq(Writes)
      BY <1>0, ConcatProperties
    <3>2. /\ Write(IF relay.headers \/ relay.pending = <<>> THEN <<>> ELSE <<"headers">> \o relay.pending,
                   "relayEnds", "relayEnds")
          /\ ending' = "eof" /\ UNCHANGED <<exc, response, relay>>
      BY <1>2, <2>3 DEF ReadEnds
    <3>. QED
      BY <2>1, <3>1, <3>2, WriteShape, ZenonT(30) DEF Thens, Elses
  <2>4. CASE plan.kind \in {"compat", "web"}
    <3>1. ending' = ending
      BY <1>2, <2>4 DEF ReadEnds
    <3>2. CASE Write(relay.pending \o <<"done">>, "adapterEnds", "relayEnds") /\ relay' = Cleared /\ UNCHANGED <<exc, response>>
      <4>1. relay.pending \o <<"done">> \in Seq(Writes)
        BY <1>0, ConcatProperties
      <4>2. <<>> \in Seq(LineKinds)
        OBVIOUS
      <4>3. relay' \in Relays
        BY <3>2, <4>2, RelayEdits DEF Cleared
      <4>. QED
        BY <2>1, <3>1, <3>2, <4>1, <4>3, WriteShape, ZenonT(30) DEF Thens, Elses
    <3>3. CASE ConvertedFailure("ended", "errorEvent")
      BY <2>1, <3>1, <3>3, ConvertedShape, ZenonT(30) DEF Exceptions, RelayRetryable, Writes
    <3>. QED
      BY <1>2, <2>4, <3>2, <3>3 DEF ReadEnds
  <2>. QED
    BY <2>2, <2>3, <2>4 DEF Kinds
<1>3. CASE ReadFails
  <2>1. UNCHANGED <<plan, try, written, armed, started, source, seam, wire, direct, ending, env>>
    BY <1>3 DEF ReadFails
  <2>2. CASE ConvertedFailure("interrupted", "errorEvent")
    BY <2>1, <2>2, ConvertedShape, ZenonT(30) DEF Exceptions, RelayRetryable, Writes
  <2>3. CASE Goto("relayEnds") /\ UNCHANGED <<exc, response, relay>>
    BY <2>1, <2>3, GotoShape DEF Labels
  <2>4. CASE Raise("interrupted") /\ response' = "closed" /\ UNCHANGED relay
    BY <2>1, <2>4, RaiseShape DEF Exceptions, RelayRetryable
  <2>5. CASE Write(TerminalFailure, "relayEnds", "relayEnds") /\ UNCHANGED <<exc, response, relay>>
    BY <1>0, <2>1, <2>5, WriteShape DEF Thens, Elses
  <2>. QED
    BY <1>3, <2>2, <2>3, <2>4, <2>5 DEF ReadFails, StreamFailure
<1>4. CASE ReadCancelled
  <2>1. UNCHANGED <<plan, try, written, armed, started, source, relay, wire, direct, ending, env>> /\ response' = "closed"
    BY <1>4 DEF ReadCancelled
  <2>2. seam' \in Seams
    BY <1>4 DEF ReadCancelled, Seams
  <2>3. (\E x \in {"nameError", "shutdown"} : Raise(x)) \/ (Goto("relayEnds") /\ exc' = exc)
    BY <1>4 DEF ReadCancelled
  <2>. QED
    BY <2>1, <2>2, <2>3, RaiseShape, GotoShape DEF Exceptions, Labels
<1>5. CASE AdapterEnds
  BY <1>5, RaiseShape, GotoShape DEF AdapterEnds, Exceptions, Labels
<1>6. CASE RelayEnds
  BY <1>6, GotoShape DEF RelayEnds, Labels
<1>7. ASSUME NEW l \in Lines, ReadLine(l) PROVE Shapes'
  <2>1. UNCHANGED <<plan, try, written, armed, started, wire, direct, ending, env>> /\ l \in LineKinds
    BY <1>7 DEF ReadLine
  <2>2. source' \in [lines : 0 .. MaxLines, open : BOOLEAN]
    BY <1>7 DEF ReadLine
  <2>3. /\ pc' \in Labels \ {"none"} /\ todo' \in Todos /\ exc' \in Exceptions
        /\ seam' \in Seams /\ relay' \in Relays /\ response' \in {"none", "open", "closed"}
    BY <1>7, <2>1, LineShape DEF ReadLine
  <2>. QED
    BY <2>1, <2>2, <2>3
<1>. QED
  BY <1>1, <1>2, <1>3, <1>4, <1>5, <1>6, <1>7 DEF Relay

LEMMA CommitShape ==
  ASSUME Shapes, WriteIsPlanned, Commit
  PROVE  Shapes'
<1>. USE DEF Shapes, env
<1>0. /\ pc = "write" /\ todo.items \in Seq(Writes) /\ todo.items # <<>> /\ todo.then \in Thens /\ todo.else \in Elses
      /\ Tail(todo.items) \in Seq(Writes) /\ TerminalFailure \in Seq(Writes)
  <2>1. pc = "write"
    BY DEF Commit, CommitHeaders, CommitBytes, CommitFails, CommitRefused, FrameTooLarge
  <2>2. todo.items \in Seq(Writes) /\ todo.items # <<>> /\ todo.then \in Thens /\ todo.else \in Elses
    BY <2>1 DEF WriteIsPlanned, Todos, Thens, Elses
  <2>. QED
    BY <2>1, <2>2, HeadTailProperties, ItemShapes
<1>1. Proceed => pc' \in Labels \ {"none"} /\ todo' \in Todos
  BY <1>0, WriteShape DEF Proceed
<1>2. Goto(todo.else) => pc' \in Labels \ {"none"} /\ todo' \in Todos
  BY <1>0, GotoShape DEF Elses, Labels
<1>3. CASE CommitHeaders
  <2>1. UNCHANGED <<plan, exc, try, written, armed, response, source, direct, ending, env>> /\ Proceed
    BY <1>3 DEF CommitHeaders
  <2>2. seam' \in Seams
    BY <1>3, SeamEdits DEF CommitHeaders
  <2>4. wire' \in Seq({"headers", "data", "begun", "terminal"})
    BY <1>3 DEF CommitHeaders
  <2>3. relay' \in Relays /\ started' \in BOOLEAN
    BY <1>3, RelayEdits, RelayFields DEF CommitHeaders, HeadersAreOut
  <2>. QED
    BY <1>1, <2>1, <2>2, <2>3, <2>4
<1>4. CASE CommitBytes
  <2>1. UNCHANGED <<plan, exc, try, written, armed, started, response, source, relay, direct, ending, env>> /\ Proceed
    BY <1>4 DEF CommitBytes
  <2>2. seam' \in Seams
    BY <1>4, ZenonT(30) DEF CommitBytes, Seams
  <2>3. wire' \in Seq({"headers", "data", "begun", "terminal"})
    <3>1. OnWire(Item) \in {"headers", "data", "begun", "terminal"} /\ wire' = Append(wire, OnWire(Item))
      BY <1>4 DEF CommitBytes, OnWire
    <3>2. wire \in Seq({"headers", "data", "begun", "terminal"})
      OBVIOUS
    <3>. QED
      BY <3>1, <3>2, AppendProperties
  <2>. QED
    BY <1>1, <2>1, <2>2, <2>3
<1>5. CASE CommitFails \/ CommitRefused
  <2>1. UNCHANGED <<plan, exc, try, written, armed, started, source, relay, wire, direct, ending, env>> /\ Goto(todo.else)
    BY <1>5 DEF CommitFails, CommitRefused
  <2>2. seam' \in Seams /\ response' \in {"none", "open", "closed"}
    BY <1>5 DEF CommitFails, CommitRefused, Seams
  <2>. QED
    BY <1>2, <2>1, <2>2
<1>6. CASE FrameTooLarge
  <2>1. UNCHANGED <<plan, try, written, armed, started, source, seam, relay, wire, direct, ending, env>>
    BY <1>6 DEF FrameTooLarge
  <2>2. CASE Write(TerminalFailure, "relayEnds", "relayEnds") /\ UNCHANGED <<exc, response>>
    BY <1>0, <2>1, <2>2, WriteShape DEF Thens, Elses
  <2>3. CASE Raise("tooLarge") /\ response' = "closed"
    BY <2>1, <2>3, RaiseShape DEF Exceptions
  <2>. QED
    BY <1>6, <2>2, <2>3 DEF FrameTooLarge
<1>. QED
  BY <1>3, <1>4, <1>5, <1>6 DEF Commit

LEMMA TryEdits ==
  ASSUME NEW t \in Tries, NEW n \in Nat
  PROVE  /\ [t EXCEPT !.relay = @ + 1] \in Tries
         /\ [t EXCEPT !.route = @ + 1, !.relay = 1, !.relayLimit = n] \in Tries
<1>1. t.relay + 1 \in Nat /\ t.route + 1 \in Nat /\ 1 \in Nat
  BY DEF Tries
<1>2. [t EXCEPT !.relay = t.relay + 1] \in Tries
  BY <1>1 DEF Tries
<1>3. [t EXCEPT !.route = t.route + 1, !.relay = 1, !.relayLimit = n] \in Tries
  BY <1>1 DEF Tries
<1>. QED
  BY <1>2, <1>3

(* The limits of the relay attempts *)
LEMMA RelayLimitsAreNat ==
  ASSUME Shapes, NEW e, NEW limit \in RelayLimits(e)
  PROVE  limit \in Nat
<1>1. plan.relays \in Nat /\ plan.expansion \in Nat
  BY PlanFacts DEF Shapes
<1>2. \A x : AttemptsFor(plan.relays, x) \in Nat
  BY <1>1 DEF AttemptsFor
<1>3. CASE e = "empty"
  BY <1>1, <1>2, <1>3 DEF RelayLimits
<1>4. CASE e # "empty"
  BY <1>1, <1>2, <1>4 DEF RelayLimits
<1>. QED
  BY <1>3, <1>4

LEMMA HandleShape ==
  ASSUME Shapes, Handle
  PROVE  Shapes'
<1>. USE ConstantsAssumption, PlanFacts DEF Shapes, env
<1>0. /\ NoticeItems \in Seq(Writes) /\ <<>> \in Seq(Writes)
      /\ <<"headers">> \in Seq(Writes) /\ <<"errorEvent">> \in Seq(Writes)
      /\ <<"failed">> \in Seq(Writes) /\ <<"headers", "failed">> \in Seq(Writes)
  BY ItemShapes DEF Writes
<1>1. CASE RetryRelay
  <2>1. UNCHANGED <<plan, exc, written, armed, started, response, source, seam, relay, wire, direct, ending, env>>
    BY <1>1 DEF RetryRelay
  <2>2. PICK limit \in Nat : try' = [try EXCEPT !.relayLimit = limit]
    BY <1>1, RelayLimitsAreNat DEF RetryRelay
  <2>3. try' \in Tries
    BY <2>2 DEF Tries
  <2>4. \E items \in Seq(Writes) : Write(items, "relayWait", "done")
    BY <1>0, <1>1 DEF RetryRelay
  <2>5. pc' \in Labels \ {"none"} /\ todo' \in Todos
    BY <2>4, WriteShape DEF Thens, Elses
  <2>. QED
    BY <2>1, <2>3, <2>5
<1>2. CASE GiveUpRelay
  <2>1. UNCHANGED <<plan, exc, try, written, armed, started, response, source, seam, relay, wire, direct, ending, env>>
    BY <1>2 DEF GiveUpRelay
  <2>2. (\E items \in Seq(Writes) : Write(items, "done", "done")) \/ Goto("dispatch")
    BY <1>0, <1>2 DEF GiveUpRelay
  <2>3. pc' \in Labels \ {"none"} /\ todo' \in Todos
    BY <2>2, WriteShape, GotoShape DEF Thens, Elses, Labels
  <2>. QED
    BY <2>1, <2>3
<1>3. CASE RelayAgain
  <2>1. /\ UNCHANGED <<plan, written, armed, response, source, seam, relay, wire, direct, ending, env>>
        /\ started' \in BOOLEAN
    BY <1>3 DEF RelayAgain
  <2>2. \/ Raise("shutdown") /\ try' = try
        \/ try' = [try EXCEPT !.relay = @ + 1] /\ Goto("enter") /\ exc' = exc
    BY <1>3 DEF RelayAgain
  <2>3. try' \in Tries
    BY <2>2, TryEdits
  <2>4. pc' \in Labels \ {"none"} /\ todo' \in Todos /\ exc' \in Exceptions
    BY <2>2, RaiseShape, GotoShape DEF Labels, Exceptions
  <2>. QED
    BY <2>1, <2>3, <2>4
<1>4. CASE ProtocolFallback
  <2>1. UNCHANGED <<plan, exc, written, armed, started, response, source, seam, relay, wire, direct, ending, env>> /\ Goto("enter")
    BY <1>4 DEF ProtocolFallback
  <2>2. try' = [try EXCEPT !.route = @ + 1, !.relay = 1, !.relayLimit = plan.relays]
    BY <1>4 DEF ProtocolFallback
  <2>3. try' \in Tries
    BY <2>2, TryEdits
  <2>. QED
    BY <2>1, <2>3, GotoShape DEF Labels
<1>5. CASE Propagate
  <2>1. UNCHANGED <<plan, try, written, armed, started, response, source, seam, relay, wire, direct, ending, env>> /\ Goto("dispatch")
    BY <1>5 DEF Propagate
  <2>2. exc' \in Exceptions
    BY <1>5 DEF Propagate, Exceptions
  <2>. QED
    BY <2>1, <2>2, GotoShape DEF Labels
<1>6. CASE DispatchSse
  BY <1>0, <1>6, WriteShape, ZenonT(30) DEF DispatchSse, Thens, Elses
<1>7. CASE DispatchJson
  BY <1>7, GotoShape DEF DispatchJson, Labels
<1>8. CASE DispatchHttpError
  BY <1>0, <1>8, WriteShape DEF DispatchHttpError, Thens, Elses
<1>. QED
  BY <1>1, <1>2, <1>3, <1>4, <1>5, <1>6, <1>7, <1>8 DEF Handle

LEMMA ShapesStep ==
  ASSUME Shapes, WriteIsPlanned, [Next]_vars
  PROVE  Shapes'
<1>1. CASE Environment
  BY <1>1, ZenonT(30) DEF Shapes, Environment, ClientLeaves, Cancel, DeadlinePasses
<1>2. CASE UNCHANGED vars
  BY <1>2 DEF Shapes, vars, env
<1>. QED
  BY <1>1, <1>2, OpenShape, RelayShape, CommitShape, HandleShape DEF Next, Handler

LEMMA ShapesInit ==
  ASSUME Init
  PROVE  Shapes
<1>1. plan \in Plans /\ RealPlan(plan)
  BY DEF Init
<1>2. try \in Tries
  BY <1>1, PlanFacts DEF Init, Tries
<1>3. seam \in Seams
  BY DEF Init, Seams
<1>4. /\ source \in [lines : 0 .. MaxLines, open : BOOLEAN]
      /\ relay \in Relays
  BY ConstantsAssumption DEF Init, NoRelay, Relays
<1>5. todo \in Todos /\ wire \in Seq({"headers", "data", "begun", "terminal"})
  BY DEF Init, Todos
<1>6. /\ pc \in Labels \ {"none"} /\ exc \in Exceptions
      /\ deadline \in {"none", "running", "expired"}
      /\ response \in {"none", "open", "closed"}
      /\ written \in BOOLEAN /\ armed \in BOOLEAN /\ started \in BOOLEAN
      /\ client \in BOOLEAN /\ cancelled \in BOOLEAN
      /\ ending \in {"none", "eof", "http"}
      /\ direct \in {<<>>, <<"json">>}
  BY DEF Init, Labels, Exceptions
<1>. QED
  BY <1>1, <1>2, <1>3, <1>4, <1>5, <1>6 DEF Shapes

LEMMA WriteIsPlannedStep ==
  ASSUME Shapes, WriteIsPlanned, [Next]_vars
  PROVE  WriteIsPlanned'
<1>. USE PlanIsFixed
<1>0. /\ \A label : Goto(label) /\ label # "write" => WriteIsPlanned'
      /\ \A e : Raise(e) => WriteIsPlanned'
  BY DEF Goto, Raise, WriteIsPlanned
<1>1. \A items, then, else : 
        /\ Write(items, then, else)
        /\ then \in Thens
        /\ else = (IF then \in {"read", "adapterEnds", "relayEnds"} THEN "relayEnds" ELSE "done")
        /\ items # <<>> /\ then \in {"openWait", "relayWait"} => plan.notice
        => WriteIsPlanned'
  BY DEF Write, Goto, WriteIsPlanned, Thens
<1>2. CASE Open
  <2>1. CASE \E e \in OpenErrors : OpenFails(e)
    <3>1. \/ \E x : Raise(x)
          \/ Write(IF plan.notice THEN NoticeItems ELSE <<>>, "openWait", "done")
      BY <2>1 DEF OpenFails
    <3>. QED
      BY <1>0, <1>1, <3>1 DEF Thens
  <2>2. CASE EnterOpen \/ StartOpen \/ OpenSucceeds \/ OpenAgain
    <3>1. (\E x : Raise(x)) \/ Goto("open") \/ Goto("opening") \/ Goto("relay")
      BY <2>2 DEF EnterOpen, StartOpen, OpenSucceeds, OpenAgain
    <3>. QED
      BY <1>0, <3>1
  <2>. QED
    BY <1>2, <2>1, <2>2 DEF Open
<1>3. CASE Relay
  <2>1. CASE \E l \in Lines : ReadLine(l)
    <3>1. \/ \E x : Raise(x)
          \/ UNCHANGED <<pc, todo>>
          \/ \E items : Write(items, "read", "relayEnds") \/ Write(items, "adapterEnds", "relayEnds")
                        \/ Write(items, "relayEnds", "relayEnds")
      BY <2>1 DEF ReadLine, PassLine, HoldLine, ConvertLine, ConvertedFailure
    <3>2. CASE UNCHANGED <<pc, todo>>
      BY <3>2 DEF WriteIsPlanned
    <3>. QED
      BY <1>0, <1>1, <3>1, <3>2 DEF Thens
  <2>2. CASE StartRelay \/ ReadEnds \/ ReadFails \/ ReadCancelled \/ AdapterEnds \/ RelayEnds
    <3>1. \/ \E x : Raise(x)
          \/ Goto("relayEnds") \/ Goto("done")
          \/ \E items : Write(items, "read", "relayEnds") \/ Write(items, "adapterEnds", "relayEnds")
                        \/ Write(items, "relayEnds", "relayEnds")
      BY <2>2 DEF StartRelay, ReadEnds, ReadFails, StreamFailure, ConvertedFailure, ReadCancelled, AdapterEnds, RelayEnds
    <3>. QED
      BY <1>0, <1>1, <3>1 DEF Thens
  <2>. QED
    BY <1>3, <2>1, <2>2 DEF Relay
<1>4. CASE Commit
  <2>0. /\ pc = "write" /\ todo.then \in Thens /\ todo.else \in Elses
        /\ todo.else = IF todo.then \in {"read", "adapterEnds", "relayEnds"} THEN "relayEnds" ELSE "done"
        /\ todo.then \in {"openWait", "relayWait"} => plan.notice
    <3>1. pc = "write"
      BY <1>4 DEF Commit, CommitHeaders, CommitBytes, CommitFails, CommitRefused, FrameTooLarge
    <3>. QED
      BY <3>1 DEF WriteIsPlanned, Shapes, Todos, Thens, Elses
  <2>1. \/ Proceed
        \/ Goto(todo.else)
        \/ Raise("tooLarge")
        \/ Write(TerminalFailure, "relayEnds", "relayEnds")
    BY <1>4 DEF Commit, CommitHeaders, CommitBytes, CommitFails, CommitRefused, FrameTooLarge
  <2>2. CASE Proceed
    BY <1>1, <2>0, <2>2 DEF Proceed
  <2>. QED
    BY <1>0, <1>1, <2>0, <2>1, <2>2 DEF Thens, Elses
<1>5. CASE Handle
  <2>1. \/ \E x : Raise(x)
        \/ Goto("enter") \/ Goto("dispatch") \/ Goto("done")
        \/ \E items : Write(items, "done", "done")
        \/ Write(IF plan.notice THEN NoticeItems ELSE <<>>, "relayWait", "done")
    BY <1>5 DEF Handle, RetryRelay, GiveUpRelay, RelayAgain, ProtocolFallback, Propagate, DispatchSse, DispatchJson,
                DispatchHttpError
  <2>. QED
    BY <1>0, <1>1, <2>1 DEF Thens
<1>6. CASE Environment \/ UNCHANGED vars
  <2>1. UNCHANGED <<pc, todo>>
    BY <1>6 DEF Environment, ClientLeaves, Cancel, DeadlinePasses, vars
  <2>. QED
    BY <2>1 DEF WriteIsPlanned
<1>. QED
  BY <1>2, <1>3, <1>4, <1>5, <1>6 DEF Next, Handler

-----------------------------------------------------------------------------
(* Where a step leads *)

LEMMA WriteLeads ==
  ASSUME NEW items, NEW then, NEW else, Write(items, then, else)
  PROVE  pc' \in {"write", then} /\ (pc' = "write" /\ then # "write" => todo'.then = then /\ todo'.items = items /\ items # <<>>)
  BY DEF Write, Goto

LEMMA Commits ==
  ASSUME Shapes, WriteIsPlanned, Commit
  PROVE  /\ pc = "write" /\ todo.then \in Thens /\ todo.else \in Elses
         /\ try' = try /\ written' = written /\ direct' = direct /\ ending' = ending
         /\ UNCHANGED env
         /\ \/ Proceed /\ exc' = exc
            \/ Goto(todo.else) /\ exc' = exc
            \/ Raise("tooLarge")
            \/ Write(TerminalFailure, "relayEnds", "relayEnds") /\ exc' = exc
         /\ pc' \in {"write", "raised", "relayEnds", "done", todo.then}
         /\ pc' = "raised" => exc' = "tooLarge"
         /\ pc' = "write" => todo'.then = todo.then \/ todo'.then = "relayEnds"
<1>1. pc = "write"
  BY DEF Commit, CommitHeaders, CommitBytes, CommitFails, CommitRefused, FrameTooLarge
<1>2. todo.then \in Thens /\ todo.else \in Elses
  BY <1>1 DEF WriteIsPlanned, Shapes, Todos, Thens, Elses
<1>3. /\ try' = try /\ written' = written /\ direct' = direct /\ ending' = ending /\ UNCHANGED env
      /\ \/ Proceed /\ exc' = exc
         \/ Goto(todo.else) /\ exc' = exc
         \/ Raise("tooLarge")
         \/ Write(TerminalFailure, "relayEnds", "relayEnds") /\ exc' = exc
  BY DEF Commit, CommitHeaders, CommitBytes, CommitFails, CommitRefused, FrameTooLarge
<1>4. /\ pc' \in {"write", "raised", "relayEnds", "done", todo.then}
      /\ pc' = "raised" => exc' = "tooLarge"
      /\ pc' = "write" => todo'.then = todo.then \/ todo'.then = "relayEnds"
  <2>1. CASE Proceed
    BY <1>2, <2>1, WriteLeads DEF Proceed, Thens
  <2>2. CASE Write(TerminalFailure, "relayEnds", "relayEnds")
    BY <2>2, WriteLeads
  <2>3. CASE Goto(todo.else) \/ Raise("tooLarge")
    BY <1>2, <2>3 DEF Goto, Raise, Elses
  <2>. QED
    BY <1>3, <2>1, <2>2, <2>3
<1>. QED
  BY <1>1, <1>2, <1>3, <1>4

(* Only the retries lead back to an upstream, and only what follows changes the counters *)
LEMMA Destinations ==
  ASSUME Shapes, WriteIsPlanned, [Next]_vars
  PROVE  /\ pc' = "enter" => pc = "enter" \/ RelayAgain \/ ProtocolFallback
         /\ pc' = "open" => pc = "open" \/ EnterOpen \/ OpenAgain
         /\ pc' = "opening" => pc = "opening" \/ StartOpen
         /\ pc' = "relay" => pc = "relay" \/ OpenSucceeds
         /\ At("openWait")' => At("openWait") \/ \E e \in OpenErrors : OpenFails(e)
         /\ At("relayWait")' => At("relayWait") \/ RetryRelay
         /\ \/ EnterOpen \/ StartOpen \/ OpenAgain \/ RetryRelay \/ RelayAgain \/ ProtocolFallback
            \/ try' = try
<1>. USE DEF At
<1>1. CASE Open
  <2>1. CASE EnterOpen
    BY <2>1 DEF EnterOpen, Goto, Raise
  <2>2. CASE StartOpen
    BY <2>2 DEF StartOpen, Goto, Raise
  <2>3. CASE OpenSucceeds
    BY <2>3 DEF OpenSucceeds, Goto, Raise
  <2>4. CASE OpenAgain
    BY <2>4 DEF OpenAgain, Goto, Raise
  <2>5. ASSUME NEW e \in OpenErrors, OpenFails(e)
        PROVE  pc' \in {"raised", "write", "openWait"} /\ (pc' = "write" => todo'.then = "openWait") /\ try' = try
    <3>1. CASE \E x : Raise(x)
      BY <2>5, <3>1 DEF OpenFails, Raise, Goto
    <3>2. CASE Write(IF plan.notice THEN NoticeItems ELSE <<>>, "openWait", "done")
      BY <2>5, <3>2, WriteLeads DEF OpenFails
    <3>. QED
      BY <2>5, <3>1, <3>2 DEF OpenFails
  <2>. QED
    BY <1>1, <2>1, <2>2, <2>3, <2>4, <2>5 DEF Open
<1>2. CASE Relay
  <2>1. /\ try' = try
        /\ \/ \E x : Raise(x)
           \/ UNCHANGED <<pc, todo>>
           \/ Goto("relayEnds") \/ Goto("done")
           \/ \E items : Write(items, "read", "relayEnds") \/ Write(items, "adapterEnds", "relayEnds")
                         \/ Write(items, "relayEnds", "relayEnds")
    <3>1. CASE \E l \in Lines : ReadLine(l)
      BY <3>1 DEF ReadLine, PassLine, HoldLine, ConvertLine, ConvertedFailure
    <3>2. CASE StartRelay \/ ReadEnds \/ ReadFails \/ ReadCancelled \/ AdapterEnds \/ RelayEnds
      BY <3>2 DEF StartRelay, ReadEnds, ReadFails, StreamFailure, ConvertedFailure, ReadCancelled, AdapterEnds, RelayEnds
    <3>. QED
      BY <1>2, <3>1, <3>2 DEF Relay
  <2>2. CASE \E items : Write(items, "read", "relayEnds") \/ Write(items, "adapterEnds", "relayEnds")
                        \/ Write(items, "relayEnds", "relayEnds")
    <3>1. pc' \in {"write", "read", "adapterEnds", "relayEnds"} /\ (pc' = "write" => todo'.then \in {"read", "adapterEnds", "relayEnds"})
      BY <2>2, WriteLeads
    <3>. QED
      BY <2>1, <3>1
  <2>3. CASE UNCHANGED <<pc, todo>>
    BY <2>1, <2>3
  <2>. QED
    BY <2>1, <2>2, <2>3 DEF Raise, Goto
<1>3. CASE Commit
  BY <1>3, Commits DEF Thens
<1>4. CASE Handle
  <2>1. CASE RetryRelay
    BY <2>1, WriteLeads DEF RetryRelay
  <2>2. CASE RelayAgain \/ ProtocolFallback
    BY <2>2 DEF RelayAgain, ProtocolFallback, Raise, Goto
  <2>3. CASE Propagate \/ DispatchJson
    BY <2>3 DEF Propagate, DispatchJson, Goto
  <2>4. CASE GiveUpRelay \/ DispatchSse \/ DispatchHttpError
    <3>1. /\ try' = try
          /\ Goto("dispatch") \/ \E items : Write(items, "done", "done")
      BY <2>4 DEF GiveUpRelay, DispatchSse, DispatchHttpError
    <3>2. pc' \in {"dispatch", "write", "done"} /\ (pc' = "write" => todo'.then = "done")
      BY <3>1, WriteLeads DEF Goto
    <3>. QED
      BY <3>1, <3>2
  <2>. QED
    BY <1>4, <2>1, <2>2, <2>3, <2>4 DEF Handle
<1>5. CASE Environment \/ UNCHANGED vars
  <2>1. UNCHANGED <<pc, todo, try>>
    BY <1>5 DEF Environment, ClientLeaves, Cancel, DeadlinePasses, vars
  <2>. QED
    BY <2>1
<1>. QED
  BY <1>1, <1>2, <1>3, <1>4, <1>5 DEF Next, Handler

-----------------------------------------------------------------------------
(* Attempts and their limits *)

(* A failure never raises the limit of open attempts above that of a transient one *)
LEMMA OpenLimits ==
  ASSUME Shapes
  PROVE  /\ OpenLimit("httpTransient") \in Nat
         /\ \A e : OpenLimit(e) \in Nat /\ OpenLimit(e) <= OpenLimit("httpTransient")
         /\ plan.budget > 0 => OpenLimit("httpTransient") = try.openLimit
<1>1. try.openLimit \in Nat /\ plan.expansion \in Nat /\ plan.budget \in Nat
  BY PlanFacts DEF Shapes, Tries
<1>. QED
  BY <1>1 DEF OpenLimit, AttemptsFor

LEMMA CountersStep ==
  ASSUME Shapes, WriteIsPlanned, CountersInLimits, [Next]_vars
  PROVE  CountersInLimits'
<1>0. /\ try \in Tries /\ try' \in Tries /\ plan' = plan
      /\ plan.opens \in Nat \ {0} /\ plan.relays \in Nat \ {0} /\ plan.budget \in Nat /\ plan.expansion \in Nat
      /\ plan.routes \in {1, 2}
  BY PlanFacts, PlanIsFixed, ShapesStep DEF Shapes
<1>1. /\ try.route \in Nat /\ try.relay \in Nat /\ try.relayLimit \in Nat /\ try.open \in Nat
      /\ try.openLimit \in Nat /\ try.begun \in Nat
  BY <1>0 DEF Tries
<1>2. CASE EnterOpen
  <2>1. pc = "enter"
    BY <1>2 DEF EnterOpen
  <2>2. CASE Raise("budget") /\ try' = try
    BY <1>0, <2>1, <2>2 DEF CountersInLimits, At, Raise, Goto, OpenLimit, AttemptsFor
  <2>3. CASE ~(plan.budget > 0 /\ try.begun >= plan.budget)
    <3>. DEFINE left == plan.budget - try.begun
                limit == IF plan.budget > 0 /\ left < plan.opens THEN left ELSE plan.opens
    <3>1. pc' = "open" /\ try' = [try EXCEPT !.open = 1, !.openLimit = limit]
      BY <1>2, <2>3 DEF EnterOpen, Goto
    <3>2. limit \in Nat /\ limit >= 1 /\ (plan.budget > 0 => limit <= left)
      BY <1>0, <1>1, <2>3
    <3>3. /\ try'.open = 1 /\ try'.openLimit = limit /\ try'.route = try.route /\ try'.relay = try.relay
          /\ try'.relayLimit = try.relayLimit /\ try'.begun = try.begun
      BY <1>0, <3>1 DEF Tries
    <3>4. OpenLimit("httpTransient")' \in Nat /\ OpenLimit("httpTransient")' >= 1
      <4>. HIDE DEF limit
      <4>. QED
        BY <1>0, <3>2, <3>3 DEF OpenLimit, AttemptsFor
    <3>5. plan.budget > 0 => try.begun <= plan.budget /\ try.begun + limit - 1 < plan.budget
      BY <1>0, <1>1, <2>3, <3>2
    <3>. HIDE DEF limit
    <3>. QED
      BY <1>0, <1>1, <3>1, <3>2, <3>3, <3>4, <3>5 DEF CountersInLimits, At
  <2>. QED
    BY <1>2, <2>2, <2>3 DEF EnterOpen
<1>3. CASE StartOpen
  <2>1. pc = "open"
    BY <1>3 DEF StartOpen
  <2>2. CASE (\E x : Raise(x)) /\ try' = try
    BY <1>0, <2>1, <2>2 DEF CountersInLimits, At, Raise, Goto, OpenLimit, AttemptsFor
  <2>3. CASE try' = [try EXCEPT !.begun = IF plan.budget > 0 THEN @ + 1 ELSE @] /\ Goto("opening")
    <3>1. pc' = "opening"
      BY <2>3 DEF Goto
    <3>2. /\ try'.open = try.open /\ try'.openLimit = try.openLimit /\ try'.route = try.route /\ try'.relay = try.relay
          /\ try'.relayLimit = try.relayLimit /\ try'.begun = IF plan.budget > 0 THEN try.begun + 1 ELSE try.begun
      BY <1>0, <2>3 DEF Tries
    <3>3. OpenLimit("httpTransient")' = OpenLimit("httpTransient")
      BY <1>0, <3>2 DEF OpenLimit, AttemptsFor
    <3>4. plan.budget > 0 => try.open <= try.openLimit /\ try.begun + try.openLimit - try.open < plan.budget
      BY <2>1, OpenLimits DEF CountersInLimits
    <3>. QED
      BY <1>0, <1>1, <3>1, <3>2, <3>3, <3>4 DEF CountersInLimits, At
  <2>. QED
    BY <1>3, <2>2, <2>3 DEF StartOpen
<1>4. CASE \E e \in OpenErrors : OpenFails(e)
  <2>1. try' = try /\ pc = "opening"
    BY <1>4 DEF OpenFails
  <2>2. At("openWait")' => \E e \in OpenErrors : try.open < OpenLimit(e)
    BY <1>4 DEF OpenFails, Raise, Goto, At
  <2>3. At("openWait")' => try.open < OpenLimit("httpTransient")
    BY <1>1, <2>2, OpenLimits
  <2>4. ~At("relayWait")' /\ pc' # "open" /\ pc' # "opening"
    <3>1. ~RetryRelay /\ ~EnterOpen /\ ~OpenAgain /\ ~StartOpen /\ ~At("relayWait")
      BY <2>1 DEF RetryRelay, EnterOpen, OpenAgain, StartOpen, At
    <3>2. pc' # "opening"
      BY <1>4 DEF OpenFails, Raise, Goto, Write
    <3>. QED
      BY <2>1, <3>1, <3>2, Destinations
  <2>5. OpenLimit("httpTransient")' = OpenLimit("httpTransient")
    BY <1>0, <2>1 DEF OpenLimit, AttemptsFor
  <2>. QED
    BY <1>0, <2>1, <2>3, <2>4, <2>5 DEF CountersInLimits
<1>5. CASE OpenAgain
  <2>1. pc = "openWait"
    BY <1>5 DEF OpenAgain
  <2>2. CASE Raise("shutdown") /\ try' = try
    BY <1>0, <2>1, <2>2 DEF CountersInLimits, At, Raise, Goto, OpenLimit, AttemptsFor
  <2>3. CASE try' = [try EXCEPT !.open = @ + 1] /\ Goto("open")
    <3>1. pc' = "open"
      BY <2>3 DEF Goto
    <3>2. /\ try'.open = try.open + 1 /\ try'.openLimit = try.openLimit /\ try'.route = try.route /\ try'.relay = try.relay
          /\ try'.relayLimit = try.relayLimit /\ try'.begun = try.begun
      BY <1>0, <2>3 DEF Tries
    <3>3. OpenLimit("httpTransient")' = OpenLimit("httpTransient")
      BY <1>0, <3>2 DEF OpenLimit, AttemptsFor
    <3>4. try.open < OpenLimit("httpTransient")
      BY <2>1 DEF CountersInLimits, At
    <3>5. plan.budget > 0 => try.begun + try.openLimit - try.open <= plan.budget
      BY <2>1 DEF CountersInLimits, At
    <3>. QED
      BY <1>0, <1>1, <3>1, <3>2, <3>3, <3>4, <3>5, OpenLimits DEF CountersInLimits, At
  <2>. QED
    BY <1>5, <2>2, <2>3 DEF OpenAgain
<1>6. CASE RetryRelay
  <2>1. pc = "raised"
    BY <1>6 DEF RetryRelay
  <2>2. PICK limit \in Nat : try.relay < limit /\ try' = [try EXCEPT !.relayLimit = limit]
    BY <1>6, RelayLimitsAreNat DEF RetryRelay
  <2>3. /\ try'.open = try.open /\ try'.openLimit = try.openLimit /\ try'.route = try.route /\ try'.relay = try.relay
        /\ try'.relayLimit = limit /\ try'.begun = try.begun
    BY <1>0, <2>2 DEF Tries
  <2>4. ~At("openWait")' /\ pc' # "open" /\ pc' # "opening"
    BY <1>6, WriteLeads DEF RetryRelay, At
  <2>5. OpenLimit("httpTransient")' = OpenLimit("httpTransient")
    BY <1>0, <2>3 DEF OpenLimit, AttemptsFor
  <2>. QED
    BY <1>0, <1>1, <2>2, <2>3, <2>4, <2>5 DEF CountersInLimits
<1>7. CASE RelayAgain
  <2>1. pc = "relayWait"
    BY <1>7 DEF RelayAgain
  <2>2. CASE Raise("shutdown") /\ try' = try
    BY <1>0, <2>1, <2>2 DEF CountersInLimits, At, Raise, Goto, OpenLimit, AttemptsFor
  <2>3. CASE try' = [try EXCEPT !.relay = @ + 1] /\ Goto("enter")
    <3>1. pc' = "enter"
      BY <2>3 DEF Goto
    <3>2. /\ try'.open = try.open /\ try'.openLimit = try.openLimit /\ try'.route = try.route /\ try'.relay = try.relay + 1
          /\ try'.relayLimit = try.relayLimit /\ try'.begun = try.begun
      BY <1>0, <2>3 DEF Tries
    <3>3. OpenLimit("httpTransient")' = OpenLimit("httpTransient")
      BY <1>0, <3>2 DEF OpenLimit, AttemptsFor
    <3>4. try.relay < try.relayLimit
      BY <2>1 DEF CountersInLimits, At
    <3>. QED
      BY <1>0, <1>1, <3>1, <3>2, <3>3, <3>4 DEF CountersInLimits, At
  <2>. QED
    BY <1>7, <2>2, <2>3 DEF RelayAgain
<1>8. CASE ProtocolFallback
  <2>1. pc' = "enter" /\ try.route < plan.routes
    BY <1>8 DEF ProtocolFallback, Goto
  <2>2. /\ try'.open = try.open /\ try'.openLimit = try.openLimit /\ try'.route = try.route + 1 /\ try'.relay = 1
        /\ try'.relayLimit = plan.relays /\ try'.begun = try.begun
    BY <1>0, <1>8 DEF ProtocolFallback, Tries
  <2>3. OpenLimit("httpTransient")' = OpenLimit("httpTransient")
    BY <1>0, <2>2 DEF OpenLimit, AttemptsFor
  <2>. QED
    BY <1>0, <1>1, <2>1, <2>2, <2>3 DEF CountersInLimits, At
<1>9. CASE /\ try' = try
           /\ ~EnterOpen /\ ~StartOpen /\ ~OpenAgain /\ ~RetryRelay /\ ~RelayAgain /\ ~ProtocolFallback
           /\ ~\E e \in OpenErrors : OpenFails(e)
  <2>1. /\ pc' = "open" => pc = "open"
        /\ pc' = "opening" => pc = "opening"
        /\ At("openWait")' => At("openWait")
        /\ At("relayWait")' => At("relayWait")
    BY <1>9, Destinations
  <2>2. OpenLimit("httpTransient")' = OpenLimit("httpTransient")
    BY <1>0, <1>9 DEF OpenLimit, AttemptsFor
  <2>. QED
    BY <1>0, <1>9, <2>1, <2>2 DEF CountersInLimits
<1>. QED
  BY <1>2, <1>3, <1>4, <1>5, <1>6, <1>7, <1>8, <1>9, Destinations

LEMMA CountersInit ==
  ASSUME Init
  PROVE  WriteIsPlanned /\ CountersInLimits
<1>1. /\ plan.opens \in Nat \ {0} /\ plan.relays \in Nat \ {0} /\ plan.budget \in Nat /\ plan.expansion \in Nat
      /\ plan.routes \in {1, 2}
  BY PlanFacts DEF Init
<1>2. /\ try.route = 1 /\ try.relay = 1 /\ try.relayLimit = plan.relays /\ try.open = 1
      /\ try.openLimit = plan.opens /\ try.begun = 0 /\ pc = "enter"
  BY DEF Init
<1>3. OpenLimit("httpTransient") \in Nat /\ OpenLimit("httpTransient") >= 1
  BY <1>1, <1>2 DEF OpenLimit, AttemptsFor
<1>. QED
  BY <1>1, <1>2, <1>3 DEF WriteIsPlanned, CountersInLimits, At

-----------------------------------------------------------------------------
(* Replays *)

(* Who writes output, who exposes content and who hands a request over *)
LEMMA SeamKeeps ==
  ASSUME Shapes, [Next]_vars
  PROVE  /\ CommitBytes \/ seam'.output = seam.output
         /\ pc = "read" \/ seam'.exposed = seam.exposed
         /\ pc = "opening" \/ written' = written
<1>. USE DEF Shapes
<1>1. CASE Open
  BY <1>1 DEF Open, EnterOpen, StartOpen, OpenSucceeds, OpenAgain, OpenFails
<1>2. CASE Relay
  <2>1. CASE \E l \in Lines : ReadLine(l)
    <3>1. written' = written /\ pc = "read"
      BY <2>1 DEF ReadLine
    <3>2. seam'.output = seam.output
      BY <2>1 DEF ReadLine, PassLine, HoldLine, ConvertLine, Seams
    <3>. QED
      BY <3>1, <3>2
  <2>2. CASE ReadEnds \/ ReadFails \/ AdapterEnds \/ RelayEnds
    BY <2>2 DEF ReadEnds, ReadFails, AdapterEnds, RelayEnds
  <2>3. CASE StartRelay
    BY <2>3 DEF StartRelay, Seams
  <2>4. CASE ReadCancelled
    BY <2>4 DEF ReadCancelled, Seams
  <2>. QED
    BY <1>2, <2>1, <2>2, <2>3, <2>4 DEF Relay
<1>3. CASE Commit
  <2>1. CASE CommitHeaders
    BY <2>1 DEF CommitHeaders, Seams
  <2>2. CASE CommitBytes
    BY <2>2 DEF CommitBytes, Seams
  <2>3. CASE CommitFails
    BY <2>3 DEF CommitFails, Seams
  <2>4. CASE CommitRefused \/ FrameTooLarge
    BY <2>4 DEF CommitRefused, FrameTooLarge
  <2>. QED
    BY <1>3, <2>1, <2>2, <2>3, <2>4 DEF Commit
<1>4. CASE Handle
  BY <1>4 DEF Handle, RetryRelay, GiveUpRelay, RelayAgain, ProtocolFallback, Propagate, DispatchSse, DispatchJson,
              DispatchHttpError
<1>5. CASE Environment \/ UNCHANGED vars
  BY <1>5 DEF Environment, ClientLeaves, Cancel, DeadlinePasses, vars
<1>. QED
  BY <1>1, <1>2, <1>3, <1>4, <1>5 DEF Next, Handler

(* A failure that may be retried comes from an upstream that is being opened, *)
(* or from a relay that still holds its output back                           *)
LEMMA RetryableRaises ==
  ASSUME Shapes, WriteIsPlanned, [Next]_vars, pc' = "raised", exc' \in RelayRetryable \cup HttpErrors
  PROVE  \/ pc = "raised" /\ exc' = exc
         \/ pc = "opening"
         \/ pc = "read" /\ HeldBack
<1>. USE DEF RelayRetryable, HttpErrors
<1>1. CASE Open
  BY <1>1 DEF Open, EnterOpen, StartOpen, OpenSucceeds, OpenAgain, OpenFails, Raise, Goto
<1>2. CASE Relay
  <2>0. plan.kind \in Kinds
    BY PlanFacts DEF Shapes
  <2>1. ASSUME NEW l \in Lines, ReadLine(l) PROVE pc = "read" /\ HeldBack
    <3>1. pc = "read"
      BY <2>1 DEF ReadLine
    <3>2. CASE PassLine(l)
      <4>1. pc' # "raised"
        BY <3>2, WriteLeads DEF PassLine
      <4>. QED
        BY <4>1
    <3>3. CASE HoldLine(l)
      BY <3>1, <3>3 DEF HoldLine, Deferring, HeldBack
    <3>4. CASE ConvertLine(l)
      <4>1. plan.kind \in {"compat", "web"}
        BY <3>4 DEF ConvertLine
      <4>2. CASE \E e, item : ConvertedFailure(e, item)
        <5>1. PICK e, item : ConvertedFailure(e, item)
          BY <4>2
        <5>2. Write(<<item>>, "relayEnds", "relayEnds") => pc' # "raised"
          BY WriteLeads
        <5>. QED
          BY <3>1, <4>1, <5>1, <5>2 DEF ConvertedFailure, HeldBack
      <4>3. CASE \E items : Write(items, "read", "relayEnds") \/ Write(items, "adapterEnds", "relayEnds")
        <5>1. pc' # "raised"
          BY <4>3, WriteLeads
        <5>. QED
          BY <5>1
      <4>4. CASE UNCHANGED <<pc, todo>>
        BY <3>1, <4>4
      <4>. QED
        BY <3>4, <4>2, <4>3, <4>4 DEF ConvertLine
    <3>. QED
      BY <2>1, <3>2, <3>3, <3>4 DEF ReadLine
  <2>2. CASE ReadEnds \/ ReadFails
    <3>1. pc = "read"
      BY <2>2 DEF ReadEnds, ReadFails
    <3>2. CASE \E e, item : ConvertedFailure(e, item) /\ plan.kind \in {"compat", "web"}
      <4>1. PICK e, item : ConvertedFailure(e, item) /\ plan.kind \in {"compat", "web"}
        BY <3>2
      <4>2. Write(<<item>>, "relayEnds", "relayEnds") => pc' # "raised"
        BY WriteLeads
      <4>. QED
        BY <3>1, <4>1, <4>2 DEF ConvertedFailure, HeldBack
    <3>3. CASE \E items : Write(items, "relayEnds", "relayEnds") \/ Write(items, "adapterEnds", "relayEnds")
      <4>1. pc' # "raised"
        BY <3>3, WriteLeads
      <4>. QED
        BY <4>1
    <3>4. CASE Deferring /\ plan.kind \in {"official", "transparent"}
      BY <3>1, <3>4 DEF Deferring, HeldBack
    <3>5. CASE Goto("relayEnds")
      BY <3>5 DEF Goto
    <3>. QED
      BY <2>2, <3>2, <3>3, <3>4, <3>5 DEF ReadEnds, ReadFails, StreamFailure
  <2>3. CASE StartRelay
    <3>1. pc' # "raised"
      BY <2>3, WriteLeads DEF StartRelay
    <3>. QED
      BY <3>1
  <2>4. CASE ReadCancelled \/ AdapterEnds \/ RelayEnds
    BY <2>4 DEF ReadCancelled, AdapterEnds, RelayEnds, Raise, Goto
  <2>. QED
    BY <1>2, <2>1, <2>2, <2>3, <2>4 DEF Relay
<1>3. CASE Commit
  BY <1>3, Commits
<1>4. CASE Handle
  <2>1. CASE RelayAgain \/ ProtocolFallback \/ Propagate \/ DispatchJson
    BY <2>1 DEF RelayAgain, ProtocolFallback, Propagate, DispatchJson, Raise, Goto
  <2>2. CASE RetryRelay \/ GiveUpRelay \/ DispatchSse \/ DispatchHttpError
    <3>1. Goto("dispatch") \/ \E items : Write(items, "done", "done") \/ Write(items, "relayWait", "done")
      BY <2>2 DEF RetryRelay, GiveUpRelay, DispatchSse, DispatchHttpError
    <3>2. pc' # "raised"
      BY <3>1, WriteLeads DEF Goto
    <3>. QED
      BY <3>2
  <2>. QED
    BY <1>4, <2>1, <2>2 DEF Handle
<1>5. CASE Environment \/ UNCHANGED vars
  BY <1>5 DEF Environment, ClientLeaves, Cancel, DeadlinePasses, vars
<1>. QED
  BY <1>1, <1>2, <1>3, <1>4, <1>5 DEF Next, Handler

LEMMA ReadWrites ==
  ASSUME NEW items, Write(items, "read", "relayEnds")
  PROVE  pc' = "write" => todo'.items = items
  BY DEF Write, Goto

(* While a relay holds its output back, the next it writes is its headers, or *)
(* a line that ends it                                                        *)
LEMMA HeldBackStep ==
  ASSUME Shapes, WriteIsPlanned, CleanUntilServed, [Next]_vars
  PROVE  /\ (At("read") /\ HeldBack => Clean)'
         /\ (pc = "write" /\ todo.then = "read" /\ HeldBack =>
                \/ Head(todo.items) = "headers" /\ (plan.kind \in {"compat", "web"} => Len(todo.items) = 1)
                \/ plan.kind \in {"compat", "web"} /\ Head(todo.items) = "huge")'
<1>0. /\ plan' = plan /\ plan.kind \in Kinds /\ relay \in Relays /\ seam \in Seams
      /\ relay.pending \in Seq(LineKinds) /\ LineKinds \subseteq Writes
  BY PlanIsFixed, PlanFacts, RelayFields DEF Shapes, Writes
<1>1. CASE StartRelay
  <2>1. Clean'
    <3>1. pc = "relay"
      BY <1>1 DEF StartRelay
    <3>2. ~CommitBytes
      BY <3>1 DEF CommitBytes
    <3>. QED
      BY <1>0, <3>1, <3>2, SeamKeeps DEF CleanUntilServed, Clean
  <2>2. PICK items \in {<<>>, <<"headers">>} : Write(items, "read", "relayEnds")
    BY <1>1 DEF StartRelay
  <2>3. pc' = "write" => todo'.items = <<"headers">>
    BY <2>2, WriteLeads
  <2>4. pc' = "write" => Head(todo'.items) = "headers" /\ Len(todo'.items) = 1
    <3>1. Head(<<"headers">>) = "headers" /\ Len(<<"headers">>) = 1
      OBVIOUS
    <3>. QED
      BY <2>3, <3>1, Zenon
  <2>. QED
    BY <2>1, <2>4
<1>2. ASSUME NEW l \in Lines, ReadLine(l)
      PROVE  /\ (At("read") /\ HeldBack => Clean)'
             /\ (pc = "write" /\ todo.then = "read" /\ HeldBack =>
                    \/ Head(todo.items) = "headers" /\ (plan.kind \in {"compat", "web"} => Len(todo.items) = 1)
                    \/ plan.kind \in {"compat", "web"} /\ Head(todo.items) = "huge")'
  <2>1. pc = "read" /\ ~CommitBytes /\ l \in Writes
    BY <1>0, <1>2, ConstantsAssumption DEF ReadLine, CommitBytes
  <2>2. HeldBack => Clean'
    BY <1>0, <2>1, SeamKeeps DEF CleanUntilServed, Clean, At
  <2>3. CASE PassLine(l)
    <3>1. relay' = relay /\ plan.kind \in {"official", "transparent"} /\ Write(HeadersFirst \o <<l>>, "read", "relayEnds")
      BY <2>3 DEF PassLine
    <3>2. HeldBack' = HeldBack
      BY <1>0, <3>1 DEF HeldBack
    <3>3. HeldBack => Head(HeadersFirst \o <<l>>) = "headers"
      <4>1. HeldBack => HeadersFirst = <<"headers">>
        BY <3>1 DEF HeadersFirst, HeldBack
      <4>2. Head(<<"headers">> \o <<l>>) = "headers"
        OBVIOUS
      <4>. QED
        BY <4>1, <4>2
    <3>4. pc' = "write" => todo'.items = HeadersFirst \o <<l>>
      BY <3>1, ReadWrites, Zenon
    <3>. QED
      BY <1>0, <2>2, <3>1, <3>2, <3>3, <3>4
  <2>4. CASE HoldLine(l)
    <3>0. plan.kind = "transparent" /\ seam' = seam
      BY <2>4 DEF HoldLine
    <3>1. CASE \E e : Raise(e)
      BY <3>1 DEF Raise, Goto, At
    <3>2. CASE /\ Write(<<"headers">> \o relay.pending \o <<l>>, "read", "relayEnds")
               /\ relay' = [relay EXCEPT !.pending = <<>>]
      <4>1. HeldBack' = HeldBack
        BY <1>0, <3>0, <3>2 DEF HeldBack, Relays
      <4>2. Head(<<"headers">> \o relay.pending \o <<l>>) = "headers"
        BY <1>0
      <4>3. pc' = "write" => todo'.items = <<"headers">> \o relay.pending \o <<l>>
        BY <3>2, ReadWrites, Zenon
      <4>. QED
        BY <1>0, <2>2, <3>0, <4>1, <4>2, <4>3
    <3>3. CASE relay' = [relay EXCEPT !.pending = Append(@, l)] /\ UNCHANGED <<pc, todo>>
      <4>1. HeldBack' = HeldBack
        BY <1>0, <3>0, <3>3 DEF HeldBack, Relays
      <4>. QED
        BY <2>1, <2>2, <3>3, <4>1
    <3>. QED
      BY <2>4, <3>1, <3>2, <3>3 DEF HoldLine
  <2>5. CASE ConvertLine(l)
    <3>0. plan.kind \in {"compat", "web"}
      BY <2>5 DEF ConvertLine
    <3>1. CASE \E e, item : ConvertedFailure(e, item)
      <4>1. PICK e, item : ConvertedFailure(e, item)
        BY <3>1
      <4>2. Write(<<item>>, "relayEnds", "relayEnds") => ~At("read")' /\ ~(pc' = "write" /\ todo'.then = "read")
        BY WriteLeads DEF At
      <4>. QED
        BY <4>1, <4>2 DEF ConvertedFailure, Raise, Goto, At
    <3>2. CASE Write(relay.pending \o <<"done">>, "adapterEnds", "relayEnds")
      BY <3>2, WriteLeads DEF At
    <3>3. CASE /\ l = "delta" \/ relay.output \/ (l = "huge" /\ relay.pending = <<>>)
               /\ Write(relay.pending \o <<l>>, "read", "relayEnds")
               /\ relay' = [Cleared EXCEPT !.output = @ \/ l = "delta", !.visible = @ \/ l \in {"delta", "tool"}]
      <4>1. relay'.output = (relay.output \/ l = "delta")
        BY <1>0, <3>3 DEF Cleared, Relays
      <4>2. HeldBack' => HeldBack /\ l = "huge" /\ relay.pending = <<>>
        BY <1>0, <3>0, <3>3, <4>1 DEF HeldBack
      <4>3. pc' = "write" => todo'.items = relay.pending \o <<l>>
        BY <3>3, ReadWrites, Zenon
      <4>4. l = "huge" /\ relay.pending = <<>> => Head(relay.pending \o <<l>>) = "huge"
        <5>1. Head(<<>> \o <<l>>) = l
          OBVIOUS
        <5>. QED
          BY <5>1
      <4>. QED
        BY <1>0, <2>2, <3>0, <4>2, <4>3, <4>4
    <3>4. CASE /\ relay' = [relay EXCEPT !.pending = Append(@, l), !.visible = @ \/ l = "tool"]
               /\ UNCHANGED <<pc, todo>>
      <4>1. relay'.output = relay.output
        BY <1>0, <3>4 DEF Relays
      <4>2. HeldBack' = HeldBack
        BY <1>0, <3>0, <4>1 DEF HeldBack
      <4>. QED
        BY <2>1, <2>2, <3>4, <4>2
    <3>. QED
      BY <2>5, <3>1, <3>2, <3>3, <3>4 DEF ConvertLine
  <2>. QED
    BY <1>2, <2>3, <2>4, <2>5 DEF ReadLine
<1>3. CASE Commit
  <2>0. pc = "write"
    BY <1>3, Commits
  <2>1. CASE todo.then # "read"
    <3>1. ~At("read")'
      BY <1>3, <2>1, Commits DEF At, Thens, Elses
    <3>. QED
      BY <3>1 DEF At
  <2>2. CASE todo.then = "read" /\ CommitHeaders
    <3>1. relay'.headers = TRUE /\ relay'.output = relay.output /\ ~CommitBytes /\ Proceed /\ Item = "headers"
      BY <1>0, <2>2 DEF CommitHeaders, CommitBytes, HeadersAreOut, Relays
    <3>2. CASE plan.kind \in {"official", "transparent"}
      BY <1>0, <3>1, <3>2 DEF HeldBack
    <3>3. CASE plan.kind \notin {"official", "transparent"}
      <4>1. HeldBack' = HeldBack
        BY <1>0, <3>1, <3>3 DEF HeldBack
      <4>2. HeldBack => Clean'
        BY <1>0, <2>0, <2>2, <3>1, SeamKeeps DEF CleanUntilServed, Clean, At
      <4>3. HeldBack => Len(todo.items) = 1
        BY <1>0, <2>0, <2>2, <3>1, <3>3 DEF CleanUntilServed, Item, Kinds
      <4>4. HeldBack => Tail(todo.items) = <<>>
        <5>1. todo.items \in Seq(Writes)
          BY DEF Shapes, Todos
        <5>2. HeldBack => todo.items # <<>>
          BY <4>3, <5>1
        <5>3. HeldBack => Tail(todo.items) \in Seq(Writes) /\ Len(Tail(todo.items)) = 0
          BY <4>3, <5>1, <5>2, HeadTailProperties
        <5>. QED
          BY <5>3, EmptySeq
      <4>5. HeldBack => pc' = "read"
        BY <2>2, <3>1, <4>4 DEF Proceed, Write, Goto
      <4>. QED
        BY <4>1, <4>2, <4>5
    <3>. QED
      BY <3>2, <3>3
  <2>3. CASE todo.then = "read" /\ CommitBytes
    <3>1. relay' = relay /\ Item \notin {"headers", "huge"}
      BY <2>3 DEF CommitBytes
    <3>2. ~HeldBack
      BY <2>0, <2>3, <3>1 DEF CleanUntilServed, Item
    <3>3. ~HeldBack'
      BY <1>0, <3>1, <3>2 DEF HeldBack
    <3>. QED
      BY <3>3
  <2>4. CASE todo.then = "read" /\ (CommitFails \/ CommitRefused \/ FrameTooLarge)
    <3>1. Goto(todo.else) \/ Raise("tooLarge") \/ Write(TerminalFailure, "relayEnds", "relayEnds")
      BY <2>4 DEF CommitFails, CommitRefused, FrameTooLarge
    <3>2. Write(TerminalFailure, "relayEnds", "relayEnds") => ~At("read")'
      BY WriteLeads DEF At
    <3>3. ~At("read")'
      BY <1>3, <3>1, <3>2, Commits DEF Goto, Raise, At, Elses
    <3>. QED
      BY <3>3 DEF At
  <2>. QED
    BY <1>3, <2>1, <2>2, <2>3, <2>4 DEF Commit
<1>4. CASE Environment \/ UNCHANGED vars
  <2>1. UNCHANGED <<pc, todo, relay, seam>>
    BY <1>4 DEF Environment, ClientLeaves, Cancel, DeadlinePasses, vars
  <2>. QED
    BY <1>0, <2>1 DEF CleanUntilServed, At, HeldBack, Clean
<1>5. CASE Open \/ ReadEnds \/ ReadFails \/ ReadCancelled \/ AdapterEnds \/ RelayEnds \/ Handle
  <2>1. \/ \E x : Raise(x)
        \/ \E label : Goto(label) /\ label # "read" /\ label # "write"
        \/ \E items, then, else : Write(items, then, else) /\ then # "read" /\ then # "write"
    <3>1. CASE Open
      BY <3>1 DEF Open, EnterOpen, StartOpen, OpenSucceeds, OpenAgain, OpenFails
    <3>2. CASE ReadEnds \/ ReadFails \/ ReadCancelled \/ AdapterEnds \/ RelayEnds
      BY <3>2 DEF ReadEnds, ReadFails, StreamFailure, ConvertedFailure, ReadCancelled, AdapterEnds, RelayEnds
    <3>3. CASE Handle
      BY <3>3 DEF Handle, RetryRelay, GiveUpRelay, RelayAgain, ProtocolFallback, Propagate, DispatchSse, DispatchJson,
                  DispatchHttpError
    <3>. QED
      BY <1>5, <3>1, <3>2, <3>3
  <2>2. ~At("read")'
    BY <2>1, WriteLeads DEF Raise, Goto, At
  <2>. QED
    BY <2>2 DEF At
<1>. QED
  BY <1>1, <1>2, <1>3, <1>4, <1>5 DEF Next, Handler, Relay

LEMMA ReplayStep ==
  ASSUME Shapes, WriteIsPlanned, CleanUntilServed, GuardedOnce, [Next]_vars
  PROVE  CleanUntilServed' /\ GuardedOnce'
<1>0. plan' = plan /\ plan.idempotent \in BOOLEAN
  BY PlanIsFixed, PlanFacts DEF Shapes
<1>1. pc # "write" /\ Clean => Clean'
  <2>1. pc # "write" => ~CommitBytes
    BY DEF CommitBytes
  <2>. QED
    BY <1>0, <2>1, SeamKeeps DEF Clean
<1>2. pc' \in {"enter", "open", "opening", "openWait", "relay", "relayWait"} => Clean'
  <2>1. CASE pc \in {"enter", "open", "opening", "openWait", "relay", "relayWait"}
    BY <1>1, <2>1 DEF CleanUntilServed
  <2>2. CASE pc = "write"
    <3>1. pc' \in {"enter", "open", "opening", "openWait", "relay", "relayWait"} => plan.notice
      <4>1. ~RelayAgain /\ ~ProtocolFallback /\ ~EnterOpen /\ ~OpenAgain /\ ~StartOpen /\ ~OpenSucceeds /\ ~RetryRelay
        BY <2>2 DEF RelayAgain, ProtocolFallback, EnterOpen, OpenAgain, StartOpen, OpenSucceeds, RetryRelay
      <4>2. ~\E e \in OpenErrors : OpenFails(e)
        BY <2>2 DEF OpenFails
      <4>. QED
        BY <2>2, <4>1, <4>2, Destinations DEF At, WriteIsPlanned
    <3>. QED
      BY <1>0, <3>1 DEF Clean
  <2>3. CASE pc \notin {"enter", "open", "opening", "openWait", "relay", "relayWait", "write"}
    <3>1. /\ ~RelayAgain /\ ~EnterOpen /\ ~OpenAgain /\ ~StartOpen /\ ~OpenSucceeds
          /\ ~\E e \in OpenErrors : OpenFails(e)
      BY <2>3 DEF RelayAgain, EnterOpen, OpenAgain, StartOpen, OpenSucceeds, OpenFails
    <3>2. pc' \in {"enter", "open", "opening", "openWait", "relay", "relayWait"} => ProtocolFallback \/ RetryRelay
      BY <2>3, <3>1, Destinations DEF At
    <3>3. ProtocolFallback \/ RetryRelay => Clean
      BY DEF ProtocolFallback, RetryRelay, CleanUntilServed
    <3>. QED
      BY <1>1, <2>3, <3>2, <3>3
  <2>. QED
    BY <2>1, <2>2, <2>3
<1>3. pc' = "raised" /\ exc' \in RelayRetryable \cup HttpErrors => Clean'
  <2>. SUFFICES ASSUME pc' = "raised" /\ exc' \in RelayRetryable \cup HttpErrors PROVE Clean'
    OBVIOUS
  <2>1. pc # "write" /\ Clean
    BY RetryableRaises DEF CleanUntilServed, At
  <2>. QED
    BY <1>1, <2>1
<1>4. CleanUntilServed'
  BY <1>2, <1>3, HeldBackStep DEF CleanUntilServed
<1>5. GuardedOnce'
  <2>. SUFFICES ASSUME GuardedPost PROVE /\ ~At("relayWait")'
                                         /\ pc' \in {"enter", "open", "opening"} \/ At("openWait")'
                                                => (~written' \/ plan.idempotent) /\ ~seam'.exposed
    BY <1>0 DEF GuardedOnce, GuardedPost
  <2>0. ~RetryRelay /\ ~ProtocolFallback /\ ~RelayAgain /\ ~At("relayWait")
    BY DEF GuardedOnce, RetryRelay, ProtocolFallback, RelayAgain, RelaySuppressed, At
  <2>1. ~At("relayWait")'
    BY <2>0, Destinations
  <2>2. CASE \E e \in OpenErrors : OpenFails(e)
    <3>1. PICK e \in OpenErrors : OpenFails(e)
      BY <2>2
    <3>2. seam' = seam /\ pc = "opening" /\ ~seam.exposed /\ (~written \/ plan.idempotent) /\ written' = (written \/ e # "prewrite")
      BY <3>1 DEF OpenFails, GuardedOnce
    <3>3. pc' \in {"enter", "open", "opening"} \/ At("openWait")' => ~OpenSuppressed(e)
      BY <3>1 DEF OpenFails, Raise, Goto, At
    <3>4. pc' \in {"enter", "open", "opening"} \/ At("openWait")' => e = "prewrite" \/ plan.idempotent
      BY <3>3 DEF OpenSuppressed
    <3>5. pc' \in {"enter", "open", "opening"} \/ At("openWait")' => ~written' \/ plan.idempotent
      BY <3>2, <3>4, Zenon
    <3>. QED
      BY <2>1, <3>2, <3>5
  <2>3. CASE ~\E e \in OpenErrors : OpenFails(e)
    <3>1. pc' \in {"enter", "open", "opening"} \/ At("openWait")' =>
            /\ pc # "read"
            /\ pc \in {"enter", "open", "opening"} \/ At("openWait")
      BY <2>0, <2>3, Destinations DEF EnterOpen, OpenAgain, StartOpen, At
    <3>2. pc' \in {"enter", "open", "opening"} \/ At("openWait")' => written' = written
      <4>1. CASE pc = "opening" /\ OpenSucceeds
        BY <4>1 DEF OpenSucceeds, Raise, Goto, At
      <4>2. CASE pc = "opening" /\ ~OpenSucceeds
        <5>1. Environment \/ UNCHANGED vars
          BY <2>3, <4>2 DEF Next, Handler, Open, EnterOpen, StartOpen, OpenAgain, Relay, StartRelay, ReadEnds, ReadFails,
             ReadCancelled, AdapterEnds, RelayEnds, ReadLine, Commit, CommitHeaders, CommitBytes, CommitFails, CommitRefused,
             FrameTooLarge, Handle, RetryRelay, GiveUpRelay, RelayAgain, ProtocolFallback, Propagate, DispatchSse,
             DispatchJson, DispatchHttpError
        <5>. QED
          BY <5>1 DEF Environment, ClientLeaves, Cancel, DeadlinePasses, vars
      <4>. QED
        BY <4>1, <4>2, SeamKeeps
    <3>3. pc' \in {"enter", "open", "opening"} \/ At("openWait")' =>
            /\ (~written \/ plan.idempotent) /\ ~seam.exposed
            /\ seam'.exposed = seam.exposed
      BY <3>1, SeamKeeps DEF GuardedOnce
    <3>4. pc' \in {"enter", "open", "opening"} \/ At("openWait")' => (~written' \/ plan.idempotent)
      BY <3>2, <3>3, Zenon
    <3>5. pc' \in {"enter", "open", "opening"} \/ At("openWait")' => ~seam'.exposed
      BY <3>3, Zenon
    <3>. QED
      BY <2>1, <3>4, <3>5
  <2>. QED
    BY <2>1, <2>2, <2>3
<1>. QED
  BY <1>4, <1>5

-----------------------------------------------------------------------------
(* The upstream response *)

(* The handler is in a relay, or writes for one *)
Relaying == pc = "relay" \/ At("read") \/ At("adapterEnds") \/ At("relayEnds")

(* A relay goes on, or releases its upstream *)
LEMMA RelayGoesOn ==
  ASSUME Shapes, Relay
  PROVE  response' = "closed" \/ (response' = response /\ Relaying')
<1>1. CASE \E l \in Lines : ReadLine(l)
  <2>1. \/ response' = "closed"
        \/ response' = response /\ UNCHANGED <<pc, todo>>
        \/ /\ response' = response
           /\ \E items : Write(items, "read", "relayEnds") \/ Write(items, "adapterEnds", "relayEnds")
                         \/ Write(items, "relayEnds", "relayEnds")
    BY <1>1 DEF ReadLine, PassLine, HoldLine, ConvertLine, ConvertedFailure
  <2>2. CASE UNCHANGED <<pc, todo>>
    BY <1>1, <2>1, <2>2 DEF ReadLine, Relaying, At
  <2>3. CASE \E items : Write(items, "read", "relayEnds") \/ Write(items, "adapterEnds", "relayEnds")
                        \/ Write(items, "relayEnds", "relayEnds")
    <3>1. Relaying'
      BY <2>3, WriteLeads DEF Relaying, At
    <3>. QED
      BY <2>1, <3>1
  <2>. QED
    BY <2>1, <2>2, <2>3
<1>2. CASE StartRelay \/ ReadEnds \/ ReadFails \/ ReadCancelled \/ AdapterEnds \/ RelayEnds
  <2>1. \/ response' = "closed"
        \/ response' = response /\ Goto("relayEnds")
        \/ /\ response' = response
           /\ \E items : Write(items, "read", "relayEnds") \/ Write(items, "adapterEnds", "relayEnds")
                         \/ Write(items, "relayEnds", "relayEnds")
    BY <1>2 DEF StartRelay, ReadEnds, ReadFails, StreamFailure, ConvertedFailure, ReadCancelled, AdapterEnds, RelayEnds
  <2>2. CASE Goto("relayEnds")
    BY <2>1, <2>2 DEF Goto, Relaying, At
  <2>3. CASE \E items : Write(items, "read", "relayEnds") \/ Write(items, "adapterEnds", "relayEnds")
                        \/ Write(items, "relayEnds", "relayEnds")
    <3>1. Relaying'
      BY <2>3, WriteLeads DEF Relaying, At
    <3>. QED
      BY <2>1, <3>1
  <2>. QED
    BY <2>1, <2>2, <2>3
<1>. QED
  BY <1>1, <1>2 DEF Relay

LEMMA ReleaseStep ==
  ASSUME Shapes, WriteIsPlanned, OpenIsRelayed, [Next]_vars
  PROVE  OpenIsRelayed'
<1>. SUFFICES ASSUME response' = "open"
              PROVE  ~cancelled' /\ (seam'.closed => seam'.terminal) /\ Relaying'
  BY DEF OpenIsRelayed, Relaying
<1>0. response = "open" => ~cancelled /\ (seam.closed => seam.terminal) /\ Relaying
  BY DEF OpenIsRelayed, Relaying
<1>1. CASE Open
  <2>1. CASE OpenSucceeds
    BY <2>1 DEF OpenSucceeds, Goto, Raise, env, Relaying, At
  <2>2. CASE ~OpenSucceeds
    <3>1. response' = response
      BY <1>1, <2>2 DEF Open, EnterOpen, StartOpen, OpenAgain, OpenFails
    <3>2. pc \notin {"relay", "write", "read", "adapterEnds", "relayEnds"}
      BY <1>1 DEF Open, EnterOpen, StartOpen, OpenSucceeds, OpenAgain, OpenFails
    <3>. QED
      BY <1>0, <3>1, <3>2 DEF Relaying, At
  <2>. QED
    BY <2>1, <2>2
<1>2. CASE Relay
  <2>1. response = "open" /\ Relaying'
    BY <1>2, RelayGoesOn
  <2>2. cancelled' = cancelled
    BY <1>2 DEF Relay, StartRelay, ReadEnds, ReadFails, ReadCancelled, AdapterEnds, RelayEnds, ReadLine, env
  <2>3. seam'.closed = seam.closed /\ seam'.terminal = seam.terminal
    <3>1. CASE \E l \in Lines : ReadLine(l)
      BY <3>1 DEF ReadLine, PassLine, HoldLine, ConvertLine, Seams, Shapes
    <3>2. CASE StartRelay
      BY <3>2 DEF StartRelay, Seams, Shapes
    <3>3. CASE ReadEnds \/ ReadFails \/ ReadCancelled \/ AdapterEnds \/ RelayEnds
      BY <3>3 DEF ReadEnds, ReadFails, ReadCancelled, AdapterEnds, RelayEnds
    <3>. QED
      BY <1>2, <3>1, <3>2, <3>3 DEF Relay
  <2>. QED
    BY <1>0, <2>1, <2>2, <2>3
<1>3. CASE Commit
  <2>1. pc = "write" /\ cancelled' = cancelled /\ todo.then \in Thens
    BY <1>3, Commits DEF env
  <2>2. response = "open" /\ ~CommitFails
    BY <1>3 DEF Commit, CommitHeaders, CommitBytes, CommitFails, CommitRefused, FrameTooLarge
  <2>3. todo.then \in {"read", "adapterEnds", "relayEnds"} /\ todo.else = "relayEnds"
    BY <1>0, <2>1, <2>2 DEF Relaying, At, WriteIsPlanned
  <2>4. Relaying'
    <3>1. Proceed \/ Goto(todo.else) \/ Write(TerminalFailure, "relayEnds", "relayEnds")
      BY <1>3, <2>2 DEF Commit, CommitHeaders, CommitBytes, CommitFails, CommitRefused, FrameTooLarge
    <3>2. CASE Proceed
      BY <2>3, <3>2, WriteLeads DEF Proceed, Relaying, At
    <3>3. CASE Goto(todo.else)
      BY <2>3, <3>3 DEF Goto, Relaying, At
    <3>4. CASE Write(TerminalFailure, "relayEnds", "relayEnds")
      BY <3>4, WriteLeads DEF Relaying, At
    <3>. QED
      BY <3>1, <3>2, <3>3, <3>4
  <2>5. seam'.closed => seam'.terminal
    <3>1. CASE CommitHeaders
      BY <1>0, <2>2, <3>1 DEF CommitHeaders, Seams, Shapes
    <3>2. CASE CommitBytes
      BY <1>0, <2>2, <3>2 DEF CommitBytes, Seams, Shapes
    <3>3. CASE CommitRefused \/ FrameTooLarge
      BY <1>0, <2>2, <3>3 DEF CommitRefused, FrameTooLarge
    <3>. QED
      BY <1>3, <2>2, <3>1, <3>2, <3>3 DEF Commit
  <2>. QED
    BY <1>0, <2>1, <2>2, <2>4, <2>5
<1>4. CASE Handle
  <2>1. response' = response
    BY <1>4 DEF Handle, RetryRelay, GiveUpRelay, RelayAgain, ProtocolFallback, Propagate, DispatchSse, DispatchJson,
                DispatchHttpError
  <2>2. pc \in {"raised", "relayWait", "dispatch"}
    BY <1>4 DEF Handle, RetryRelay, GiveUpRelay, RelayAgain, ProtocolFallback, Propagate, DispatchSse, DispatchJson,
                DispatchHttpError
  <2>. QED
    BY <1>0, <2>1, <2>2 DEF Relaying, At
<1>5. CASE Environment \/ UNCHANGED vars
  <2>1. response' = response /\ UNCHANGED <<pc, todo, seam, cancelled>>
    BY <1>5 DEF Environment, ClientLeaves, Cancel, DeadlinePasses, vars, env
  <2>. QED
    BY <1>0, <2>1 DEF Relaying, At
<1>. QED
  BY <1>1, <1>2, <1>3, <1>4, <1>5 DEF Next, Handler

-----------------------------------------------------------------------------
(* How the client learns of the end *)

LEMMA LastOfTail ==
  ASSUME NEW S, NEW s \in Seq(S), s # <<>>
  PROVE  /\ Tail(s) # <<>> => Tail(s)[Len(Tail(s))] = s[Len(s)]
         /\ Tail(s) = <<>> => Head(s) = s[Len(s)] /\ Len(s) = 1
<1>1. Len(s) \in Nat /\ Len(s) >= 1 /\ Len(Tail(s)) = Len(s) - 1 /\ Tail(s) \in Seq(S)
  BY EmptySeq, LenProperties, HeadTailProperties
<1>2. CASE Tail(s) # <<>>
  <2>1. Len(Tail(s)) >= 1
    BY <1>1, <1>2, EmptySeq
  <2>2. Tail(s)[Len(Tail(s))] = s[Len(Tail(s)) + 1]
    BY <1>1, <2>1
  <2>. QED
    BY <1>1, <1>2, <2>2
<1>3. CASE Tail(s) = <<>>
  BY <1>1, <1>3
<1>. QED
  BY <1>2, <1>3

LEMMA LastOfAppend ==
  ASSUME NEW S, NEW p \in Seq(S), NEW x \in S
  PROVE  /\ (p \o <<x>>)[Len(p \o <<x>>)] = x /\ p \o <<x>> # <<>>
         /\ Append(p, x)[Len(Append(p, x))] = x /\ Append(p, x) # <<>>
  OBVIOUS

(* A run of writes ends with its last item, is refused, or fails *)
LEMMA CommitEnds ==
  ASSUME Shapes, WriteIsPlanned, Commit, pc' # "write"
  PROVE  \/ (CommitHeaders \/ CommitBytes) /\ Item = LastItem /\ Len(todo.items) = 1 /\ pc' = todo.then
         \/ (CommitFails \/ CommitRefused) /\ pc' = todo.else
         \/ pc' = "raised"
<1>0. todo.items \in Seq(Writes) /\ todo.items # <<>>
  BY Commits DEF Shapes, Todos, WriteIsPlanned
<1>1. CASE CommitHeaders \/ CommitBytes
  <2>1. Proceed
    BY <1>1 DEF CommitHeaders, CommitBytes
  <2>2. Tail(todo.items) = <<>> /\ pc' = todo.then
    BY <2>1 DEF Proceed, Write, Goto
  <2>. QED
    BY <1>0, <1>1, <2>2, LastOfTail DEF Item, LastItem
<1>2. CASE CommitFails \/ CommitRefused
  BY <1>2 DEF CommitFails, CommitRefused, Goto
<1>3. CASE FrameTooLarge
  <2>1. TerminalFailure # <<>>
    BY DEF TerminalFailure
  <2>2. ~Write(TerminalFailure, "relayEnds", "relayEnds")
    BY <2>1 DEF Write
  <2>. QED
    BY <1>3, <2>2 DEF FrameTooLarge, Raise, Goto
<1>. QED
  BY <1>1, <1>2, <1>3 DEF Commit

(* A terminal event seals the stream and is the last thing in it *)
LEMMA SealingCommit ==
  ASSUME Shapes, CommitBytes, Item \in {"done", "failed", "errorEvent"}
  PROVE  seam'.closed /\ TerminalSent'
<1>1. seam'.closed
  BY DEF CommitBytes, TerminalItems, Shapes, Seams
<1>2. wire' = Append(wire, "terminal") /\ wire \in Seq({"headers", "data", "begun", "terminal"})
  <2>1. wire' = Append(wire, OnWire(Item)) /\ OnWire(Item) = "terminal"
    BY DEF CommitBytes, OnWire, TerminalItems
  <2>. QED
    BY <2>1 DEF Shapes
<1>. QED
  BY <1>1, <1>2, LastOfAppend DEF TerminalSent

(* A request that ended stays ended *)
LEMMA DoneIsFinal ==
  ASSUME [Next]_vars, pc = "done"
  PROVE  ClientLeaves \/ DeadlinePasses \/ UNCHANGED vars
  BY DEF Next, Handler, Open, EnterOpen, StartOpen, OpenSucceeds, OpenAgain, OpenFails, Relay, StartRelay, ReadEnds, ReadFails,
         ReadCancelled, AdapterEnds, RelayEnds, ReadLine, Commit, CommitHeaders, CommitBytes, CommitFails, CommitRefused,
         FrameTooLarge, Handle, RetryRelay, GiveUpRelay, RelayAgain, ProtocolFallback, Propagate, DispatchSse,
         DispatchJson, DispatchHttpError, Environment, Cancel

LEMMA DirectStep ==
  ASSUME Shapes, EndIsTold, [Next]_vars
  PROVE  (pc # "done" => direct = <<>>)' /\ (direct' = direct \/ DispatchJson) /\ (pc # "done" /\ ~DispatchJson => direct' = <<>>)
<1>1. direct' = direct \/ DispatchJson
  BY DEF Next, Handler, Environment, Open, Relay, Commit, Handle, EnterOpen, StartOpen, OpenSucceeds, OpenAgain, OpenFails,
         StartRelay, ReadEnds, ReadFails, ReadCancelled, AdapterEnds, RelayEnds, ReadLine, CommitHeaders, CommitBytes,
         CommitFails, CommitRefused, FrameTooLarge, RetryRelay, GiveUpRelay, RelayAgain, ProtocolFallback, Propagate,
         DispatchSse, DispatchHttpError, ClientLeaves, Cancel, DeadlinePasses, vars
<1>2. DispatchJson => pc' = "done"
  BY DEF DispatchJson, Goto
<1>3. pc = "done" => pc' = "done"
  BY DoneIsFinal DEF ClientLeaves, DeadlinePasses, vars
<1>. QED
  BY <1>1, <1>2, <1>3 DEF EndIsTold

(* The seam: headers are on the wire, and it is closed by a terminal event, by *)
(* a client that left or by a cancellation                                     *)
LEMMA SealStep ==
  ASSUME Shapes, EndIsTold, [Next]_vars
  PROVE  /\ (seam.headers => wire # <<>>)'
         /\ (seam.closed /\ Present => TerminalSent)'
         /\ CommitHeaders \/ CommitBytes \/ wire' = wire
         /\ Present' => Present
<1>0. /\ seam.headers => wire # <<>>
      /\ seam.closed /\ Present => TerminalSent
      /\ seam \in Seams /\ wire \in Seq({"headers", "data", "begun", "terminal"})
  BY DEF EndIsTold, Shapes
<1>1. CASE CommitHeaders
  <2>1. Present' = Present /\ seam'.closed = seam.closed
    BY <1>0, <1>1 DEF CommitHeaders, Present, env, Seams
  <2>2. CASE seam.headers
    <3>1. wire' = wire
      BY <1>1, <2>2 DEF CommitHeaders
    <3>. QED
      BY <1>0, <1>1, <2>1, <2>2, <3>1 DEF TerminalSent
  <2>3. CASE ~seam.headers
    <3>1. wire' = Append(wire, "headers") /\ ~seam.closed
      BY <1>1, <2>3 DEF CommitHeaders
    <3>2. wire' # <<>>
      BY <1>0, <3>1, LastOfAppend
    <3>. QED
      BY <1>0, <1>1, <2>1, <3>1, <3>2
  <2>. QED
    BY <2>2, <2>3
<1>2. CASE CommitBytes
  <2>1. Present' = Present /\ ~seam.closed /\ seam'.headers = seam.headers
    BY <1>0, <1>2 DEF CommitBytes, Present, env, Seams
  <2>2. wire' # <<>>
    BY <1>0, <1>2, LastOfAppend DEF CommitBytes
  <2>3. seam'.closed => TerminalSent'
    <3>1. seam'.closed => Item \in TerminalItems
      BY <1>0, <1>2, <2>1 DEF CommitBytes, Seams
    <3>2. Item \in TerminalItems => wire' = Append(wire, "terminal")
      BY <1>2 DEF CommitBytes, OnWire
    <3>. QED
      BY <1>0, <3>1, <3>2, LastOfAppend DEF TerminalSent
  <2>. QED
    BY <1>2, <2>1, <2>2, <2>3
<1>3. CASE ~CommitHeaders /\ ~CommitBytes
  <2>1. wire' = wire
    BY <1>3 DEF Next, Handler, Environment, Open, Relay, Commit, Handle, EnterOpen, StartOpen, OpenSucceeds, OpenAgain,
         OpenFails, StartRelay, ReadEnds, ReadFails, ReadCancelled, AdapterEnds, RelayEnds, ReadLine,
         CommitFails, CommitRefused, FrameTooLarge, RetryRelay, GiveUpRelay, RelayAgain, ProtocolFallback, Propagate,
         DispatchSse, DispatchJson, DispatchHttpError, ClientLeaves, Cancel, DeadlinePasses, vars
  <2>2. Present' => Present
    BY DEF Present, Shapes, Next, Handler, Environment, Open, Relay, Commit, Handle, EnterOpen, StartOpen, OpenSucceeds, OpenAgain,
         OpenFails, StartRelay, ReadEnds, ReadFails, ReadCancelled, AdapterEnds, RelayEnds, ReadLine, CommitHeaders, CommitBytes,
         CommitFails, CommitRefused, FrameTooLarge, RetryRelay, GiveUpRelay, RelayAgain, ProtocolFallback, Propagate,
         DispatchSse, DispatchJson, DispatchHttpError, ClientLeaves, Cancel, DeadlinePasses, vars, env
  <2>3. seam'.headers = seam.headers /\ (seam'.closed = seam.closed \/ ~Present')
    <3>1. CASE Open \/ Handle \/ Environment \/ UNCHANGED vars
      BY <3>1 DEF Open, EnterOpen, StartOpen, OpenSucceeds, OpenAgain, OpenFails, Handle, RetryRelay, GiveUpRelay, RelayAgain,
         ProtocolFallback, Propagate, DispatchSse, DispatchJson, DispatchHttpError, Environment, ClientLeaves, Cancel,
         DeadlinePasses, vars
    <3>2. CASE \E l \in Lines : ReadLine(l)
      BY <1>0, <3>2 DEF ReadLine, PassLine, HoldLine, ConvertLine, Seams
    <3>3. CASE StartRelay
      BY <1>0, <3>3 DEF StartRelay, Seams
    <3>4. CASE ReadEnds \/ ReadFails \/ AdapterEnds \/ RelayEnds \/ CommitRefused \/ FrameTooLarge
      BY <3>4 DEF ReadEnds, ReadFails, AdapterEnds, RelayEnds, CommitRefused, FrameTooLarge
    <3>5. CASE ReadCancelled
      BY <1>0, <3>5 DEF ReadCancelled, Seams, Present, env
    <3>6. CASE CommitFails
      BY <1>0, <3>6 DEF CommitFails, Seams, Present, env
    <3>. QED
      BY <1>3, <3>1, <3>2, <3>3, <3>4, <3>5, <3>6 DEF Next, Handler, Relay, Commit
  <2>. QED
    BY <1>0, <2>1, <2>2, <2>3 DEF TerminalSent
<1>. QED
  BY <1>1, <1>2, <1>3

(* A run of writes that leads out of the relay ends with an event that says so *)
LEMMA LastItemStep ==
  ASSUME Shapes, WriteIsPlanned, EndIsTold, [Next]_vars
  PROVE  (pc = "write" =>
            /\ todo.then = "adapterEnds" => LastItem = "done"
            /\ todo.then = "relayEnds" => LastItem \in {"failed", "errorEvent"} \/ ending = "eof"
            /\ todo.then = "done" => LastItem \in {"failed", "errorEvent"} \/ (ending = "http" /\ todo.items = <<"headers">>))'
<1>. SUFFICES ASSUME pc' = "write"
              PROVE  /\ todo'.then = "adapterEnds" => LastItem' = "done"
                     /\ todo'.then = "relayEnds" => LastItem' \in {"failed", "errorEvent"} \/ ending' = "eof"
                     /\ todo'.then = "done" =>
                          LastItem' \in {"failed", "errorEvent"} \/ (ending' = "http" /\ todo'.items = <<"headers">>)
  BY Zenon
<1>0. /\ relay.pending \in Seq(Writes) /\ "done" \in Writes /\ "failed" \in Writes /\ "errorEvent" \in Writes
      /\ todo.items \in Seq(Writes)
  BY ItemShapes DEF Writes, LineKinds, Shapes, Todos
<1>1. \A items, then, else : Write(items, then, else) /\ then # "write" => todo'.then = then /\ todo'.items = items
  BY DEF Write, Goto
<1>2. ~(\E e : Raise(e)) /\ ~Goto("relayEnds") /\ ~Goto("done") /\ ~Goto("dispatch")
  BY DEF Raise, Goto
<1>3. TerminalFailure[Len(TerminalFailure)] = "failed"
  <2>1. <<"completion">> \in Seq(Writes) /\ <<>> \in Seq(Writes)
    BY DEF Writes
  <2>2. (IF seam.frame = "terminal" THEN <<"completion">> ELSE <<>>) \in Seq(Writes)
    BY <2>1, Zenon
  <2>. QED
    BY <1>0, <2>2, LastOfAppend DEF TerminalFailure
<1>4. \A e, item : ConvertedFailure(e, item) /\ item \in {"failed", "errorEvent"} =>
          todo'.then = "relayEnds" /\ LastItem' \in {"failed", "errorEvent"}
  <2>. SUFFICES ASSUME NEW e, NEW item \in {"failed", "errorEvent"}, ConvertedFailure(e, item)
                PROVE  todo'.then = "relayEnds" /\ LastItem' \in {"failed", "errorEvent"}
    BY Zenon
  <2>1. Write(<<item>>, "relayEnds", "relayEnds")
    BY <1>2 DEF ConvertedFailure
  <2>2. todo'.then = "relayEnds" /\ todo'.items = <<item>>
    BY <1>1, <2>1
  <2>3. <<item>>[Len(<<item>>)] = item
    OBVIOUS
  <2>. QED
    BY <2>2, <2>3 DEF LastItem
<1>5. Write(relay.pending \o <<"done">>, "adapterEnds", "relayEnds") => todo'.then = "adapterEnds" /\ LastItem' = "done"
  <2>. SUFFICES ASSUME Write(relay.pending \o <<"done">>, "adapterEnds", "relayEnds")
                PROVE  todo'.then = "adapterEnds" /\ LastItem' = "done"
    OBVIOUS
  <2>1. todo'.then = "adapterEnds" /\ todo'.items = relay.pending \o <<"done">>
    BY DEF Write, Goto
  <2>2. (relay.pending \o <<"done">>)[Len(relay.pending \o <<"done">>)] = "done"
    BY <1>0, LastOfAppend
  <2>. QED
    BY <2>1, <2>2, Zenon DEF LastItem
<1>6. Write(TerminalFailure, "relayEnds", "relayEnds") => todo'.then = "relayEnds" /\ LastItem' = "failed"
  BY <1>3 DEF Write, Goto, LastItem
<1>7. CASE Open
  <2>1. \/ \E x : Raise(x)
        \/ Goto("open") \/ Goto("opening") \/ Goto("relay")
        \/ \E items : Write(items, "openWait", "done")
    BY <1>7 DEF Open, EnterOpen, StartOpen, OpenSucceeds, OpenAgain, OpenFails
  <2>2. todo'.then = "openWait"
    BY <1>1, <1>2, <2>1 DEF Goto
  <2>. QED
    BY <2>2
<1>8. CASE Relay
  <2>1. CASE \E l \in Lines : ReadLine(l)
    <3>1. pc = "read" /\ ending' = ending
      BY <2>1 DEF ReadLine
    <3>2. \/ \E items : Write(items, "read", "relayEnds")
          \/ Write(relay.pending \o <<"done">>, "adapterEnds", "relayEnds")
          \/ \E e : ConvertedFailure(e, "failed")
          \/ pc' = pc
      BY <1>2, <2>1 DEF ReadLine, PassLine, HoldLine, ConvertLine
    <3>3. CASE \E items : Write(items, "read", "relayEnds")
      <4>1. todo'.then = "read"
        BY <1>1, <3>3
      <4>. QED
        BY <4>1
    <3>. QED
      BY <1>4, <1>5, <3>1, <3>2, <3>3
  <2>2. CASE ReadEnds
    <3>1. CASE plan.kind = "transparent" /\ ending' = "eof" /\ \E items : Write(items, "relayEnds", "relayEnds")
      <4>1. todo'.then = "relayEnds"
        BY <1>1, <3>1
      <4>. QED
        BY <3>1, <4>1
    <3>2. CASE \/ Write(relay.pending \o <<"done">>, "adapterEnds", "relayEnds")
               \/ ConvertedFailure("ended", "errorEvent")
      BY <1>4, <1>5, <3>2
    <3>. QED
      BY <1>2, <2>2, <3>1, <3>2 DEF ReadEnds
  <2>3. CASE ReadFails
    <3>1. Write(TerminalFailure, "relayEnds", "relayEnds") \/ ConvertedFailure("interrupted", "errorEvent")
      BY <1>2, <2>3 DEF ReadFails, StreamFailure
    <3>. QED
      BY <1>4, <1>6, <3>1
  <2>4. CASE StartRelay
    <3>1. \E items : Write(items, "read", "relayEnds")
      BY <2>4 DEF StartRelay
    <3>2. todo'.then = "read"
      BY <1>1, <3>1
    <3>. QED
      BY <3>2
  <2>5. CASE ReadCancelled \/ AdapterEnds \/ RelayEnds
    BY <1>2, <2>5 DEF ReadCancelled, AdapterEnds, RelayEnds
  <2>. QED
    BY <1>8, <2>1, <2>2, <2>3, <2>4, <2>5 DEF Relay
<1>9. CASE Commit
  <2>0. pc = "write" /\ todo.items # <<>> /\ ending' = ending /\ todo.then \in Thens
    BY <1>9, Commits DEF WriteIsPlanned
  <2>1. CASE Proceed
    <3>1. Tail(todo.items) # <<>> /\ todo'.items = Tail(todo.items) /\ todo'.then = todo.then
      <4>1. todo.then # "write"
        BY <2>0 DEF Thens
      <4>. QED
        BY <1>1, <2>1, <4>1 DEF Proceed, Write, Goto
    <3>2. LastItem' = LastItem /\ todo.items # <<"headers">>
      <4>1. Tail(<<"headers">>) = <<>>
        OBVIOUS
      <4>2. Tail(todo.items)[Len(Tail(todo.items))] = todo.items[Len(todo.items)]
        BY <1>0, <2>0, <3>1, LastOfTail
      <4>. QED
        BY <3>1, <4>1, <4>2, Zenon DEF LastItem
    <3>. QED
      BY <2>0, <3>1, <3>2 DEF EndIsTold
  <2>2. CASE Write(TerminalFailure, "relayEnds", "relayEnds")
    BY <1>6, <2>2
  <2>3. CASE Goto(todo.else) \/ Raise("tooLarge")
    BY <1>2, <1>9, <2>3, Commits DEF Elses
  <2>. QED
    BY <1>9, <2>1, <2>2, <2>3, Commits
<1>10. CASE Handle
  <2>1. CASE RetryRelay
    <3>1. \E items : Write(items, "relayWait", "done")
      BY <2>1 DEF RetryRelay
    <3>2. todo'.then = "relayWait"
      BY <1>1, <3>1
    <3>. QED
      BY <3>2
  <2>2. CASE GiveUpRelay
    <3>1. Write(IF Exposed THEN <<"failed">> ELSE <<"headers", "failed">>, "done", "done")
      BY <1>2, <2>2 DEF GiveUpRelay
    <3>2. PICK items \in {<<"failed">>, <<"headers", "failed">>} : Write(items, "done", "done")
      BY <3>1
    <3>3. todo'.then = "done" /\ todo'.items = items
      BY <1>1, <3>2
    <3>4. items[Len(items)] = "failed"
      <4>1. <<"failed">>[Len(<<"failed">>)] = "failed"
        OBVIOUS
      <4>2. <<"headers", "failed">>[Len(<<"headers", "failed">>)] = "failed"
        OBVIOUS
      <4>. QED
        BY <3>2, <4>1, <4>2, Zenon
    <3>. QED
      BY <3>3, <3>4 DEF LastItem
  <2>3. CASE DispatchSse
    <3>1. todo'.then = "done" /\ todo'.items = <<"errorEvent">>
      BY <1>1, <2>3 DEF DispatchSse
    <3>2. <<"errorEvent">>[Len(<<"errorEvent">>)] = "errorEvent"
      OBVIOUS
    <3>. QED
      BY <3>1, <3>2 DEF LastItem
  <2>4. CASE DispatchHttpError
    <3>1. todo'.then = "done" /\ todo'.items = <<"headers">> /\ ending' = "http"
      BY <1>1, <2>4 DEF DispatchHttpError
    <3>. QED
      BY <3>1
  <2>5. CASE RelayAgain \/ ProtocolFallback \/ Propagate \/ DispatchJson
    BY <2>5 DEF RelayAgain, ProtocolFallback, Propagate, DispatchJson, Raise, Goto
  <2>. QED
    BY <1>10, <2>1, <2>2, <2>3, <2>4, <2>5 DEF Handle
<1>11. CASE Environment \/ UNCHANGED vars
  <2>1. UNCHANGED <<pc, todo, ending>>
    BY <1>11 DEF Environment, ClientLeaves, Cancel, DeadlinePasses, vars
  <2>. QED
    BY <2>1 DEF EndIsTold, LastItem
<1>. QED
  BY <1>7, <1>8, <1>9, <1>10, <1>11 DEF Next, Handler

(* The relays stop when the stream is sealed, or told why it is not *)
LEMMA ArrivalStep ==
  ASSUME Shapes, WriteIsPlanned, EndIsTold, StartIsMarked, [Next]_vars
  PROVE  /\ (pc = "adapterEnds" /\ Present => seam.closed)'
         /\ (pc = "relayEnds" /\ Present => seam.closed \/ ending = "eof")'
         /\ ClientIsTold'
<1>. SUFFICES ASSUME Present', pc' \in {"adapterEnds", "relayEnds", "done"}
              PROVE  /\ pc' = "adapterEnds" => seam'.closed
                     /\ pc' = "relayEnds" => seam'.closed \/ ending' = "eof"
                     /\ pc' = "done" /\ ending' # "eof" =>
                            \/ wire' = <<>> /\ direct' = <<"json">>
                            \/ wire' # <<>> /\ direct' = <<>> /\ (ending' = "http" \/ wire'[Len(wire')] = "terminal")
                            \/ wire' # <<>> /\ direct' = <<"json">> /\ AnsweredIntoStream'
  BY DEF ClientIsTold, Present
<1>0. Present /\ (seam'.closed => TerminalSent') /\ (Commit \/ Relay => direct' = <<>>)
  <2>1. Commit \/ Relay => pc # "done" /\ ~DispatchJson
    BY DEF Commit, CommitHeaders, CommitBytes, CommitFails, CommitRefused, FrameTooLarge, Relay, StartRelay, ReadEnds,
           ReadFails, ReadCancelled, AdapterEnds, RelayEnds, ReadLine, DispatchJson
  <2>. QED
    BY <2>1, SealStep, DirectStep
<1>1. CASE Commit
  <2>0. /\ pc = "write" /\ todo.then \in Thens /\ ending' = ending /\ ~CommitFails
        /\ pc' = "relayEnds" \/ pc' = "done" \/ pc' = "adapterEnds"
    <3>1. ~CommitFails
      BY <1>0 DEF CommitFails, Present
    <3>. QED
      BY <1>1, <3>1, Commits
  <2>1. CASE CommitHeaders /\ Item = LastItem /\ Len(todo.items) = 1 /\ pc' = todo.then
    <3>1. Item = "headers"
      BY <2>1 DEF CommitHeaders
    <3>2. pc' = "relayEnds" => ending' = "eof"
      BY <2>0, <2>1, <3>1 DEF EndIsTold
    <3>3. pc' = "done" => ending' = "http"
      BY <2>0, <2>1, <3>1 DEF EndIsTold
    <3>4. pc' # "adapterEnds"
      BY <2>0, <2>1, <3>1 DEF EndIsTold
    <3>5. wire' # <<>>
      <4>1. seam'.headers
        BY <2>1 DEF CommitHeaders, Shapes, Seams
      <4>. QED
        BY <4>1, SealStep
    <3>. QED
      BY <1>0, <1>1, <3>2, <3>3, <3>4, <3>5, Zenon
  <2>2. CASE CommitBytes /\ Item = LastItem /\ Len(todo.items) = 1 /\ pc' = todo.then
    <3>1. Item # "headers"
      BY <2>2 DEF CommitBytes
    <3>2. todo.items # <<"headers">>
      <4>1. Head(<<"headers">>) = "headers"
        OBVIOUS
      <4>. QED
        BY <3>1, <4>1 DEF Item
    <3>3. (ending = "eof" /\ pc' = "relayEnds") \/ Item \in {"done", "failed", "errorEvent"}
      BY <2>0, <2>2, <3>2 DEF EndIsTold
    <3>4. CASE Item \in {"done", "failed", "errorEvent"}
      <4>1. seam'.closed /\ wire' # <<>> /\ wire'[Len(wire')] = "terminal"
        BY <2>2, <3>4, SealingCommit DEF TerminalSent
      <4>. QED
        BY <1>0, <1>1, <4>1, Zenon
    <3>. QED
      BY <2>0, <3>3, <3>4
  <2>3. CASE CommitRefused /\ pc' = todo.else
    <3>1. seam.closed /\ seam' = seam /\ wire' = wire
      BY <2>3 DEF CommitRefused
    <3>2. pc' # "adapterEnds"
      BY <1>1, <2>3, Commits DEF Elses
    <3>3. seam'.closed
      BY <3>1
    <3>4. wire' # <<>> /\ wire'[Len(wire')] = "terminal"
      BY <1>0, <3>3 DEF TerminalSent
    <3>. QED
      BY <1>0, <1>1, <3>2, <3>3, <3>4, Zenon
  <2>. QED
    BY <1>1, <2>0, <2>1, <2>2, <2>3, CommitEnds
<1>2. CASE Relay
  <2>1. CASE RelayEnds
    <3>1. /\ pc = "relayEnds" /\ pc' = "done" /\ wire' = wire /\ ending' = ending /\ seam' = seam
      BY <2>1 DEF RelayEnds, Goto
    <3>2. seam.closed \/ ending = "eof"
      BY <1>0, <3>1 DEF EndIsTold
    <3>3. seam'.closed => wire' # <<>> /\ wire'[Len(wire')] = "terminal"
      BY <1>0 DEF TerminalSent
    <3>4. seam'.closed \/ ending' = "eof"
      BY <3>1, <3>2
    <3>. QED
      BY <1>0, <1>2, <3>1, <3>3, <3>4, Zenon
  <2>2. CASE AdapterEnds
    <3>1. pc = "adapterEnds" /\ pc' = "relayEnds" /\ seam' = seam
      BY <2>2 DEF AdapterEnds, Goto, Raise
    <3>. QED
      BY <1>0, <3>1 DEF EndIsTold
  <2>3. CASE ReadCancelled
    <3>1. FALSE
      BY <1>0, <2>3 DEF ReadCancelled, Present
    <3>. QED
      BY <3>1
  <2>4. CASE StartRelay
    <3>1. pc' \in {"write", "read"}
      BY <2>4, WriteLeads DEF StartRelay
    <3>. QED
      BY <3>1
  <2>5. \A items, then, else : Write(items, then, else) /\ then \in {"adapterEnds", "relayEnds"} => items = <<>>
    BY DEF Write
  <2>6. \A e, item : ~ConvertedFailure(e, item)
    <3>1. \A item : <<item>> # <<>>
      OBVIOUS
    <3>. QED
      BY <2>5, <3>1 DEF ConvertedFailure, Raise, Goto
  <2>7. ~Write(relay.pending \o <<"done">>, "adapterEnds", "relayEnds")
    <3>1. relay.pending \in Seq(Writes) /\ "done" \in Writes
      BY ItemShapes DEF Writes, LineKinds
    <3>2. relay.pending \o <<"done">> # <<>>
      BY <3>1, LastOfAppend
    <3>. QED
      BY <2>5, <3>2
  <2>8. ~Write(TerminalFailure, "relayEnds", "relayEnds")
    <3>1. TerminalFailure # <<>>
      BY DEF TerminalFailure
    <3>. QED
      BY <2>5, <3>1
  <2>9. ASSUME NEW l \in Lines, ReadLine(l) PROVE FALSE
    <3>1. pc = "read"
      BY <2>9 DEF ReadLine
    <3>2. \/ \E items : Write(items, "read", "relayEnds")
          \/ \E e : Raise(e)
          \/ pc' = pc
      BY <2>6, <2>7, <2>9 DEF ReadLine, PassLine, HoldLine, ConvertLine
    <3>3. pc' \in {"write", "read", "raised"}
      BY <3>1, <3>2, WriteLeads DEF Raise, Goto
    <3>. QED
      BY <3>3
  <2>10. CASE ReadEnds
    <3>1. ending' = "eof" /\ pc' # "adapterEnds" /\ pc' # "done"
      <4>1. \/ ending' = "eof" /\ (Goto("relayEnds") \/ \E items : Write(items, "relayEnds", "relayEnds"))
            \/ \E e : Raise(e)
        BY <2>6, <2>7, <2>10 DEF ReadEnds
      <4>. QED
        BY <4>1, WriteLeads DEF Goto, Raise
    <3>. QED
      BY <3>1
  <2>11. CASE ReadFails
    <3>1. seam.closed /\ seam' = seam /\ Goto("relayEnds")
      BY <2>6, <2>8, <2>11 DEF ReadFails, StreamFailure, Raise, Goto
    <3>. QED
      BY <3>1 DEF Goto
  <2>. QED
    BY <1>2, <2>1, <2>2, <2>3, <2>4, <2>9, <2>10, <2>11 DEF Relay
<1>3. CASE Open
  <2>1. \/ \E x : Raise(x)
        \/ Goto("open") \/ Goto("opening") \/ Goto("relay")
        \/ \E items : Write(items, "openWait", "done")
    BY <1>3 DEF Open, EnterOpen, StartOpen, OpenSucceeds, OpenAgain, OpenFails
  <2>2. pc' \in {"raised", "open", "opening", "relay", "write", "openWait"}
    BY <2>1, WriteLeads DEF Goto, Raise
  <2>. QED
    BY <2>2
<1>4. CASE Handle
  <2>1. CASE DispatchJson
    <3>1. /\ pc = "dispatch" /\ pc' = "done" /\ direct' = <<"json">> /\ UNCHANGED <<wire, started, exc>>
          /\ started => exc \in {"budget", "tooLarge"}
      BY <1>0, <2>1 DEF DispatchJson, Goto, Present, AlwaysJson
    <3>2. ~started => wire = <<>>
      BY <3>1 DEF StartIsMarked, At
    <3>. QED
      BY <3>1, <3>2 DEF AnsweredIntoStream
  <2>2. CASE RetryRelay
    <3>1. pc' \in {"write", "relayWait"}
      BY <2>2, WriteLeads DEF RetryRelay
    <3>. QED
      BY <3>1
  <2>3. CASE RelayAgain \/ ProtocolFallback \/ Propagate
    BY <2>3 DEF RelayAgain, ProtocolFallback, Propagate, Raise, Goto
  <2>4. CASE GiveUpRelay \/ DispatchSse \/ DispatchHttpError
    <3>1. \/ \E items \in {<<"failed">>, <<"headers", "failed">>, <<"errorEvent">>, <<"headers">>} : Write(items, "done", "done")
          \/ Goto("dispatch")
      BY <2>4 DEF GiveUpRelay, DispatchSse, DispatchHttpError
    <3>2. pc' \in {"write", "dispatch"}
      BY <3>1 DEF Write, Goto
    <3>. QED
      BY <3>2
  <2>. QED
    BY <1>4, <2>1, <2>2, <2>3, <2>4 DEF Handle
<1>5. CASE Environment \/ UNCHANGED vars
  <2>1. UNCHANGED <<pc, seam, ending, direct, wire, started, exc>>
    BY <1>5 DEF Environment, ClientLeaves, Cancel, DeadlinePasses, vars
  <2>2. client /\ ~cancelled
    BY <1>0 DEF Present
  <2>3. AnsweredIntoStream => AnsweredIntoStream'
    BY <2>1 DEF AnsweredIntoStream
  <2>4. pc = "done" /\ ending # "eof" =>
          \/ wire = <<>> /\ direct = <<"json">>
          \/ wire # <<>> /\ direct = <<>> /\ (ending = "http" \/ wire[Len(wire)] = "terminal")
          \/ wire # <<>> /\ direct = <<"json">> /\ AnsweredIntoStream
    BY <2>2, Zenon DEF EndIsTold, ClientIsTold
  <2>. QED
    BY <1>0, <2>1, <2>3, <2>4 DEF EndIsTold
<1>. QED
  BY <1>1, <1>2, <1>3, <1>4, <1>5 DEF Next, Handler

LEMMA EndStep ==
  ASSUME Shapes, WriteIsPlanned, EndIsTold, StartIsMarked, [Next]_vars
  PROVE  EndIsTold'
  BY DirectStep, SealStep, LastItemStep, ArrivalStep DEF EndIsTold

-----------------------------------------------------------------------------
(* The stream starts with its headers. *)

(* Who changes what the client sees of the seam *)
LEMMA SeamSteps ==
  ASSUME Shapes, [Next]_vars
  PROVE  /\ CommitHeaders => seam'.headers /\ seam'.closed = seam.closed /\ seam'.output = seam.output
         /\ CommitBytes => seam'.headers = seam.headers
         /\ CommitHeaders \/ seam'.headers = seam.headers
         /\ CommitHeaders \/ CommitBytes \/ (wire' = wire /\ (seam'.closed = seam.closed \/ seam'.closed = TRUE))
<1>0. seam \in Seams
  BY DEF Shapes
<1>1. CASE Open \/ Handle \/ Environment \/ UNCHANGED vars
  <2>1. seam' = seam /\ wire' = wire
    BY <1>1 DEF Open, EnterOpen, StartOpen, OpenSucceeds, OpenAgain, OpenFails, Handle, RetryRelay, GiveUpRelay, RelayAgain,
       ProtocolFallback, Propagate, DispatchSse, DispatchJson, DispatchHttpError, Environment, ClientLeaves, Cancel,
       DeadlinePasses, vars
  <2>2. (CommitHeaders => seam'.headers) /\ (CommitBytes => seam'.headers = seam.headers)
    BY <1>0, <2>1 DEF CommitHeaders, Seams
  <2>. QED
    BY <2>1, <2>2
<1>2. CASE Relay
  <2>1. pc # "write" /\ wire' = wire
    BY <1>2 DEF Relay, StartRelay, ReadEnds, ReadFails, ReadCancelled, AdapterEnds, RelayEnds, ReadLine
  <2>2. ~CommitHeaders /\ ~CommitBytes
    BY <2>1 DEF CommitHeaders, CommitBytes
  <2>3. seam'.headers = seam.headers /\ (seam'.closed = seam.closed \/ seam'.closed = TRUE)
    <3>1. CASE \E l \in Lines : ReadLine(l)
      BY <1>0, <3>1 DEF ReadLine, PassLine, HoldLine, ConvertLine, Seams
    <3>2. CASE StartRelay
      BY <1>0, <3>2 DEF StartRelay, Seams
    <3>3. CASE ReadEnds \/ ReadFails \/ AdapterEnds \/ RelayEnds
      BY <3>3 DEF ReadEnds, ReadFails, AdapterEnds, RelayEnds
    <3>4. CASE ReadCancelled
      BY <1>0, <3>4 DEF ReadCancelled, Seams
    <3>. QED
      BY <1>2, <3>1, <3>2, <3>3, <3>4 DEF Relay
  <2>. QED
    BY <2>1, <2>2, <2>3
<1>3. CASE CommitHeaders
  <2>1. ~CommitBytes
    BY <1>3 DEF CommitHeaders, CommitBytes
  <2>. QED
    BY <1>0, <1>3, <2>1 DEF CommitHeaders, Seams
<1>4. CASE CommitBytes
  <2>1. ~CommitHeaders
    BY <1>4 DEF CommitHeaders, CommitBytes
  <2>. QED
    BY <1>0, <1>4, <2>1 DEF CommitBytes, Seams
<1>5. CASE ~CommitHeaders /\ ~CommitBytes /\ (CommitFails \/ CommitRefused \/ FrameTooLarge)
  BY <1>0, <1>5 DEF CommitFails, CommitRefused, FrameTooLarge, Seams
<1>. QED
  BY <1>1, <1>2, <1>3, <1>4, <1>5 DEF Next, Handler, Commit

(* Every run of writes starts with the headers or follows them *)
LEMMA FirstItemStep ==
  ASSUME Shapes, WriteIsPlanned, HeadersLead, [Next]_vars, pc' = "write"
  PROVE  Head(todo'.items) = "headers" \/ seam'.headers
<1>0. /\ seam.headers => seam'.headers
      /\ relay.pending \in Seq(Writes) /\ LineKinds \subseteq Writes
      /\ plan.kind \in Kinds
  BY SeamSteps, ItemShapes, PlanFacts DEF Writes, Shapes
<1>1. \A items, then, else : Write(items, then, else) /\ then # "write" => todo'.items = items
  BY DEF Write, Goto
<1>2. ~(\E e : Raise(e)) /\ \A label : Goto(label) => label = "write"
  BY DEF Raise, Goto
<1>3. Head(<<"headers">>) = "headers" /\ Head(<<"headers", "notice">>) = "headers" /\ Head(<<"headers", "failed">>) = "headers"
  OBVIOUS
<1>4. \A p \in Seq(Writes) : Head(<<"headers">> \o p) = "headers"
  OBVIOUS
<1>5. Head(NoticeItems) = "headers" \/ seam.headers
  BY <1>3 DEF NoticeItems, HeadersLead
<1>6. CASE Open
  <2>1. PICK e \in OpenErrors : OpenFails(e)
    BY <1>2, <1>6 DEF Open, EnterOpen, StartOpen, OpenSucceeds, OpenAgain
  <2>2. Write(IF plan.notice THEN NoticeItems ELSE <<>>, "openWait", "done")
    BY <1>2, <2>1 DEF OpenFails
  <2>3. todo'.items = NoticeItems
    BY <2>2 DEF Write, Goto
  <2>. QED
    BY <1>0, <1>5, <2>3
<1>7. CASE Relay
  <2>1. CASE StartRelay
    <3>1. PICK items \in {<<>>, <<"headers">>} : Write(items, "read", "relayEnds")
      BY <2>1 DEF StartRelay
    <3>2. todo'.items = <<"headers">>
      BY <3>1 DEF Write, Goto
    <3>. QED
      BY <1>3, <3>2
  <2>2. CASE pc = "read" /\ plan.kind \in {"compat", "web"}
    BY <1>0, <2>2 DEF HeadersLead
  <2>3. CASE pc = "read" /\ (relay.headers \/ ~relay.defer)
    BY <1>0, <2>3 DEF HeadersLead
  <2>4. CASE pc = "read" /\ ~relay.headers /\ relay.defer /\ plan.kind \in {"official", "transparent"}
    <3>1. ASSUME NEW l \in Lines, ReadLine(l) PROVE Head(todo'.items) = "headers"
      <4>1. l \in Writes /\ <<l>> \in Seq(Writes)
        BY <1>0, <3>1, ConstantsAssumption DEF ReadLine
      <4>2. CASE PassLine(l)
        <5>1. Write(<<"headers">> \o <<l>>, "read", "relayEnds")
          BY <2>4, <4>2 DEF PassLine, HeadersFirst
        <5>2. todo'.items = <<"headers">> \o <<l>>
          BY <5>1, ReadWrites, Zenon
        <5>. QED
          BY <1>4, <4>1, <5>2
      <4>3. CASE HoldLine(l)
        <5>1. Write(<<"headers">> \o relay.pending \o <<l>>, "read", "relayEnds")
          BY <1>2, <2>4, <4>3 DEF HoldLine
        <5>2. todo'.items = <<"headers">> \o relay.pending \o <<l>>
          BY <5>1, ReadWrites, Zenon
        <5>3. Head(<<"headers">> \o relay.pending \o <<l>>) = "headers"
          BY <1>0, <4>1
        <5>. QED
          BY <5>2, <5>3
      <4>. QED
        BY <2>4, <3>1, <4>2, <4>3 DEF ReadLine, ConvertLine
    <3>2. CASE ReadEnds
      <4>1. Write(IF relay.headers \/ relay.pending = <<>> THEN <<>> ELSE <<"headers">> \o relay.pending,
                   "relayEnds", "relayEnds")
        BY <1>2, <2>4, <3>2 DEF ReadEnds, Deferring
      <4>2. todo'.items = <<"headers">> \o relay.pending
        BY <4>1 DEF Write, Goto
      <4>. QED
        BY <1>0, <1>4, <4>2
    <3>3. CASE ReadFails
      BY <1>2, <2>4, <3>3 DEF ReadFails, StreamFailure, Deferring
    <3>4. CASE ReadCancelled
      BY <1>2, <3>4 DEF ReadCancelled
    <3>. QED
      BY <1>7, <2>4, <3>1, <3>2, <3>3, <3>4 DEF Relay, StartRelay, AdapterEnds, RelayEnds
  <2>5. CASE AdapterEnds \/ RelayEnds
    BY <1>2, <2>5 DEF AdapterEnds, RelayEnds
  <2>6. pc = "read" \/ StartRelay \/ AdapterEnds \/ RelayEnds
    BY <1>7 DEF Relay, ReadEnds, ReadFails, ReadCancelled, ReadLine
  <2>7. relay.headers \in BOOLEAN /\ relay.defer \in BOOLEAN
    BY RelayFields DEF Shapes
  <2>. QED
    BY <1>0, <2>1, <2>2, <2>3, <2>4, <2>5, <2>6, <2>7 DEF Kinds
<1>8. CASE Commit
  <2>1. CASE CommitHeaders
    BY <2>1, SeamSteps
  <2>2. CASE ~CommitHeaders
    <3>1. pc = "write" /\ Item # "headers"
      <4>1. pc = "write" /\ todo.else \in Elses
        BY <1>8, Commits
      <4>2. CommitBytes \/ FrameTooLarge
        BY <1>2, <1>8, <2>2, <4>1 DEF Commit, CommitFails, CommitRefused, Elses
      <4>. QED
        BY <4>1, <4>2 DEF CommitBytes, FrameTooLarge
    <3>. QED
      BY <1>0, <3>1 DEF HeadersLead, Item
  <2>. QED
    BY <2>1, <2>2
<1>9. CASE Handle
  <2>1. CASE RetryRelay
    <3>1. Write(IF plan.notice THEN NoticeItems ELSE <<>>, "relayWait", "done")
      BY <2>1 DEF RetryRelay
    <3>2. todo'.items = NoticeItems
      BY <3>1 DEF Write, Goto
    <3>. QED
      BY <1>0, <1>5, <3>2
  <2>2. CASE GiveUpRelay
    <3>1. Write(IF Exposed THEN <<"failed">> ELSE <<"headers", "failed">>, "done", "done")
      BY <1>2, <2>2 DEF GiveUpRelay
    <3>2. ~Exposed => todo'.items = <<"headers", "failed">>
      BY <1>1, <3>1
    <3>. QED
      BY <1>0, <1>3, <3>2 DEF HeadersLead
  <2>3. CASE DispatchSse
    BY <1>0, <2>3 DEF DispatchSse, HeadersLead
  <2>4. CASE DispatchHttpError
    <3>1. todo'.items = <<"headers">>
      BY <1>1, <2>4 DEF DispatchHttpError
    <3>. QED
      BY <1>3, <3>1
  <2>5. CASE RelayAgain \/ ProtocolFallback \/ Propagate \/ DispatchJson
    BY <1>2, <2>5 DEF RelayAgain, ProtocolFallback, Propagate, DispatchJson
  <2>. QED
    BY <1>9, <2>1, <2>2, <2>3, <2>4, <2>5 DEF Handle
<1>10. CASE Environment \/ UNCHANGED vars
  <2>1. UNCHANGED <<pc, todo>>
    BY <1>10 DEF Environment, ClientLeaves, Cancel, DeadlinePasses, vars
  <2>. QED
    BY <1>0, <2>1 DEF HeadersLead
<1>. QED
  BY <1>6, <1>7, <1>8, <1>9, <1>10 DEF Next, Handler

LEMMA HeadersStep ==
  ASSUME Shapes, WriteIsPlanned, HeadersLead, [Next]_vars
  PROVE  HeadersLead'
<1>0. /\ plan' = plan /\ plan.kind \in Kinds /\ plan.notice \in BOOLEAN
      /\ seam.headers => seam'.headers
      /\ seam \in Seams /\ wire \in Seq({"headers", "data", "begun", "terminal"})
      /\ seam.headers \in BOOLEAN /\ seam'.headers \in BOOLEAN
  <2>1. seam.headers \in BOOLEAN /\ seam'.headers \in BOOLEAN
    BY ShapesStep DEF Shapes, Seams
  <2>. QED
    BY <2>1, PlanIsFixed, PlanFacts, SeamSteps DEF Shapes
<1>1. CommitBytes => seam.headers
  <2>1. CommitBytes => pc = "write" /\ Head(todo.items) # "headers"
    BY DEF CommitBytes, Item
  <2>. QED
    BY <2>1 DEF HeadersLead
<1>2. seam'.headers <=> wire' # <<>>
  <2>1. CASE CommitHeaders
    <3>1. seam'.headers /\ (wire' = wire \/ wire' = Append(wire, "headers")) /\ (wire' = wire => seam.headers)
      <4>1. wire' = IF seam.headers THEN wire ELSE Append(wire, "headers")
        BY <2>1 DEF CommitHeaders
      <4>2. Append(wire, "headers") # wire
        BY <1>0
      <4>. QED
        BY <2>1, <4>1, <4>2, SeamSteps
    <3>2. Append(wire, "headers") # <<>>
      BY <1>0, LastOfAppend
    <3>. QED
      BY <3>1, <3>2 DEF HeadersLead
  <2>2. CASE CommitBytes
    <3>1. seam'.headers /\ seam.headers
      BY <1>0, <1>1, <2>2
    <3>2. wire' # <<>>
      BY <1>0, <2>2, LastOfAppend DEF CommitBytes
    <3>. QED
      BY <3>1, <3>2
  <2>3. CASE ~CommitHeaders /\ ~CommitBytes
    <3>1. seam'.headers = seam.headers /\ wire' = wire
      BY <2>3, SeamSteps
    <3>. QED
      BY <3>1 DEF HeadersLead
  <2>. QED
    BY <2>1, <2>2, <2>3
<1>3. started' => seam'.headers
  <2>1. CASE OpenAgain \/ RelayAgain
    <3>1. started' => started \/ (pc \in {"openWait", "relayWait"} /\ plan.notice)
      BY <2>1 DEF OpenAgain, RelayAgain
    <3>. QED
      BY <1>0, <3>1 DEF HeadersLead
  <2>2. CASE CommitHeaders
    BY <2>2, SeamSteps
  <2>3. CASE ~OpenAgain /\ ~RelayAgain /\ ~CommitHeaders
    <3>1. started' = started
      BY <2>3 DEF Next, Handler, Environment, Open, Relay, Commit, Handle, EnterOpen, StartOpen, OpenSucceeds,
         OpenFails, StartRelay, ReadEnds, ReadFails, ReadCancelled, AdapterEnds, RelayEnds, ReadLine, CommitBytes,
         CommitFails, CommitRefused, FrameTooLarge, RetryRelay, GiveUpRelay, ProtocolFallback, Propagate,
         DispatchSse, DispatchJson, DispatchHttpError, ClientLeaves, Cancel, DeadlinePasses, vars
    <3>. QED
      BY <1>0, <3>1 DEF HeadersLead
  <2>. QED
    BY <2>1, <2>2, <2>3
<1>4. Exposed' => seam'.headers
  <2>1. seam'.output => seam'.headers
    <3>1. CASE CommitBytes
      BY <1>0, <1>1, <3>1
    <3>2. CASE ~CommitBytes
      BY <1>0, <3>2, SeamKeeps DEF HeadersLead, Exposed
    <3>. QED
      BY <3>1, <3>2
  <2>2. seam'.exposed => seam'.headers
    <3>1. CASE pc = "read" /\ plan.kind \in {"compat", "web"}
      BY <1>0, <3>1 DEF HeadersLead
    <3>2. CASE pc # "read"
      BY <1>0, <3>2, SeamKeeps DEF HeadersLead, Exposed
    <3>3. CASE pc = "read" /\ plan.kind \notin {"compat", "web"}
      <4>1. seam'.exposed = seam.exposed
        <5>1. CASE \E l \in Lines : ReadLine(l)
          BY <3>3, <5>1 DEF ReadLine, PassLine, HoldLine, ConvertLine
        <5>2. CASE ReadEnds \/ ReadFails
          BY <5>2 DEF ReadEnds, ReadFails
        <5>3. CASE ReadCancelled
          BY <1>0, <5>3 DEF ReadCancelled, Seams
        <5>4. CASE Environment \/ UNCHANGED vars
          BY <5>4 DEF Environment, ClientLeaves, Cancel, DeadlinePasses, vars
        <5>. QED
          BY <3>3, <5>1, <5>2, <5>3, <5>4 DEF Next, Handler, Open, EnterOpen, StartOpen, OpenSucceeds, OpenAgain, OpenFails,
             Relay, StartRelay, AdapterEnds, RelayEnds, Commit, CommitHeaders, CommitBytes, CommitFails, CommitRefused,
             FrameTooLarge, Handle, RetryRelay, GiveUpRelay, RelayAgain, ProtocolFallback, Propagate, DispatchSse,
             DispatchJson, DispatchHttpError
      <4>. QED
        BY <1>0, <4>1 DEF HeadersLead, Exposed
    <3>. QED
      BY <3>1, <3>2, <3>3
  <2>. QED
    BY <2>1, <2>2 DEF Exposed
<1>5. Commit /\ pc' \notin {"write", "relayEnds", "done", "raised"} => seam'.headers
  <2>. SUFFICES ASSUME Commit, pc' \notin {"write", "relayEnds", "done", "raised"} PROVE seam'.headers
    OBVIOUS
  <2>1. CommitHeaders \/ CommitBytes
    BY CommitEnds, Commits DEF Elses
  <2>. QED
    BY <1>0, <1>1, <2>1, SeamSteps
<1>6. pc' \in {"openWait", "relayWait"} /\ plan.notice => seam'.headers
  <2>. SUFFICES ASSUME pc' \in {"openWait", "relayWait"}, plan.notice PROVE seam'.headers
    OBVIOUS
  <2>0. NoticeItems # <<>>
    BY DEF NoticeItems
  <2>1. ~RetryRelay
    BY <2>0 DEF RetryRelay, Write
  <2>2. ~\E e \in OpenErrors : OpenFails(e)
    BY <2>0 DEF OpenFails, Write, Raise, Goto
  <2>3. At("openWait") \/ At("relayWait")
    BY <2>1, <2>2, Destinations DEF At
  <2>4. CASE pc = "write"
    <3>1. Commit \/ UNCHANGED pc
      BY <2>4 DEF Next, Handler, Open, EnterOpen, StartOpen, OpenSucceeds, OpenAgain, OpenFails, Relay, StartRelay, ReadEnds,
         ReadFails, ReadCancelled, AdapterEnds, RelayEnds, ReadLine, Handle, RetryRelay, GiveUpRelay, RelayAgain,
         ProtocolFallback, Propagate, DispatchSse, DispatchJson, DispatchHttpError, Environment, ClientLeaves, Cancel,
         DeadlinePasses, vars
    <3>. QED
      BY <1>5, <2>4, <3>1
  <2>. QED
    BY <1>0, <2>3, <2>4 DEF At, HeadersLead
<1>7. pc' = "read" /\ (relay'.headers \/ ~relay'.defer \/ plan.kind \in {"compat", "web"}) => seam'.headers
  <2>. SUFFICES ASSUME pc' = "read", relay'.headers \/ ~relay'.defer \/ plan.kind \in {"compat", "web"}
                PROVE  seam'.headers
    BY Zenon
  <2>1. CASE StartRelay
    <3>. DEFINE defer == try.relay < try.relayLimit
                upFront == ~started /\ (plan.kind \in {"compat", "web"} \/ ~defer)
    <3>1. relay'.headers = started /\ relay'.defer = defer
      BY <2>1 DEF StartRelay, NoRelay
    <3>2. ~upFront
      BY <2>1 DEF StartRelay, Write
    <3>3. started
      BY <3>1, <3>2
    <3>. QED
      BY <1>0, <3>3 DEF HeadersLead
  <2>2. CASE \E l \in Lines : ReadLine(l)
    <3>1. PICK l \in Lines : ReadLine(l)
      BY <2>2
    <3>2. relay \in Relays /\ relay.pending \in Seq(Writes) /\ l \in Writes /\ pc = "read" /\ HeadersFirst \in Seq(Writes)
      BY <3>1, ConstantsAssumption, ItemShapes DEF Shapes, ReadLine, Writes
    <3>3. \A p \in Seq(Writes) : ~Write(p \o <<l>>, "read", "relayEnds")
      <4>1. \A p \in Seq(Writes) : p \o <<l>> # <<>>
        BY <3>2, LastOfAppend
      <4>. QED
        BY <4>1 DEF Write
    <3>4. <<"headers">> \o relay.pending \in Seq(Writes)
      <4>1. <<"headers">> \in Seq(Writes)
        BY DEF Writes
      <4>. QED
        BY <3>2, <4>1, ConcatProperties
    <3>5. \A items : ~Write(items, "relayEnds", "relayEnds") /\ ~Write(items, "adapterEnds", "relayEnds")
      BY WriteLeads
    <3>6. \/ relay' = [relay EXCEPT !.pending = Append(@, l)]
          \/ relay' = [relay EXCEPT !.pending = Append(@, l), !.visible = @ \/ l = "tool"]
      BY <3>1, <3>2, <3>3, <3>4, <3>5 DEF ReadLine, PassLine, HoldLine, ConvertLine, ConvertedFailure, Raise, Goto
    <3>7. relay'.headers = relay.headers /\ relay'.defer = relay.defer
      BY <3>2, <3>6 DEF Relays
    <3>. QED
      BY <1>0, <3>2, <3>7 DEF HeadersLead
  <2>3. CASE Commit
    BY <1>5, <2>3
  <2>4. CASE Environment \/ UNCHANGED vars
    <3>1. UNCHANGED <<pc, relay>>
      BY <2>4 DEF Environment, ClientLeaves, Cancel, DeadlinePasses, vars
    <3>. QED
      BY <1>0, <3>1 DEF HeadersLead
  <2>5. CASE Open \/ ReadEnds \/ ReadFails \/ ReadCancelled \/ AdapterEnds \/ RelayEnds \/ Handle
    <3>1. \/ \E x : Raise(x)
          \/ \E label : Goto(label) /\ label # "read"
          \/ \E items, then, else : Write(items, then, else) /\ then # "read"
      <4>1. CASE Open
        BY <4>1 DEF Open, EnterOpen, StartOpen, OpenSucceeds, OpenAgain, OpenFails
      <4>2. CASE ReadEnds \/ ReadFails \/ ReadCancelled \/ AdapterEnds \/ RelayEnds
        BY <4>2 DEF ReadEnds, ReadFails, StreamFailure, ConvertedFailure, ReadCancelled, AdapterEnds, RelayEnds
      <4>3. CASE Handle
        BY <4>3 DEF Handle, RetryRelay, GiveUpRelay, RelayAgain, ProtocolFallback, Propagate, DispatchSse, DispatchJson,
                    DispatchHttpError
      <4>. QED
        BY <2>5, <4>1, <4>2, <4>3
    <3>2. pc' # "read"
      BY <3>1, WriteLeads DEF Raise, Goto
    <3>. QED
      BY <3>2
  <2>. QED
    BY <2>1, <2>2, <2>3, <2>4, <2>5 DEF Next, Handler, Relay
<1>8. pc' = "write" => Head(todo'.items) = "headers" \/ seam'.headers
  BY FirstItemStep
<1>. QED
  BY <1>0, <1>2, <1>3, <1>4, <1>6, <1>7, <1>8 DEF HeadersLead

-----------------------------------------------------------------------------
(* What is written on the way to each label. *)

NoCompletion == Writes \ {"completion"}

(* A run of writes, or none *)
LEMMA WrittenItems ==
  ASSUME NEW items, NEW then, NEW else, Write(items, then, else)
  PROVE  pc' = "write" /\ then # "write" => todo'.items = items /\ todo'.then = then
  BY DEF Write, Goto

LEMMA ItemsStep ==
  ASSUME Shapes, WriteIsPlanned, ItemsServe, [Next]_vars
  PROVE  ItemsServe'
<1>0. /\ plan' = plan /\ (Compat' <=> Compat) /\ plan.kind \in Kinds
      /\ seam \in Seams /\ relay \in Relays /\ relay.pending \in Seq(NoCompletion)
      /\ pc = "write" => todo.items \in Seq(Writes) /\ todo.items # <<>> /\ todo.then \in Thens /\ todo.else \in Elses
  <2>1. LineKinds \subseteq NoCompletion
    BY DEF NoCompletion, Writes, LineKinds
  <2>2. relay.pending \in Seq(LineKinds) /\ relay \in Relays /\ seam \in Seams
    BY DEF Shapes, Relays
  <2>3. pc = "write" => todo.items \in Seq(Writes) /\ todo.items # <<>> /\ todo.then \in Thens /\ todo.else \in Elses
    BY DEF Shapes, WriteIsPlanned, Todos, Thens, Elses
  <2>. QED
    BY <2>1, <2>2, <2>3, PlanIsFixed, PlanFacts DEF Compat, Shapes
<1>1. /\ <<"headers">> \in Seq(NoCompletion) /\ <<"done">> \in Seq(NoCompletion) /\ <<"failed">> \in Seq(NoCompletion)
      /\ <<"errorEvent">> \in Seq(NoCompletion) /\ <<>> \in Seq(NoCompletion)
      /\ <<"headers", "failed">> \in Seq(NoCompletion) /\ <<"headers">> \in Seq(Unsealing)
      /\ {"headers", "notice"} \subseteq NoCompletion
  BY DEF NoCompletion, Unsealing, Writes, LineKinds, TerminalItems
<1>2. NoticeItems \in Seq({"headers", "notice"})
  <2>1. <<"notice">> \in Seq({"headers", "notice"}) /\ <<"headers", "notice">> \in Seq({"headers", "notice"})
    OBVIOUS
  <2>. QED
    BY <2>1, Zenon DEF NoticeItems
<1>3. TerminalFailure \in Seq(NoCompletion) \/ (TerminalFailure = <<"completion", "failed">> /\ seam.frame = "terminal")
  BY <1>1, Zenon DEF TerminalFailure
<1>4. \A e : Raise(e) => pc' = "raised"
  BY DEF Raise, Goto
<1>5. CASE Open
  <2>1. \/ \E x : Raise(x)
        \/ Goto("open") \/ Goto("opening") \/ Goto("relay")
        \/ Write(IF plan.notice THEN NoticeItems ELSE <<>>, "openWait", "done")
    BY <1>5 DEF Open, EnterOpen, StartOpen, OpenSucceeds, OpenAgain, OpenFails
  <2>2. (IF plan.notice THEN NoticeItems ELSE <<>>) \in Seq({"headers", "notice"})
    BY <1>2
  <2>3. pc' = "write" => todo'.then = "openWait" /\ todo'.items \in Seq({"headers", "notice"})
    BY <1>4, <2>1, <2>2, WrittenItems DEF Goto
  <2>4. pc' = "write" => todo'.items \in Seq(NoCompletion)
    BY <1>1, <2>3
  <2>5. pc' # "read"
    BY <1>4, <2>1, WriteLeads DEF Goto
  <2>. QED
    BY <2>3, <2>4, <2>5 DEF ItemsServe, At, NoCompletion
<1>6. CASE Relay
  <2>1. CASE StartRelay
    <3>1. \E items \in {<<>>, <<"headers">>} : Write(items, "read", "relayEnds")
      BY <2>1 DEF StartRelay
    <3>2. pc' = "write" => todo'.then = "read" /\ todo'.items = <<"headers">>
      BY <3>1, WriteLeads
    <3>3. relay'.pending = <<>> /\ ~source'.open
      BY <2>1 DEF StartRelay, NoRelay
    <3>4. <<>> \in Seq(Unsealing)
      OBVIOUS
    <3>. QED
      BY <1>1, <3>2, <3>3, <3>4 DEF ItemsServe, NoCompletion
  <2>2. ASSUME NEW l \in Lines, ReadLine(l) PROVE ItemsServe'
    <3>0. pc = "read" /\ l \in LineKinds /\ l \in NoCompletion /\ source'.open = (l = "head") /\ (l = "sep" <=> source.open)
      BY <2>2, ConstantsAssumption DEF ReadLine, NoCompletion, Writes, LineKinds
    <3>1. /\ HeadersFirst \o <<l>> \in Seq(NoCompletion) /\ <<"headers">> \o relay.pending \o <<l>> \in Seq(NoCompletion)
          /\ relay.pending \o <<l>> \in Seq(NoCompletion) /\ relay.pending \o <<"done">> \in Seq(NoCompletion)
      <4>1. HeadersFirst \in Seq(NoCompletion)
        BY <1>1 DEF HeadersFirst
      <4>2. <<l>> \in Seq(NoCompletion)
        BY <3>0
      <4>. QED
        BY <1>0, <1>1, <4>1, <4>2, ConcatProperties
    <3>2. CASE PassLine(l) \/ HoldLine(l)
      <4>1. ~Compat
        BY <3>2 DEF PassLine, HoldLine, Compat
      <4>2. \/ \E items \in Seq(NoCompletion) : Write(items, "read", "relayEnds")
            \/ Raise("errorEvent") \/ pc' = pc
        BY <3>1, <3>2 DEF PassLine, HoldLine
      <4>3. pc' = "write" => todo'.then = "read" /\ todo'.items \in Seq(NoCompletion)
        BY <1>4, <3>0, <4>2, WrittenItems
      <4>. QED
        BY <1>0, <4>1, <4>3 DEF ItemsServe, NoCompletion
    <3>3. CASE ConvertLine(l)
      <4>1. Compat /\ l # "sep" /\ relay.pending \in Seq(Unsealing)
        BY <3>0, <3>3 DEF ConvertLine, Compat, ItemsServe, At
      <4>2. CASE \E e : ConvertedFailure(e, "failed")
        <5>1. (\E e : Raise(e)) \/ Write(<<"failed">>, "relayEnds", "relayEnds")
          BY <4>2 DEF ConvertedFailure
        <5>2. pc' # "read" /\ (pc' = "write" => todo'.then = "relayEnds" /\ todo'.items = <<"failed">>)
          BY <1>4, <5>1, WriteLeads
        <5>. QED
          BY <1>1, <5>2 DEF ItemsServe, At, NoCompletion
      <4>3. CASE Write(relay.pending \o <<"done">>, "adapterEnds", "relayEnds")
        <5>0. \A items : Write(items, "adapterEnds", "relayEnds") =>
                  pc' # "read" /\ (pc' = "write" => todo'.then = "adapterEnds" /\ todo'.items = items)
          BY WriteLeads
        <5>1. pc' # "read" /\ (pc' = "write" => todo'.then = "adapterEnds" /\ todo'.items = relay.pending \o <<"done">>)
          BY <4>3, <5>0, Zenon
        <5>2. pc' = "write" => todo'.items \in Seq(NoCompletion)
          BY <3>1, <5>1, Zenon
        <5>. QED
          BY <5>1, <5>2 DEF ItemsServe, At, NoCompletion
      <4>4. ASSUME l \notin {"done", "head", "error"} PROVE l \in Unsealing /\ ~source'.open
        BY <3>0, <4>1, <4>4 DEF Unsealing, Writes, LineKinds, TerminalItems
      <4>5. CASE /\ l \notin {"done", "head", "error"} /\ Write(relay.pending \o <<l>>, "read", "relayEnds")
                 /\ relay' = [Cleared EXCEPT !.output = @ \/ l = "delta", !.visible = @ \/ l \in {"delta", "tool"}]
        <5>1. <<l>> \in Seq(Unsealing)
          BY <4>4, <4>5
        <5>2. relay.pending \o <<l>> \in Seq(Unsealing)
          BY <4>1, <5>1, ConcatProperties
        <5>3. pc' = "write" => todo'.then = "read" /\ todo'.items = relay.pending \o <<l>>
          BY <4>5, WrittenItems
        <5>4. relay'.pending = <<>>
          BY <1>0, <4>5 DEF Cleared, Relays
        <5>5. <<>> \in Seq(Unsealing)
          OBVIOUS
        <5>. QED
          BY <3>1, <4>4, <4>5, <5>2, <5>3, <5>4, <5>5 DEF ItemsServe, NoCompletion
      <4>6. CASE /\ l \notin {"done", "head", "error"} /\ pc' = pc /\ todo' = todo
                 /\ relay' = [relay EXCEPT !.pending = Append(@, l), !.visible = @ \/ l = "tool"]
        <5>1. relay'.pending = Append(relay.pending, l)
          BY <1>0, <4>6 DEF Relays
        <5>2. relay'.pending \in Seq(Unsealing)
          BY <4>1, <4>4, <4>6, <5>1
        <5>. QED
          BY <3>0, <4>4, <4>6, <5>2 DEF ItemsServe
      <4>. QED
        BY <3>3, <4>2, <4>3, <4>5, <4>6 DEF ConvertLine
    <3>. QED
      BY <2>2, <3>2, <3>3 DEF ReadLine
  <2>3. CASE ReadEnds \/ ReadFails
    <3>0. seam' = seam
      BY <2>3 DEF ReadEnds, ReadFails
    <3>1. /\ (IF relay.headers \/ relay.pending = <<>> THEN <<>> ELSE <<"headers">> \o relay.pending) \in Seq(NoCompletion)
          /\ relay.pending \o <<"done">> \in Seq(NoCompletion)
      BY <1>0, <1>1, ConcatProperties
    <3>2. \/ (\E e : Raise(e)) \/ Goto("relayEnds")
          \/ \E items \in Seq(NoCompletion) : \E then \in {"adapterEnds", "relayEnds"} : Write(items, then, "relayEnds")
          \/ Write(TerminalFailure, "relayEnds", "relayEnds")
      <4>1. CASE ReadEnds
        <5>1. \/ (\E e : Raise(e)) \/ Goto("relayEnds")
              \/ Write(IF relay.headers \/ relay.pending = <<>> THEN <<>> ELSE <<"headers">> \o relay.pending, "relayEnds", "relayEnds")
              \/ Write(relay.pending \o <<"done">>, "adapterEnds", "relayEnds")
              \/ Write(<<"errorEvent">>, "relayEnds", "relayEnds")
          BY <4>1 DEF ReadEnds, ConvertedFailure
        <5>. QED
          BY <1>1, <3>1, <5>1
      <4>2. CASE ReadFails
        BY <1>1, <4>2 DEF ReadFails, StreamFailure, ConvertedFailure
      <4>. QED
        BY <2>3, <4>1, <4>2
    <3>3. pc' # "read"
      BY <1>4, <3>2, WriteLeads DEF Goto
    <3>4. pc' = "write" =>
            \/ todo'.items \in Seq(NoCompletion) /\ todo'.then \in {"adapterEnds", "relayEnds"}
            \/ todo'.items = TerminalFailure /\ todo'.then = "relayEnds"
      BY <1>4, <3>2, WrittenItems DEF Goto
    <3>. QED
      BY <1>3, <3>0, <3>3, <3>4 DEF ItemsServe, At, NoCompletion
  <2>4. CASE ReadCancelled \/ AdapterEnds \/ RelayEnds
    <3>1. pc' \in {"raised", "relayEnds", "done"}
      BY <2>4 DEF ReadCancelled, AdapterEnds, RelayEnds, Raise, Goto
    <3>. QED
      BY <3>1 DEF ItemsServe, At
  <2>. QED
    BY <1>6, <2>1, <2>2, <2>3, <2>4 DEF Relay
<1>7. CASE Commit
  <2>0. pc = "write" /\ UNCHANGED source /\ relay'.pending = relay.pending
    <3>1. CASE CommitHeaders
      BY <1>0, <3>1 DEF CommitHeaders, HeadersAreOut, Relays
    <3>2. CASE CommitBytes \/ CommitFails \/ CommitRefused \/ FrameTooLarge
      BY <3>2 DEF CommitBytes, CommitFails, CommitRefused, FrameTooLarge
    <3>. QED
      BY <1>7, <3>1, <3>2 DEF Commit
  <2>1. CASE Proceed
    <3>1. /\ \A S : todo.items \in Seq(S) => Tail(todo.items) \in Seq(S)
          /\ todo.items = <<"completion", "failed">> => Tail(todo.items) = <<"failed">>
      <4>1. ASSUME NEW S, todo.items \in Seq(S) PROVE Tail(todo.items) \in Seq(S)
        BY <1>0, <2>0, <4>1, HeadTailProperties
      <4>2. Tail(<<"completion", "failed">>) = <<"failed">>
        OBVIOUS
      <4>. QED
        BY <4>1, <4>2
    <3>2. pc' \in {"write", todo.then} /\ (pc' = "write" => todo'.items = Tail(todo.items) /\ todo'.then = todo.then)
      BY <1>0, <2>0, <2>1, WriteLeads DEF Proceed, Thens
    <3>3. At("read")' => At("read")
      BY <2>0, <3>2 DEF At
    <3>4. ItemsServe
      OBVIOUS
    <3>5. pc' = "write" =>
            /\ todo'.then \in {"openWait", "relayWait"} => todo'.items \in Seq({"headers", "notice"})
            /\ todo'.then = "done" => todo'.items \in Seq({"headers", "failed", "errorEvent"})
            /\ Compat /\ todo'.then = "read" => todo'.items \in Seq(Unsealing)
            /\ todo'.items \in Seq(NoCompletion)
      BY <1>1, <2>0, <3>1, <3>2 DEF ItemsServe, NoCompletion
    <3>. QED
      BY <1>0, <2>0, <3>3, <3>5 DEF ItemsServe, NoCompletion
  <2>2. CASE Goto(todo.else) \/ Raise("tooLarge")
    <3>1. pc' \in {"relayEnds", "done", "raised"}
      BY <1>0, <1>4, <2>0, <2>2 DEF Goto, Elses
    <3>. QED
      BY <3>1 DEF ItemsServe, At
  <2>3. CASE FrameTooLarge /\ Write(TerminalFailure, "relayEnds", "relayEnds")
    <3>1. pc' # "read" /\ seam' = seam /\ (pc' = "write" => todo'.items = TerminalFailure /\ todo'.then = "relayEnds")
      BY <2>3, WriteLeads DEF FrameTooLarge
    <3>. QED
      BY <1>3, <3>1 DEF ItemsServe, At, NoCompletion
  <2>4. Proceed \/ Goto(todo.else) \/ Raise("tooLarge") \/ (FrameTooLarge /\ Write(TerminalFailure, "relayEnds", "relayEnds"))
    BY <1>7 DEF Commit, CommitHeaders, CommitBytes, CommitFails, CommitRefused, FrameTooLarge
  <2>. QED
    BY <2>1, <2>2, <2>3, <2>4
<1>8. CASE Handle
  <2>1. \/ Raise("shutdown") \/ (\E label \in {"enter", "dispatch", "done"} : Goto(label))
        \/ Write(IF plan.notice THEN NoticeItems ELSE <<>>, "relayWait", "done")
        \/ \E items \in {<<"failed">>, <<"headers", "failed">>, <<"errorEvent">>, <<"headers">>} : Write(items, "done", "done")
    BY <1>8 DEF Handle, RetryRelay, GiveUpRelay, RelayAgain, ProtocolFallback, Propagate, DispatchSse, DispatchJson,
                DispatchHttpError
  <2>2. (IF plan.notice THEN NoticeItems ELSE <<>>) \in Seq({"headers", "notice"})
    BY <1>2
  <2>3. \A items \in {<<"failed">>, <<"headers", "failed">>, <<"errorEvent">>, <<"headers">>} :
            items \in Seq({"headers", "failed", "errorEvent"}) /\ items \in Seq(NoCompletion)
    <3>1. /\ <<"failed">> \in Seq({"headers", "failed", "errorEvent"})
          /\ <<"headers", "failed">> \in Seq({"headers", "failed", "errorEvent"})
          /\ <<"errorEvent">> \in Seq({"headers", "failed", "errorEvent"})
          /\ <<"headers">> \in Seq({"headers", "failed", "errorEvent"})
      OBVIOUS
    <3>. QED
      BY <1>1, <3>1, Zenon
  <2>4. pc' # "read"
    BY <1>4, <2>1, WriteLeads DEF Goto
  <2>5. pc' = "write" =>
          \/ todo'.then = "relayWait" /\ todo'.items \in Seq({"headers", "notice"})
          \/ todo'.then = "done" /\ todo'.items \in {<<"failed">>, <<"headers", "failed">>, <<"errorEvent">>, <<"headers">>}
    BY <1>4, <2>1, <2>2, WrittenItems DEF Goto
  <2>6. pc' = "write" => todo'.items \in Seq(NoCompletion)
    <3>1. todo'.items \in Seq({"headers", "notice"}) => todo'.items \in Seq(NoCompletion)
      BY <1>1
    <3>. QED
      BY <2>3, <2>5, <3>1, Zenon
  <2>. QED
    BY <2>3, <2>4, <2>5, <2>6 DEF ItemsServe, At, NoCompletion
<1>9. CASE Environment \/ UNCHANGED vars
  <2>1. UNCHANGED <<pc, todo, seam, relay, source>>
    BY <1>9 DEF Environment, ClientLeaves, Cancel, DeadlinePasses, vars
  <2>. QED
    BY <1>0, <2>1 DEF ItemsServe, At
<1>. QED
  BY <1>5, <1>6, <1>7, <1>8, <1>9 DEF Next, Handler

-----------------------------------------------------------------------------
(* Whether the stream is marked as started. *)

(* The relay that is reading knows whether the stream was started *)
LEMMA StartStep ==
  ASSUME Shapes, WriteIsPlanned, ItemsServe, HeadersLead, StartIsMarked, [Next]_vars
  PROVE  StartIsMarked'
<1>0. /\ plan' = plan /\ (Compat' <=> Compat) /\ relay \in Relays
      /\ pc = "write" => todo.items # <<>> /\ todo.then \in Thens /\ todo.else \in Elses
  <2>1. pc = "write" => todo.items # <<>> /\ todo.then \in Thens /\ todo.else \in Elses
    BY DEF Shapes, WriteIsPlanned, Todos, Thens, Elses
  <2>. QED
    BY <2>1, PlanIsFixed DEF Compat, Shapes
<1>1. \A e : Raise(e) => pc' = "raised"
  BY DEF Raise, Goto
<1>2. CASE Open
  <2>1. \/ \E x : Raise(x)
        \/ Goto("open") \/ Goto("opening") \/ Goto("relay")
        \/ \E items : Write(items, "openWait", "done")
    BY <1>2 DEF Open, EnterOpen, StartOpen, OpenSucceeds, OpenAgain, OpenFails
  <2>2. /\ pc' \notin {"read", "adapterEnds"}
        /\ pc' = "write" => todo'.then = "openWait"
    BY <1>1, <2>1, WriteLeads DEF Goto
  <2>3. ~started' => wire' = <<>>
    <3>1. wire' = wire /\ pc \in {"enter", "open", "opening", "openWait"}
      BY <1>2 DEF Open, EnterOpen, StartOpen, OpenSucceeds, OpenAgain, OpenFails
    <3>2. pc = "openWait" => (started' <=> started \/ plan.notice)
      <4>1. pc = "openWait" => OpenAgain
        BY <1>2 DEF Open, EnterOpen, StartOpen, OpenSucceeds, OpenFails
      <4>. QED
        BY <4>1, Zenon DEF OpenAgain
    <3>3. pc # "openWait" => started' = started
      BY <1>2 DEF Open, EnterOpen, StartOpen, OpenSucceeds, OpenAgain, OpenFails
    <3>. QED
      BY <3>1, <3>2, <3>3 DEF StartIsMarked, At
  <2>. QED
    BY <2>2, <2>3 DEF StartIsMarked, At
<1>3. CASE Relay
  <2>1. CASE StartRelay
    <3>. DEFINE upFront == ~started /\ (plan.kind \in {"compat", "web"} \/ ~(try.relay < try.relayLimit))
    <3>1. /\ pc = "relay" /\ started' = started /\ wire' = wire /\ relay'.headers = started
          /\ Write(IF upFront THEN <<"headers">> ELSE <<>>, "read", "relayEnds")
      BY <2>1, Zenon DEF StartRelay, NoRelay
    <3>2. CASE upFront
      <4>1. pc' = "write" /\ todo'.items = <<"headers">> /\ todo'.then = "read"
        BY <3>1, <3>2 DEF Write
      <4>2. Head(<<"headers">>) = "headers"
        OBVIOUS
      <4>. QED
        BY <3>1, <4>1, <4>2 DEF StartIsMarked, At
    <3>3. CASE ~upFront
      <4>1. pc' = "read" /\ (Compat => started)
        BY <3>1, <3>3 DEF Write, Goto, Compat
      <4>. QED
        BY <1>0, <3>1, <4>1 DEF StartIsMarked, At
    <3>. QED
      BY <3>2, <3>3
  <2>2. ASSUME NEW l \in Lines, ReadLine(l) PROVE StartIsMarked'
    <3>1. pc = "read" /\ started' = started /\ wire' = wire
      BY <2>2 DEF ReadLine
    <3>2. (Compat => started) /\ (relay.headers <=> started) /\ (~started => wire = <<>>)
      BY <3>1 DEF StartIsMarked, At
    <3>3. At("adapterEnds")' => Compat
      <4>1. ~Compat => \/ \E items : Write(items, "read", "relayEnds")
                       \/ \E e : Raise(e)
                       \/ pc' = pc
        BY <2>2 DEF ReadLine, PassLine, HoldLine, ConvertLine, Compat
      <4>. QED
        BY <1>1, <3>1, <4>1, WriteLeads DEF At
    <3>4. At("read")' => relay'.headers = relay.headers
      <4>1. CASE PassLine(l) \/ HoldLine(l)
        BY <1>0, <4>1 DEF PassLine, HoldLine, Relays
      <4>2. CASE ConvertLine(l)
        <5>1. \/ relay' = Cleared
              \/ relay' = [Cleared EXCEPT !.output = @ \/ l = "delta", !.visible = @ \/ l \in {"delta", "tool"}]
              \/ relay' = [relay EXCEPT !.pending = Append(@, l), !.visible = @ \/ l = "tool"]
          BY <4>2 DEF ConvertLine, ConvertedFailure
        <5>. QED
          BY <1>0, <5>1 DEF Cleared, Relays
      <4>. QED
        BY <2>2, <4>1, <4>2 DEF ReadLine
    <3>. QED
      BY <1>0, <3>1, <3>2, <3>3, <3>4, Zenon DEF StartIsMarked
  <2>3. CASE ReadEnds \/ ReadFails
    <3>1. pc = "read" /\ started' = started /\ wire' = wire
      BY <2>3 DEF ReadEnds, ReadFails
    <3>2. (Compat => started) /\ (~started => wire = <<>>)
      BY <3>1 DEF StartIsMarked, At
    <3>3. \/ \E e : Raise(e)
          \/ Goto("relayEnds")
          \/ \E items : Write(items, "relayEnds", "relayEnds")
          \/ Compat /\ \E items : Write(items, "adapterEnds", "relayEnds")
      BY <2>3 DEF ReadEnds, ReadFails, StreamFailure, ConvertedFailure, Compat
    <3>4. /\ pc' # "read" /\ (pc' = "write" => todo'.then # "read")
          /\ pc' = "adapterEnds" \/ (pc' = "write" /\ todo'.then = "adapterEnds") => Compat
      BY <1>1, <3>3, WriteLeads DEF Goto
    <3>. QED
      BY <3>1, <3>2, <3>4, Zenon DEF StartIsMarked, At
  <2>4. CASE ReadCancelled \/ AdapterEnds \/ RelayEnds
    <3>1. /\ pc' \in {"raised", "relayEnds", "done"} /\ started' = started /\ wire' = wire
          /\ pc \in {"read", "adapterEnds", "relayEnds"}
      BY <2>4 DEF ReadCancelled, AdapterEnds, RelayEnds, Raise, Goto
    <3>. QED
      BY <3>1 DEF StartIsMarked, At
  <2>. QED
    BY <1>3, <2>1, <2>2, <2>3, <2>4 DEF Relay
<1>4. CASE Commit
  <2>0. pc = "write" /\ todo.items # <<>> /\ todo.then \in Thens
    BY <1>0, <1>4, Commits
  <2>1. CASE CommitHeaders
    <3>1. /\ started' <=> started \/ todo.then \in {"read", "relayEnds"}
          /\ relay'.headers <=> relay.headers \/ todo.then \in {"read", "relayEnds"}
      BY <1>0, <2>1 DEF CommitHeaders, HeadersAreOut, Relays
    <3>2. pc' \in {"write", todo.then} /\ (pc' = "write" => todo'.then = todo.then)
      BY <2>0, <2>1, WriteLeads DEF CommitHeaders, Proceed, Thens
    <3>3. At("adapterEnds")' => started
      BY <2>0, <3>2 DEF StartIsMarked, At, Thens
    <3>4. todo.then = "adapterEnds" => started
      BY <2>0 DEF StartIsMarked, At
    <3>5. ~started' => todo.then \in {"openWait", "relayWait", "done"}
      BY <2>0, <3>1, <3>4 DEF Thens
    <3>6. todo.then \in {"openWait", "relayWait"} => plan.notice
      BY <2>0 DEF WriteIsPlanned
    <3>7. At("read")' => todo.then = "read"
      BY <2>0, <3>2 DEF At, Thens
    <3>9. plan' = plan
      BY <1>0
    <3>10. ~started' => (plan'.notice /\ (At("openWait") \/ At("relayWait"))') \/ At("done")'
      BY <3>2, <3>5, <3>6, <3>9 DEF At
    <3>11. pc' \in {"read", "write"} /\ (pc' = "write" => todo'.then = "read") => started'
      BY <2>0, <3>1, <3>2 DEF Thens
    <3>. QED
      BY <3>1, <3>3, <3>7, <3>10, <3>11, Zenon DEF StartIsMarked, At
  <2>2. CASE CommitBytes
    <3>1. started' = started /\ relay' = relay /\ Head(todo.items) # "headers"
      BY <2>2 DEF CommitBytes, Item
    <3>2. pc' \in {"write", todo.then} /\ (pc' = "write" => todo'.then = todo.then)
      BY <2>0, <2>2, WriteLeads DEF CommitBytes, Proceed, Thens
    <3>3. wire # <<>>
      BY <2>0, <3>1 DEF HeadersLead
    <3>4. \A label \in Thens : At(label)' => At(label)
      BY <2>0, <3>2 DEF At, Thens
    <3>5. ~started => (plan.notice /\ todo.then \in {"openWait", "relayWait"}) \/ todo.then = "done"
      BY <2>0, <3>3 DEF StartIsMarked, At
    <3>6. At("read") /\ Compat => started
      BY <2>0, <3>1 DEF StartIsMarked, At
    <3>7. (At("adapterEnds")' => started) /\ (At("read")' => (relay.headers <=> started) /\ (Compat => started))
      BY <3>4, <3>6 DEF StartIsMarked, Thens
    <3>8. ~started => (plan.notice /\ (At("openWait") \/ At("relayWait"))') \/ At("done")'
      BY <3>2, <3>5 DEF At
    <3>. QED
      BY <1>0, <3>1, <3>7, <3>8, Zenon DEF StartIsMarked, At
  <2>3. CASE CommitFails \/ CommitRefused
    <3>1. started' = started /\ wire' = wire /\ pc' = todo.else
      BY <2>3 DEF CommitFails, CommitRefused, Goto
    <3>2. pc' \in {"relayEnds", "done"}
      BY <1>0, <2>0, <3>1 DEF Elses
    <3>3. ~started /\ wire # <<>> => pc' = "done"
      BY <2>0, <3>1 DEF StartIsMarked, At, WriteIsPlanned
    <3>. QED
      BY <3>1, <3>2, <3>3 DEF StartIsMarked, At
  <2>4. CASE FrameTooLarge
    <3>1. started' = started /\ wire' = wire /\ Item = "huge"
      BY <2>4 DEF FrameTooLarge
    <3>2. pc' \in {"raised", "write", "relayEnds"} /\ (pc' = "write" => todo'.then = "relayEnds")
      BY <1>1, <2>4, WriteLeads DEF FrameTooLarge
    <3>3. todo.then \notin {"openWait", "relayWait", "done"}
      <4>1. \A S : todo.items \in Seq(S) => "huge" \in S
        BY <2>0, <3>1, HeadTailProperties DEF Item
      <4>. QED
        BY <2>0, <4>1 DEF ItemsServe
    <3>4. ~started => wire = <<>>
      BY <2>0, <3>3 DEF StartIsMarked, At
    <3>. QED
      BY <3>1, <3>2, <3>4 DEF StartIsMarked, At
  <2>. QED
    BY <1>4, <2>1, <2>2, <2>3, <2>4 DEF Commit
<1>5. CASE Handle
  <2>1. /\ pc' \notin {"read", "adapterEnds"}
        /\ pc' = "write" => todo'.then \in {"relayWait", "done"}
    <3>1. \/ Raise("shutdown") \/ (\E label \in {"enter", "dispatch", "done"} : Goto(label))
          \/ \E items : Write(items, "relayWait", "done") \/ Write(items, "done", "done")
      BY <1>5 DEF Handle, RetryRelay, GiveUpRelay, RelayAgain, ProtocolFallback, Propagate, DispatchSse, DispatchJson,
                  DispatchHttpError
    <3>. QED
      BY <1>1, <3>1, WriteLeads DEF Goto
  <2>2. ~started' => wire' = <<>>
    <3>1. wire' = wire /\ pc \in {"raised", "dispatch", "relayWait"}
      BY <1>5 DEF Handle, RetryRelay, GiveUpRelay, RelayAgain, ProtocolFallback, Propagate, DispatchSse, DispatchJson,
                  DispatchHttpError
    <3>2. pc = "relayWait" => (started' <=> started \/ plan.notice)
      <4>1. pc = "relayWait" => RelayAgain
        BY <1>5 DEF Handle, RetryRelay, GiveUpRelay, ProtocolFallback, Propagate, DispatchSse, DispatchJson,
                    DispatchHttpError
      <4>. QED
        BY <4>1, Zenon DEF RelayAgain
    <3>3. pc # "relayWait" => started' = started
      BY <1>5 DEF Handle, RetryRelay, GiveUpRelay, RelayAgain, ProtocolFallback, Propagate, DispatchSse, DispatchJson,
                  DispatchHttpError
    <3>. QED
      BY <3>1, <3>2, <3>3 DEF StartIsMarked, At
  <2>. QED
    BY <2>1, <2>2 DEF StartIsMarked, At
<1>6. CASE Environment \/ UNCHANGED vars
  <2>1. UNCHANGED <<pc, todo, relay, started, wire>>
    BY <1>6 DEF Environment, ClientLeaves, Cancel, DeadlinePasses, vars
  <2>. QED
    BY <1>0, <2>1 DEF StartIsMarked, At
<1>. QED
  BY <1>2, <1>3, <1>4, <1>5, <1>6 DEF Next, Handler

-----------------------------------------------------------------------------
(* Nobody asks again or answers with JSON once the stream is closed. *)

LEMMA SealedStep ==
  ASSUME Shapes, WriteIsPlanned, ItemsServe, HeadersLead, StartIsMarked, SealIsFinal, [Next]_vars
  PROVE  SealIsFinal'
<1>0. /\ plan' = plan /\ (Compat' <=> Compat) /\ plan.kind \in Kinds
      /\ seam \in Seams /\ seam.closed \in BOOLEAN /\ exc \in Exceptions /\ wire \in Seq({"headers", "data", "begun", "terminal"})
      /\ pc = "write" => todo.items # <<>> /\ todo.then \in Thens /\ todo.else \in Elses
  <2>1. pc = "write" => todo.items # <<>> /\ todo.then \in Thens /\ todo.else \in Elses
    BY DEF Shapes, WriteIsPlanned, Todos, Thens, Elses
  <2>2. seam.closed \in BOOLEAN
    BY DEF Shapes, Seams
  <2>. QED
    BY <2>1, <2>2, PlanIsFixed, PlanFacts DEF Compat, Shapes
<1>1. \A e : Raise(e) => pc' = "raised" /\ exc' = e
  BY DEF Raise, Goto
(* A step of a stream that is open, and leaves it open *)
<1>2. ASSUME ~seam'.closed PROVE SealIsFinal'
  BY <1>2 DEF SealIsFinal
<1>3. CASE Open
  <2>1. pc \in {"enter", "open", "opening", "openWait"} /\ seam' = seam
    BY <1>3 DEF Open, EnterOpen, StartOpen, OpenSucceeds, OpenAgain, OpenFails
  <2>2. ~seam.closed
    BY <2>1 DEF SealIsFinal, At
  <2>. QED
    BY <1>2, <2>1, <2>2
<1>4. CASE Relay
  <2>1. CASE StartRelay
    <3>1. seam'.closed = seam.closed /\ pc = "relay"
      BY <1>0, <2>1 DEF StartRelay, Seams
    <3>. QED
      BY <1>2, <3>1 DEF SealIsFinal
  <2>2. CASE (\E l \in Lines : ReadLine(l)) \/ ReadEnds \/ ReadFails
    <3>0. seam'.closed = seam.closed /\ pc = "read" /\ wire' = wire
      <4>1. CASE \E l \in Lines : ReadLine(l)
        BY <1>0, <4>1 DEF ReadLine, PassLine, HoldLine, ConvertLine, Seams
      <4>2. CASE ReadEnds \/ ReadFails
        BY <4>2 DEF ReadEnds, ReadFails
      <4>. QED
        BY <2>2, <4>1, <4>2
    <3>1. CASE ~seam.closed
      BY <1>2, <3>0, <3>1
    <3>2. CASE seam.closed
      <4>1. ~Compat /\ wire # <<>>
        BY <3>0, <3>2 DEF SealIsFinal, At
      <4>2. ~Deferring
        BY <3>0, <4>1 DEF StartIsMarked, At, Deferring
      <4>3. plan.kind \in {"official", "transparent"}
        BY <1>0, <4>1 DEF Compat, Kinds
      <4>4. \/ Goto("relayEnds")
            \/ \E items : Write(items, "read", "relayEnds") \/ Write(items, "relayEnds", "relayEnds")
        <5>1. CASE \E l \in Lines : ReadLine(l)
          BY <4>2, <4>3, <5>1 DEF ReadLine, PassLine, HoldLine, ConvertLine
        <5>2. CASE ReadEnds
          BY <4>2, <4>3, <5>2 DEF ReadEnds
        <5>3. CASE ReadFails
          BY <3>2, <4>2, <4>3, <5>3 DEF ReadFails, StreamFailure
        <5>. QED
          BY <2>2, <5>1, <5>2, <5>3
      <4>5. /\ pc' \in {"relayEnds", "read", "write"}
            /\ pc' = "write" => todo'.then \in {"read", "relayEnds"}
        BY <4>4, WriteLeads DEF Goto
      <4>. QED
        BY <1>0, <3>0, <4>1, <4>5 DEF SealIsFinal, At
    <3>. QED
      BY <1>0, <3>1, <3>2
  <2>3. CASE ReadCancelled
    <3>1. /\ wire' = wire /\ pc = "read"
          /\ \/ pc' = "raised" /\ exc' \in {"nameError", "shutdown"} /\ seam' = seam
             \/ pc' = "relayEnds"
      BY <2>3 DEF ReadCancelled, Raise, Goto
    <3>. QED
      BY <3>1 DEF SealIsFinal, At
  <2>4. CASE AdapterEnds \/ RelayEnds
    <3>1. /\ wire' = wire /\ pc \in {"adapterEnds", "relayEnds"} /\ seam' = seam
          /\ \/ pc' = "raised" /\ exc' = "translation" /\ pc = "adapterEnds"
             \/ pc' \in {"relayEnds", "done"}
      BY <2>4 DEF AdapterEnds, RelayEnds, Raise, Goto
    <3>. QED
      BY <3>1 DEF SealIsFinal, At
  <2>. QED
    BY <1>4, <2>1, <2>2, <2>3, <2>4 DEF Relay
<1>5. CASE Commit
  <2>0. pc = "write" /\ todo.items # <<>> /\ todo.then \in Thens
    BY <1>0, <1>5, Commits
  <2>1. CASE CommitHeaders
    <3>1. seam'.closed = seam.closed
      BY <2>1, SeamSteps
    <3>2. pc' \in {"write", todo.then} /\ (pc' = "write" => todo'.then = todo.then)
      BY <2>0, <2>1, WriteLeads DEF CommitHeaders, Proceed, Thens
    <3>3. wire' # <<>>
      <4>1. CASE seam.headers
        BY <2>1, <4>1 DEF CommitHeaders, HeadersLead
      <4>2. CASE ~seam.headers
        <5>1. wire' = Append(wire, "headers")
          BY <2>1, <4>2 DEF CommitHeaders
        <5>. QED
          BY <1>0, <5>1, LastOfAppend
      <4>. QED
        BY <4>1, <4>2
    <3>4. \A label \in Thens : At(label)' => At(label)
      BY <2>0, <3>2 DEF At, Thens
    <3>5. pc' \notin {"enter", "open", "opening", "relay", "raised", "dispatch"}
      BY <2>0, <3>2 DEF Thens
    <3>. QED
      BY <1>0, <3>1, <3>3, <3>4, <3>5 DEF SealIsFinal, Thens
  <2>2. CASE CommitBytes
    <3>1. pc' \in {"write", todo.then} /\ (pc' = "write" => todo'.then = todo.then)
      BY <2>0, <2>2, WriteLeads DEF CommitBytes, Proceed, Thens
    <3>2. wire' # <<>>
      <4>1. wire' = Append(wire, OnWire(Item)) /\ OnWire(Item) \in {"headers", "data", "begun", "terminal"}
        BY <2>2 DEF CommitBytes, OnWire
      <4>. QED
        BY <1>0, <4>1, LastOfAppend
    <3>3. Item \notin TerminalItems => ~seam'.closed
      BY <1>0, <2>2 DEF CommitBytes, Seams
    <3>4. CASE Item \notin TerminalItems
      BY <1>2, <3>3, <3>4
    <3>5. CASE Item \in TerminalItems
      <4>1. \A S : todo.items \in Seq(S) => Item \in S
        BY <2>0, HeadTailProperties DEF Item
      <4>2. todo.then \notin {"openWait", "relayWait"}
        BY <2>0, <3>5, <4>1 DEF ItemsServe, TerminalItems
      <4>3. ~(Compat /\ todo.then = "read")
        BY <2>0, <3>5, <4>1 DEF ItemsServe, Unsealing
      <4>4. pc' \notin {"enter", "open", "opening", "relay", "raised", "dispatch", "openWait", "relayWait"}
        BY <2>0, <3>1, <4>2 DEF Thens
      <4>. QED
        BY <1>0, <2>0, <3>1, <3>2, <4>2, <4>3, <4>4 DEF SealIsFinal, At, Thens
    <3>. QED
      BY <3>4, <3>5
  <2>3. CASE CommitFails \/ CommitRefused
    <3>1. pc' = todo.else
      BY <2>3 DEF CommitFails, CommitRefused, Goto
    <3>2. pc' \in {"relayEnds", "done"}
      BY <1>0, <2>0, <3>1 DEF Elses
    <3>. QED
      BY <3>2 DEF SealIsFinal, At
  <2>4. CASE FrameTooLarge
    BY <1>2, <2>4 DEF FrameTooLarge
  <2>. QED
    BY <1>5, <2>1, <2>2, <2>3, <2>4 DEF Commit
<1>6. CASE Handle
  <2>0. seam' = seam /\ wire' = wire
    BY <1>6 DEF Handle, RetryRelay, GiveUpRelay, RelayAgain, ProtocolFallback, Propagate, DispatchSse, DispatchJson,
                DispatchHttpError
  <2>1. CASE RetryRelay \/ GiveUpRelay \/ ProtocolFallback \/ RelayAgain
    <3>1. \/ pc = "raised" /\ exc \in RelayRetryable \cup HttpErrors
          \/ pc = "relayWait"
      BY <2>1 DEF RetryRelay, GiveUpRelay, ProtocolFallback, RelayAgain
    <3>2. ~seam.closed
      BY <3>1 DEF SealIsFinal, At, RelayRetryable, HttpErrors
    <3>. QED
      BY <1>2, <2>0, <3>2
  <2>2. CASE Propagate
    <3>1. pc = "raised" /\ pc' = "dispatch" /\ exc' \in {exc, "shutdown"}
      BY <2>2 DEF Propagate, Goto
    <3>. QED
      BY <2>0, <3>1 DEF SealIsFinal, At
  <2>3. CASE DispatchSse \/ DispatchJson \/ DispatchHttpError
    <3>1. pc = "dispatch" /\ (pc' = "done" \/ (pc' = "write" /\ todo'.then = "done"))
      <4>1. pc = "dispatch" /\ (Goto("done") \/ \E items : Write(items, "done", "done"))
        BY <2>3 DEF DispatchSse, DispatchJson, DispatchHttpError
      <4>. QED
        BY <4>1, WriteLeads DEF Goto
    <3>. QED
      BY <2>0, <3>1 DEF SealIsFinal, At
  <2>. QED
    BY <1>6, <2>1, <2>2, <2>3 DEF Handle
<1>7. CASE Environment \/ UNCHANGED vars
  <2>1. UNCHANGED <<pc, todo, seam, exc, wire>>
    BY <1>7 DEF Environment, ClientLeaves, Cancel, DeadlinePasses, vars
  <2>. QED
    BY <1>0, <2>1 DEF SealIsFinal, At
<1>. QED
  BY <1>3, <1>4, <1>5, <1>6, <1>7 DEF Next, Handler

-----------------------------------------------------------------------------
(* What follows a terminal event that was cut off. *)

LEMMA CutStep ==
  ASSUME Shapes, WriteIsPlanned, ItemsServe, HeadersLead, CutIsCompleted, [Next]_vars
  PROVE  CutIsCompleted'
<1>0. /\ seam \in Seams /\ seam.closed \in BOOLEAN /\ wire \in Seq({"headers", "data", "begun", "terminal"})
      /\ pc = "write" => todo.items # <<>> /\ todo.then \in Thens
  <2>1. pc = "write" => todo.items # <<>> /\ todo.then \in Thens
    BY DEF Shapes, WriteIsPlanned, Todos, Thens
  <2>2. seam.closed \in BOOLEAN
    BY DEF Shapes, Seams
  <2>. QED
    BY <2>1, <2>2 DEF Shapes
<1>1. CASE CommitHeaders
  <2>1. pc = "write" /\ Item = "headers" /\ seam'.closed = seam.closed /\ seam'.frame = seam.frame
    BY <1>0, <1>1, SeamSteps DEF CommitHeaders, Seams
  <2>2. CASE seam.headers
    <3>1. wire' = wire
      BY <1>1, <2>2 DEF CommitHeaders
    <3>2. todo.items # <<"failed">>
      <4>1. Head(<<"failed">>) = "failed"
        OBVIOUS
      <4>. QED
        BY <2>1, <4>1 DEF Item
    <3>. QED
      BY <2>1, <3>1, <3>2 DEF CutIsCompleted, TerminalSent
  <2>3. CASE ~seam.headers
    <3>1. wire' = Append(wire, "headers") /\ wire = <<>>
      BY <1>1, <2>3 DEF CommitHeaders, HeadersLead
    <3>2. wire'[Len(wire')] = "headers"
      BY <1>0, <3>1, LastOfAppend
    <3>3. seam'.frame # "terminal"
      BY <2>1, <3>1 DEF CutIsCompleted
    <3>. QED
      BY <3>2, <3>3 DEF CutIsCompleted, TerminalSent
  <2>. QED
    BY <2>2, <2>3
<1>2. CASE CommitBytes
  <2>1. /\ pc = "write" /\ ~seam.closed /\ Proceed
        /\ seam'.frame = "terminal" => Item = "head"
        /\ ~seam'.closed => Item \notin TerminalItems \ {"completion"}
    BY <1>0, <1>2 DEF CommitBytes, Seams
  <2>2. wire' = Append(wire, OnWire(Item)) /\ OnWire(Item) \in {"headers", "data", "begun", "terminal"}
    BY <1>2 DEF CommitBytes, OnWire
  <2>3. wire' # <<>> /\ wire'[Len(wire')] = OnWire(Item)
    BY <1>0, <2>2, LastOfAppend
  <2>4. Item = "head" => OnWire(Item) = "begun"
    BY DEF OnWire, TerminalItems
  <2>5. ~seam'.closed /\ OnWire(Item) = "terminal" => pc' = "write" /\ todo'.items = <<"failed">>
    <3>. SUFFICES ASSUME ~seam'.closed, OnWire(Item) = "terminal" PROVE pc' = "write" /\ todo'.items = <<"failed">>
      OBVIOUS
    <3>1. Item = "completion"
      BY <2>1 DEF OnWire
    <3>2. todo.items = <<"completion", "failed">>
      <4>1. todo.items \notin Seq(Writes \ {"completion"})
        BY <1>0, <2>1, <3>1, HeadTailProperties DEF Item
      <4>. QED
        BY <2>1, <4>1 DEF ItemsServe
    <3>3. Tail(<<"completion", "failed">>) = <<"failed">> /\ <<"failed">> # <<>>
      OBVIOUS
    <3>. QED
      BY <2>1, <3>2, <3>3 DEF Proceed, Write
  <2>. QED
    BY <2>1, <2>3, <2>4, <2>5 DEF CutIsCompleted, TerminalSent
<1>3. CASE ~CommitHeaders /\ ~CommitBytes
  <2>1. wire' = wire /\ (seam'.closed = seam.closed \/ seam'.closed = TRUE)
    BY <1>3, SeamSteps
  <2>2. seam'.frame = "terminal" => seam.frame = "terminal"
    <3>1. CASE Open \/ Handle \/ Environment \/ UNCHANGED vars
      BY <3>1 DEF Open, EnterOpen, StartOpen, OpenSucceeds, OpenAgain, OpenFails, Handle, RetryRelay, GiveUpRelay, RelayAgain,
         ProtocolFallback, Propagate, DispatchSse, DispatchJson, DispatchHttpError, Environment, ClientLeaves, Cancel,
         DeadlinePasses, vars
    <3>2. CASE \E l \in Lines : ReadLine(l)
      BY <1>0, <3>2 DEF ReadLine, PassLine, HoldLine, ConvertLine, Seams
    <3>3. CASE StartRelay \/ ReadCancelled
      BY <1>0, <3>3 DEF StartRelay, ReadCancelled, Seams
    <3>4. CASE ReadEnds \/ ReadFails \/ AdapterEnds \/ RelayEnds
      BY <3>4 DEF ReadEnds, ReadFails, AdapterEnds, RelayEnds
    <3>5. CASE Commit
      BY <1>0, <1>3, <3>5 DEF Commit, CommitFails, CommitRefused, FrameTooLarge, Seams
    <3>. QED
      BY <3>1, <3>2, <3>3, <3>4, <3>5 DEF Next, Handler, Relay
  <2>3. ASSUME ~seam.closed, TerminalSent, ~seam'.closed
        PROVE  pc' = "write" /\ todo'.items = <<"failed">>
    <3>1. pc = "write" /\ todo.items = <<"failed">>
      BY <2>3 DEF CutIsCompleted
    <3>2. Head(<<"failed">>) = "failed"
      OBVIOUS
    <3>3. Item = "failed"
      BY <3>1, <3>2 DEF Item
    <3>4. ~Commit
      BY <1>0, <1>3, <2>3, <3>3 DEF Commit, CommitFails, CommitRefused, FrameTooLarge, Seams
    <3>5. Environment \/ UNCHANGED vars
      BY <3>1, <3>4 DEF Next, Handler, Open, EnterOpen, StartOpen, OpenSucceeds, OpenAgain, OpenFails, Relay, StartRelay, ReadEnds,
         ReadFails, ReadCancelled, AdapterEnds, RelayEnds, ReadLine, Handle, RetryRelay, GiveUpRelay, RelayAgain,
         ProtocolFallback, Propagate, DispatchSse, DispatchJson, DispatchHttpError
    <3>. QED
      BY <3>1, <3>5 DEF Environment, ClientLeaves, Cancel, DeadlinePasses, vars
  <2>. QED
    BY <1>0, <2>1, <2>2, <2>3 DEF CutIsCompleted, TerminalSent
<1>. QED
  BY <1>1, <1>2, <1>3

(* A step of the exchange is a step of StreamCommit, or leaves the stream alone *)
LEMMA StreamStep ==
  ASSUME Shapes, WriteIsPlanned, EndIsTold, ItemsServe, HeadersLead, StartIsMarked, SealIsFinal, CutIsCompleted, [Next]_vars
  PROVE  [Stream!Next]_(Stream!vars)
<1>. DEFINE S == wire \o direct
            O == seam.closed \/ direct # <<>>
<1>0. /\ seam \in Seams /\ wire \in Seq({"headers", "data", "begun", "terminal"})
      /\ wire' \in Seq({"headers", "data", "begun", "terminal"})
      /\ seam.closed \in BOOLEAN /\ seam'.closed \in BOOLEAN
      /\ direct \in {<<>>, <<"json">>} /\ direct' \in {<<>>, <<"json">>}
  <2>1. Shapes'
    BY ShapesStep
  <2>2. seam.closed \in BOOLEAN
    BY DEF Shapes, Seams
  <2>3. seam'.closed \in BOOLEAN
    BY <2>1 DEF Shapes, Seams
  <2>. QED
    BY <2>1, <2>2, <2>3 DEF Shapes
<1>1. CASE direct # <<>>
  <2>1. pc = "done"
    BY <1>1 DEF EndIsTold
  <2>2. wire' = wire /\ direct' = direct /\ seam' = seam
    BY <2>1, DoneIsFinal DEF ClientLeaves, DeadlinePasses, vars
  <2>. QED
    BY <2>2 DEF Stream!vars
<1>2. CASE direct = <<>> /\ DispatchJson
  <2>1. pc = "dispatch" /\ wire' = wire /\ seam' = seam
    BY <1>2 DEF DispatchJson
  <2>2. CASE direct' = <<>>
    BY <1>2, <2>1, <2>2 DEF Stream!vars
  <2>3. CASE direct' = <<"json">>
    <3>1. ~seam.closed /\ (wire # <<>> => ~TerminalSent)
      <4>1. CASE AlwaysJson
        <5>1. ~seam.closed
          BY <2>1, <4>1 DEF SealIsFinal, AlwaysJson
        <5>. QED
          BY <2>1, <5>1 DEF CutIsCompleted
      <4>2. CASE ~AlwaysJson
        <5>1. ~started
          BY <1>2, <4>2 DEF DispatchJson
        <5>2. wire = <<>>
          BY <2>1, <5>1 DEF StartIsMarked, At
        <5>. QED
          BY <2>1, <5>2 DEF SealIsFinal
      <4>. QED
        BY <4>1, <4>2
    <3>2. S = wire /\ S' = Append(wire, "json") /\ O = FALSE /\ O' = TRUE
      BY <1>0, <1>2, <2>1, <2>3, <3>1
    <3>3. CASE wire = <<>>
      <4>1. Append(<<>>, "json") = <<"json">>
        OBVIOUS
      <4>. QED
        BY <3>2, <3>3, <4>1 DEF Stream!Next, Stream!SendJson
    <3>4. CASE wire # <<>>
      BY <3>1, <3>2, <3>4 DEF Stream!Next, Stream!BreakStream, Stream!LastIs, TerminalSent
    <3>. QED
      BY <3>3, <3>4
  <2>. QED
    BY <1>0, <2>2, <2>3
<1>3. CASE direct = <<>> /\ ~DispatchJson
  <2>1. direct' = <<>>
    BY <1>3, DirectStep
  <2>2. S = wire /\ S' = wire' /\ O = seam.closed /\ O' = seam'.closed
    BY <1>0, <1>3, <2>1
  <2>3. CASE CommitHeaders
    <3>1. CASE seam.headers
      <4>1. wire' = wire /\ seam'.closed = seam.closed
        BY <2>3, <3>1, SeamSteps DEF CommitHeaders
      <4>. QED
        BY <2>2, <4>1 DEF Stream!vars
    <3>2. CASE ~seam.headers
      <4>1. wire = <<>> /\ ~seam.closed /\ wire' = Append(wire, "headers") /\ seam'.closed = seam.closed
        BY <2>3, <3>2, SeamSteps DEF CommitHeaders, HeadersLead
      <4>2. Append(<<>>, "headers") = <<"headers">>
        OBVIOUS
      <4>. QED
        BY <2>2, <4>1, <4>2 DEF Stream!Next, Stream!SendHeaders
    <3>. QED
      BY <3>1, <3>2
  <2>4. CASE CommitBytes
    <3>1. /\ pc = "write" /\ ~seam.closed /\ Item # "headers" /\ wire' = Append(wire, OnWire(Item))
          /\ seam'.closed = (Item \in TerminalItems \ {"completion"})
      BY <1>0, <2>4 DEF CommitBytes, Seams
    <3>2. wire # <<>>
      BY <3>1 DEF HeadersLead, Item
    <3>3. CASE Item = "completion"
      <4>1. todo.items \notin Seq(Writes \ {"completion"})
        <5>1. todo.items # <<>>
          BY <3>1 DEF WriteIsPlanned
        <5>. QED
          BY <3>3, <5>1, HeadTailProperties DEF Item
      <4>2. seam.frame = "terminal"
        BY <3>1, <4>1 DEF ItemsServe
      <4>3. wire[Len(wire)] = "begun"
        BY <4>2 DEF CutIsCompleted
      <4>4. wire' = Append(wire, "terminal") /\ ~seam'.closed
        BY <3>1, <3>3 DEF OnWire, TerminalItems
      <4>. QED
        BY <1>0, <2>2, <3>1, <3>2, <4>3, <4>4 DEF Stream!Next, Stream!CompleteCut, Stream!LastIs
    <3>4. CASE Item \in TerminalItems \ {"completion"}
      <4>1. wire' = Append(wire, "terminal") /\ seam'.closed = TRUE
        BY <3>1, <3>4 DEF OnWire
      <4>. QED
        BY <2>2, <3>1, <3>2, <4>1 DEF Stream!Next, Stream!SendTerminal
    <3>5. CASE Item \notin TerminalItems
      <4>0. Item \notin TerminalItems \ {"completion"}
        BY <3>5
      <4>1. wire' = Append(wire, OnWire(Item)) /\ OnWire(Item) \in {"data", "begun"} /\ seam'.closed = FALSE
        <5>1. seam'.closed = FALSE
          <6>1. seam'.closed = (seam.closed \/ Item \in TerminalItems \ {"completion"})
            BY <1>0, <2>4 DEF CommitBytes, Seams
          <6>. QED
            BY <1>0, <3>1, <4>0, <6>1
        <5>2. OnWire(Item) \in {"data", "begun"}
          BY <3>5 DEF OnWire
        <5>. QED
          BY <3>1, <5>1, <5>2
      <4>2. ~TerminalSent
        <5>1. Head(<<"failed">>) = "failed"
          OBVIOUS
        <5>2. todo.items # <<"failed">>
          BY <3>5, <5>1 DEF Item, TerminalItems
        <5>. QED
          BY <3>1, <5>2 DEF CutIsCompleted
      <4>3. ~Stream!LastIs("terminal")
        BY <2>2, <4>2 DEF TerminalSent, Stream!LastIs
      <4>4. S # <<>> /\ ~O /\ O' = O /\ \E item \in {"data", "begun"} : S' = Append(S, item)
        BY <2>2, <3>1, <3>2, <4>1
      <4>. QED
        BY <4>3, <4>4 DEF Stream!Next, Stream!SendData
    <3>. QED
      BY <3>3, <3>4, <3>5
  <2>5. CASE ~CommitHeaders /\ ~CommitBytes
    <3>1. wire' = wire /\ (seam'.closed = seam.closed \/ seam'.closed = TRUE)
      BY <2>5, SeamSteps
    <3>2. CASE seam'.closed = seam.closed
      BY <2>2, <3>1, <3>2 DEF Stream!vars
    <3>3. CASE seam'.closed # seam.closed
      <4>1. ~O /\ O' = TRUE /\ S' = S
        BY <1>0, <2>2, <3>1, <3>3
      <4>. QED
        BY <4>1 DEF Stream!Next, Stream!Close
    <3>. QED
      BY <3>2, <3>3
  <2>. QED
    BY <2>3, <2>4, <2>5
<1>. QED
  BY <1>1, <1>2, <1>3

-----------------------------------------------------------------------------
(* The theorems *)

(***************************************************************************)
(* The inductive invariant: the shapes, what is planned to be written, and *)
(* one part for each promise.                                              *)
(***************************************************************************)
ExchangeInv ==
    /\ Shapes /\ WriteIsPlanned
    /\ CountersInLimits
    /\ CleanUntilServed /\ GuardedOnce
    /\ OpenIsRelayed
    /\ EndIsTold
    /\ HeadersLead
    /\ ItemsServe /\ StartIsMarked /\ SealIsFinal /\ CutIsCompleted

LEMMA ExchangeInit == Init => ExchangeInv
<1>. SUFFICES ASSUME Init PROVE ExchangeInv
  OBVIOUS
<1>1. /\ pc = "enter" /\ exc = "none" /\ written = FALSE /\ started = FALSE /\ response = "none"
      /\ seam = [headers |-> FALSE, output |-> FALSE, exposed |-> FALSE, terminal |-> FALSE, closed |-> FALSE, frame |-> "clean"]
      /\ wire = <<>> /\ direct = <<>>
  BY DEF Init
<1>2. ~seam.headers /\ ~seam.output /\ ~seam.exposed /\ ~seam.closed
  BY <1>1
<1>3. CleanUntilServed /\ GuardedOnce /\ OpenIsRelayed
  BY <1>1, <1>2 DEF CleanUntilServed, GuardedOnce, OpenIsRelayed, Clean, At
<1>4. EndIsTold
  BY <1>1, <1>2 DEF EndIsTold, ClientIsTold
<1>5. HeadersLead
  BY <1>1, <1>2 DEF HeadersLead, Exposed
<1>6. ItemsServe /\ StartIsMarked /\ SealIsFinal /\ CutIsCompleted
  <2>1. seam.frame = "clean"
    BY <1>1
  <2>. QED
    BY <1>1, <1>2, <2>1 DEF ItemsServe, StartIsMarked, SealIsFinal, CutIsCompleted, TerminalSent, At
<1>. QED
  BY <1>3, <1>4, <1>5, <1>6, ShapesInit, CountersInit DEF ExchangeInv

LEMMA ExchangeStep == ExchangeInv /\ [Next]_vars => ExchangeInv'
  BY ShapesStep, WriteIsPlannedStep, CountersStep, ReplayStep, ReleaseStep, EndStep, HeadersStep, ItemsStep, StartStep, SealedStep,
     CutStep DEF ExchangeInv

LEMMA ExchangeInvariant == Spec => []ExchangeInv
  BY ExchangeInit, ExchangeStep, PTL DEF Spec

(***************************************************************************)
(* execute_exchange and _open_upstream_response: for any configuration of  *)
(* attempts, the nested retry loops keep every counter within its limit    *)
(* and the upstream is asked at most as often as the budget allows.        *)
(***************************************************************************)
THEOREM BudgetHolds == Spec => []OpensWithinBudget
<1>1. ExchangeInv => OpensWithinBudget
  <2>. SUFFICES ASSUME ExchangeInv PROVE OpensWithinBudget
    OBVIOUS
  <2>. USE DEF ExchangeInv
  <2>1. plan \in Plans /\ RealPlan(plan) /\ pc \in Labels /\ exc \in Exceptions
    BY DEF Shapes
  <2>2. /\ try.route \in 1 .. plan.routes /\ try.relay \in 1 .. try.relayLimit
        /\ try.open \in 1 .. OpenLimit("httpTransient") /\ try.begun \in Nat
        /\ plan.budget > 0 => try.begun <= plan.budget
    BY DEF CountersInLimits, Shapes, Tries
  <2>3. /\ deadline \in {"none", "running", "expired"} /\ response \in {"none", "open", "closed"}
        /\ source.lines \in 0 .. MaxLines /\ ending \in {"none", "eof", "http"}
    BY DEF Shapes
  <2>4. {written, armed, started, client, cancelled, source.open} \subseteq BOOLEAN
    <3>1. source.open \in BOOLEAN
      BY DEF Shapes
    <3>. QED
      BY <3>1, Zenon DEF Shapes
  <2>5. direct \in {<<>>, <<"json">>}
    BY DEF Shapes
  <2>6. todo.items \in Seq(Writes) /\ {todo.then, todo.else} \subseteq Labels
    BY DEF Shapes, Todos, Labels
  <2>7. seam \in Seams /\ relay \in Relays
    BY DEF Shapes
  <2>. QED
    BY <2>1, <2>2, <2>3, <2>4, <2>5, <2>6, <2>7 DEF OpensWithinBudget, TypeOK, Seams, Relays
<1>. QED
  BY <1>1, ExchangeInvariant, PTL

(***************************************************************************)
(* _retry_safety_class and the deferral of the relays: an upstream is      *)
(* asked again only when an earlier attempt provably was not served, and   *)
(* never after a byte of its answer reached the client.                    *)
(***************************************************************************)
THEOREM ReplaysAreSafeTheorem == Spec => ReplaysAreSafe
<1>1. ExchangeInv /\ [Next]_vars =>
        [AsksUpstream =>
            /\ GuardedPost => (~written \/ plan.idempotent) /\ ~seam.exposed
            /\ seam.output => plan.notice]_vars
  <2>. SUFFICES ASSUME ExchangeInv, [Next]_vars, AsksUpstream
                PROVE  /\ GuardedPost => (~written \/ plan.idempotent) /\ ~seam.exposed
                       /\ seam.output => plan.notice
    OBVIOUS
  <2>1. pc = "open"
    BY Destinations DEF AsksUpstream, ExchangeInv, StartOpen
  <2>. QED
    BY <2>1 DEF ExchangeInv, GuardedOnce, CleanUntilServed, Clean
<1>2. Spec => NoUnsafeReplay
  BY <1>1, ExchangeInvariant, PTL DEF Spec, NoUnsafeReplay
<1>. QED
  BY <1>2, BudgetHolds, PTL DEF ReplaysAreSafe

(***************************************************************************)
(* attach_upstream, close and the relays' finally blocks: whatever ends a  *)
(* request, no upstream response is left generating for nobody.            *)
(***************************************************************************)
THEOREM UpstreamIsAlwaysReleased == Spec => []UpstreamIsReleased
<1>1. ExchangeInv => UpstreamIsReleased
  BY DEF ExchangeInv, OpenIsRelayed, UpstreamIsReleased, At
<1>. QED
  BY <1>1, ExchangeInvariant, PTL

(***************************************************************************)
(* The relays, the retry loops and dispatch_proxy_post_exception: on every *)
(* path a client that stayed is told how its request ended, by a terminal  *)
(* event or by an answer of its own; it gets a JSON answer inside a begun  *)
(* stream from the two branches of the dispatcher that do not look at      *)
(* downstream_sse_started, and from nothing else.                          *)
(***************************************************************************)
THEOREM ClientIsAlwaysTold == Spec => []ClientIsTold
<1>1. ExchangeInv => ClientIsTold
  BY DEF ExchangeInv, EndIsTold
<1>. QED
  BY <1>1, ExchangeInvariant, PTL

(***************************************************************************)
(* DownstreamStreamCommit: whatever lines the upstream sends, what retries,*)
(* relays and the error dispatcher send to the client, through the seam or *)
(* past it, is one stream of StreamCommit: its headers once and first, and *)
(* nothing after a terminal event, but for the two steps by which the code *)
(* falls short of that, CompleteCut and BreakStream.                       *)
(***************************************************************************)
THEOREM StreamRefinement == Spec => StreamIsCommitted
<1>1. Init => Stream!Init
  <2>. SUFFICES ASSUME Init PROVE Stream!Init
    OBVIOUS
  <2>1. wire = <<>> /\ direct = <<>> /\ seam.closed = FALSE
    BY DEF Init
  <2>2. wire \o direct = <<>>
    BY <2>1
  <2>. QED
    BY <2>1, <2>2 DEF Stream!Init
<1>2. ExchangeInv /\ [Next]_vars => [Stream!Next]_(Stream!vars)
  BY StreamStep DEF ExchangeInv
<1>. QED
  BY <1>1, <1>2, ExchangeInvariant, PTL DEF Spec, StreamIsCommitted, Stream!Spec

(***************************************************************************)
(* The shape of a stream is inductive once its items are known.            *)
(***************************************************************************)
Shaped(s, o) ==
    \A i \in DOMAIN s :
        /\ (s[i] = "headers") => (i = 1)
        /\ (i = 1) => s[i] \in {"headers", "json"}
        /\ (s[i] = "json") => (i = Len(s) /\ o)
        /\ (s[i] = "terminal") =>
              \/ i = Len(s) /\ (o \/ s[i - 1] = "begun")
              \/ i = Len(s) - 1 /\ s[i - 1] = "begun" /\ s[i + 1] = "terminal" /\ o

LEMMA ShapeOfAppend ==
  ASSUME NEW s \in Seq(Stream!Items), NEW o \in BOOLEAN, Shaped(s, o), ~o, s # <<>>,
         NEW x \in Stream!Items, NEW p \in BOOLEAN,
         x # "headers",
         s[Len(s)] = "terminal" => x = "terminal" /\ p,
         x = "json" => p,
         x = "terminal" => p \/ s[Len(s)] = "begun"
  PROVE  Shaped(Append(s, x), p)
<1>. DEFINE t == Append(s, x)
            n == Len(s)
<1>1. /\ n \in Nat \ {0} /\ DOMAIN s = 1 .. n
      /\ t \in Seq(Stream!Items) /\ Len(t) = n + 1 /\ DOMAIN t = 1 .. (n + 1)
      /\ t[n + 1] = x /\ \A i \in 1 .. n : t[i] = s[i]
  BY EmptySeq
<1>. HIDE DEF t, n
<1>2. s[1] \in {"headers", "json"} /\ \A i \in 1 .. n : s[i] = "headers" => i = 1
  BY <1>1 DEF Shaped
<1>3. \A i \in 1 .. n : s[i] # "json"
  BY <1>1 DEF Shaped
<1>4. \A i \in 1 .. n : s[i] = "terminal" => i = n /\ s[i - 1] = "begun"
  BY <1>1 DEF Shaped, n
<1>5. s[n] = "terminal" => x = "terminal" /\ p
  BY DEF n
<1>6. x = "terminal" => p \/ s[n] = "begun"
  BY DEF n
<1>. SUFFICES ASSUME NEW i \in DOMAIN t
              PROVE  /\ (t[i] = "headers") => (i = 1)
                     /\ (i = 1) => t[i] \in {"headers", "json"}
                     /\ (t[i] = "json") => (i = Len(t) /\ p)
                     /\ (t[i] = "terminal") =>
                           \/ i = Len(t) /\ (p \/ t[i - 1] = "begun")
                           \/ i = Len(t) - 1 /\ t[i - 1] = "begun" /\ t[i + 1] = "terminal" /\ p
  BY Zenon DEF Shaped, t
<1>7. CASE i = n + 1
  BY <1>1, <1>6, <1>7
<1>8. CASE i \in 1 .. n
  <2>1. t[i] = s[i] /\ s[i] # "json"
    BY <1>1, <1>3, <1>8
  <2>2. s[i] = "terminal" => i = n /\ s[n - 1] = "begun" /\ x = "terminal" /\ p /\ n # 1
    BY <1>1, <1>2, <1>4, <1>5, <1>8
  <2>3. n # 1 => t[n - 1] = s[n - 1]
    BY <1>1
  <2>. QED
    BY <1>1, <1>2, <1>8, <2>1, <2>2, <2>3
<1>. QED
  BY <1>1, <1>7, <1>8

LEMMA ShapeStep ==
  Stream!TypeOK /\ Stream!WellFormed /\ [Stream!Next]_(Stream!vars) => (Stream!TypeOK /\ Stream!WellFormed)'
<1>. DEFINE S == wire \o direct
            O == seam.closed \/ direct # <<>>
<1>. SUFFICES ASSUME Stream!TypeOK, Stream!WellFormed, [Stream!Next]_(Stream!vars)
              PROVE  (S \in Seq(Stream!Items) /\ O \in BOOLEAN)' /\ Shaped(S', O')
  BY Zenon DEF Stream!TypeOK, Stream!WellFormed, Shaped
<1>0. S \in Seq(Stream!Items) /\ O \in BOOLEAN /\ Shaped(S, O)
  BY Zenon DEF Stream!TypeOK, Stream!WellFormed, Shaped
<1>1. CASE Stream!SendHeaders
  <2>1. S' = <<"headers">> /\ O' = O
    BY <1>1, Zenon DEF Stream!SendHeaders
  <2>. HIDE DEF S, O
  <2>2. <<"headers">> \in Seq(Stream!Items) /\ Shaped(<<"headers">>, O)
    BY DEF Stream!Items, Shaped
  <2>. QED
    BY <1>0, <2>1, <2>2
<1>2. CASE Stream!SendJson
  <2>1. S' = <<"json">> /\ O' = TRUE
    BY <1>2, Zenon DEF Stream!SendJson
  <2>. HIDE DEF S, O
  <2>2. <<"json">> \in Seq(Stream!Items) /\ Shaped(<<"json">>, TRUE)
    BY DEF Stream!Items, Shaped
  <2>. QED
    BY <1>0, <2>1, <2>2
<1>3. CASE Stream!SendData
  <2>1. /\ ~O /\ S # <<>> /\ O' = O /\ ~(S # <<>> /\ S[Len(S)] = "terminal")
        /\ \E item \in {"data", "begun"} : S' = Append(S, item)
    BY <1>3, Zenon DEF Stream!SendData, Stream!LastIs
  <2>2. PICK item \in {"data", "begun"} : S' = Append(S, item)
    BY <2>1
  <2>. HIDE DEF S, O
  <2>3. item \in Stream!Items /\ item \notin {"headers", "json", "terminal"}
    BY DEF Stream!Items
  <2>4. Shaped(Append(S, item), O')
    BY <1>0, <2>1, <2>3, ShapeOfAppend
  <2>. QED
    BY <1>0, <2>1, <2>2, <2>3, <2>4, AppendProperties
<1>4. CASE Stream!SendTerminal
  <2>1. ~O /\ S # <<>> /\ O' = TRUE /\ S' = Append(S, "terminal")
    BY <1>4, Zenon DEF Stream!SendTerminal
  <2>. HIDE DEF S, O
  <2>2. "terminal" \in Stream!Items
    BY DEF Stream!Items
  <2>3. Shaped(Append(S, "terminal"), TRUE)
    BY <1>0, <2>1, <2>2, ShapeOfAppend
  <2>. QED
    BY <1>0, <2>1, <2>2, <2>3, AppendProperties
<1>5. CASE Stream!CompleteCut
  <2>1. ~O /\ S # <<>> /\ S[Len(S)] = "begun" /\ O' = O /\ S' = Append(S, "terminal")
    BY <1>5, Zenon DEF Stream!CompleteCut, Stream!LastIs
  <2>. HIDE DEF S, O
  <2>2. "terminal" \in Stream!Items
    BY DEF Stream!Items
  <2>3. Shaped(Append(S, "terminal"), O)
    BY <1>0, <2>1, <2>2, ShapeOfAppend
  <2>. QED
    BY <1>0, <2>1, <2>2, <2>3, AppendProperties
<1>6. CASE Stream!BreakStream
  <2>1. ~O /\ S # <<>> /\ ~(S # <<>> /\ S[Len(S)] = "terminal") /\ O' = TRUE /\ S' = Append(S, "json")
    BY <1>6, Zenon DEF Stream!BreakStream, Stream!LastIs
  <2>. HIDE DEF S, O
  <2>2. "json" \in Stream!Items
    BY DEF Stream!Items
  <2>3. Shaped(Append(S, "json"), TRUE)
    BY <1>0, <2>1, <2>2, ShapeOfAppend
  <2>. QED
    BY <1>0, <2>1, <2>2, <2>3, AppendProperties
<1>7. CASE Stream!Close
  <2>1. ~O /\ O' = TRUE /\ S' = S
    BY <1>7, Zenon DEF Stream!Close
  <2>. HIDE DEF S, O
  <2>2. Shaped(S, TRUE)
    BY <1>0, <2>1 DEF Shaped
  <2>. QED
    BY <1>0, <2>1, <2>2
<1>8. CASE UNCHANGED Stream!vars
  <2>1. O' = O /\ S' = S
    BY <1>8, Zenon DEF Stream!vars
  <2>. HIDE DEF S, O
  <2>. QED
    BY <1>0, <2>1
<1>. QED
  BY <1>1, <1>2, <1>3, <1>4, <1>5, <1>6, <1>7, <1>8, Zenon DEF Stream!Next

(***************************************************************************)
(* What the refinement is worth to a client: the header block is first and *)
(* single, an event that follows a terminal one is a second terminal after *)
(* one that the upstream cut off, and a JSON answer is last.               *)
(***************************************************************************)
THEOREM WireIsWellFormed == Spec => []Stream!WellFormed
<1>1. Stream!Init => Stream!TypeOK /\ Stream!WellFormed
  <2>. DEFINE S == wire \o direct
              O == seam.closed \/ direct # <<>>
  <2>. SUFFICES ASSUME Stream!Init PROVE S \in Seq(Stream!Items) /\ O \in BOOLEAN /\ Shaped(S, O)
    BY Zenon DEF Stream!TypeOK, Stream!WellFormed, Shaped
  <2>1. S = <<>> /\ O = FALSE
    BY Zenon DEF Stream!Init
  <2>. HIDE DEF S, O
  <2>2. Shaped(<<>>, FALSE) /\ <<>> \in Seq(Stream!Items)
    BY DEF Shaped
  <2>. QED
    BY <2>1, <2>2
<1>. QED
  BY <1>1, ShapeStep, StreamRefinement, PTL DEF StreamIsCommitted, Stream!Spec
=============================================================================
