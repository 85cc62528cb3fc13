--------------------------- MODULE WebTurns_proofs ---------------------------
(***************************************************************************)
(* Safety of the permits for tool results for any number of handlers,      *)
(* turns, calls and requests.  TurnsInv follows a claim from the permit    *)
(* that was open to the one exchange that holds it and to the answer that  *)
(* is recorded for it.                                                     *)
(***************************************************************************)
EXTENDS WebTurns, TLAPS

(* The points of a request before its exchange is registered, and those of  *)
(* an exchange that is not settled.                                         *)
Preparing == {"begin", "drain", "drained", "status", "sync", "synced", "epoch", "epoched", "claim", "abort"}
Exchanging == {"open", "relay", "note", "settle"}

(* The exchange of h forwards the result of the call c.                     *)
Holds(h, c) == inflight[h] /\ pc[h] \in Exchanging /\ Phase(h) = "continue" /\ c \in req[h].outs

(* What the flags of an exchange say at each point.                         *)
Flags(h) ==
    /\ inflight[h] => req[h].turn # None
    /\ pc[h] \in Preparing \cup {"replay"} => ~inflight[h] /\ ~aborted[h] /\ ~terminal[h]
    /\ pc[h] \in Preparing \cup {"idle"} => ~submitted[h]
    /\ pc[h] = "idle" => ~terminal[h]
    /\ pc[h] = "open" /\ inflight[h] => ~submitted[h] /\ ~terminal[h]
    /\ pc[h] \in {"relay", "note"} => submitted[h]

FlagsFit == \A h \in Handlers : Flags(h)

(* One exchange forwards a result, and nobody else may claim it meanwhile.  *)
HeldByOne ==
    /\ \A h \in Handlers, g \in Handlers, c \in Calls : Holds(h, c) /\ Holds(g, c) => h = g
    /\ \A h \in Handlers, c \in Calls : Holds(h, c) =>
           permit[c].turn = req[h].turn /\ permit[c].state \in {"forwarding", "recorded", "revoked"}

(* The runtime got what was submitted and nothing else.                     *)
SentIfSubmitted ==
    /\ \A c \in Calls : sent[c] <= 1
    /\ \A c \in Calls : permit[c].state \in {"none", "open"} => sent[c] = 0
    /\ \A h \in Handlers, c \in Calls : Holds(h, c) => sent[c] = IF submitted[h] THEN 1 ELSE 0

(* A recorded answer answers the call, in its turn, and was given once.     *)
AnswerFits ==
    \A c \in Calls : permit[c].state = "recorded" =>
        permit[c].body # None /\ permit[c].body.turn = permit[c].turn /\ c \in permit[c].body.outs /\ sent[c] = 1

(* The properties, in the terms above.                                      *)
ForwardingIsHeld ==
    \A c \in Calls : permit[c].state = "forwarding" =>
        \E h \in Handlers : Holds(h, c) /\ ~terminal[h] /\ ~aborted[h]

SlotsAreUsed == \A h \in slots : pc[h] \notin {"idle", "begin"}

TurnsInv ==
    /\ TypeOK /\ FlagsFit /\ HeldByOne /\ SentIfSubmitted /\ AnswerFits
    /\ ReplayFits /\ ForwardingIsHeld /\ SlotsAreUsed

-----------------------------------------------------------------------------
(* Types                                                                   *)

Permits == [state : {"none", "revoked"} \cup AnyState, turn : Turns \cup {None}, body : Bodies \cup {None}]
CollabPermits == [state : {"none", "open", "consumed", "revoked"}, turn : Turns \cup {None}]

HandlerStep(h) ==
    \/ Arrive(h) \/ BeginPlain(h) \/ BeginRefused(h) \/ BeginFails(h) \/ BeginJoint(h)
    \/ ConsumeDrain(h) \/ DrainCollab(h) \/ ReadStatus(h) \/ SyncProcessGeneration(h) \/ SyncCollab(h)
    \/ NoteTurnEpoch(h) \/ EpochCollab(h) \/ ClaimFails(h) \/ ClaimReplays(h) \/ Claim(h)
    \/ NoteSubmitted(h) \/ OpenFails(h) \/ AnswerLost(h) \/ ObserveEvent(h) \/ NoteStreamEvent(h)
    \/ RelayEnds(h) \/ RelayRetries(h) \/ Abort(h) \/ Settle(h) \/ Finish(h) \/ AbortExchange(h)

RuntimeStep == RuntimeRestarts \/ RuntimeDrains

(* What Revoke leaves of a table of permits: some are revoked, others not   *)
(* touched, and none is another turn's.                                     *)
LEMMA RevokeKeeps ==
    ASSUME TypeOK, NEW C, NEW S, S \subseteq AnyState
    PROVE  /\ Revoke(C, S) \in [Calls -> Permits]
           /\ \A c \in Calls :
                 /\ Revoke(C, S)[c].turn = permit[c].turn
                 /\ c \in C /\ permit[c].state \in S => Revoke(C, S)[c].state = "revoked"
                 /\ ~(c \in C /\ permit[c].state \in S) => Revoke(C, S)[c] = permit[c]
<1>1. permit \in [Calls -> Permits]
  BY DEF TypeOK, Permits
<1>2. \A p \in Permits : /\ [p EXCEPT !.state = "revoked", !.body = None] \in Permits
                         /\ [p EXCEPT !.state = "revoked", !.body = None].state = "revoked"
                         /\ [p EXCEPT !.state = "revoked", !.body = None].turn = p.turn
  BY DEF Permits
<1> QED
  BY <1>1, <1>2 DEF Revoke

LEMMA RevokeCollabKeeps ==
    ASSUME NEW table \in [Calls -> CollabPermits], NEW C
    PROVE  /\ RevokeCollab(table, C) \in [Calls -> CollabPermits]
           /\ \A c \in Calls : table[c].state = "revoked" => RevokeCollab(table, C)[c].state = "revoked"
<1>1. \A p \in CollabPermits : /\ [p EXCEPT !.state = "revoked"] \in CollabPermits
                               /\ [p EXCEPT !.state = "revoked"].state = "revoked"
  BY DEF CollabPermits
<1> QED
  BY <1>1 DEF RevokeCollab

(* The calls of a request enter the table with its turn, and interrupts     *)
(* revoke others.                                                           *)
LEMMA InterruptedKeeps ==
    ASSUME TypeOK, NEW h \in Handlers
    PROVE  /\ \A C : WithCalls(h, C) \in [Calls -> CollabPermits]
           /\ \A C : \A c \in Calls : collab[c].state = "revoked" => WithCalls(h, C)[c].state = "revoked"
           /\ Interrupted(h) \in [Calls -> CollabPermits]
           /\ \A c \in Calls : collab[c].state = "revoked" => Interrupted(h)[c].state = "revoked"
<1>1. collab \in [Calls -> CollabPermits] /\ req[h].turn \in Turns \cup {None}
  BY DEF TypeOK, CollabPermits, RequestShapes, NoRequest
<1>2. [state |-> "open", turn |-> req[h].turn] \in CollabPermits
  BY <1>1 DEF CollabPermits
<1>3. /\ \A C : WithCalls(h, C) \in [Calls -> CollabPermits]
      /\ \A C : \A c \in Calls : collab[c].state = "revoked" => WithCalls(h, C)[c].state = "revoked"
  BY <1>1, <1>2 DEF WithCalls
<1> DEFINE table == WithCalls(h, req[h].calls)
           others == CollabOfThread(table, req[h].turn) \ (req[h].calls \cap Interrupts)
<1>4. Interrupted(h) = table \/ Interrupted(h) = RevokeCollab(table, others)
  BY DEF Interrupted
<1>5. /\ table \in [Calls -> CollabPermits]
      /\ \A c \in Calls : collab[c].state = "revoked" => table[c].state = "revoked"
  BY <1>3
<1> HIDE DEF table, others
<1>6. /\ Interrupted(h) \in [Calls -> CollabPermits]
      /\ \A c \in Calls : collab[c].state = "revoked" => Interrupted(h)[c].state = "revoked"
  BY <1>4, <1>5, RevokeCollabKeeps
<1> QED
  BY <1>3, <1>6

(* A permit of the collaboration module is claimed, given back or revoked.  *)
LEMMA CollabStates ==
    ASSUME NEW p \in CollabPermits, NEW s \in {"none", "open", "consumed", "revoked"}
    PROVE  [p EXCEPT !.state = s] \in CollabPermits /\ [p EXCEPT !.state = s].state = s
  BY DEF CollabPermits

(* No step of a request gives a collaboration permit back once it has been  *)
(* revoked.                                                                 *)
LEMMA CollabSteps ==
    ASSUME TypeOK, NEW h \in Handlers, HandlerStep(h)
    PROVE  /\ collab' \in [Calls -> CollabPermits]
           /\ \A c \in Calls : collab[c].state = "revoked" => collab'[c].state = "revoked"
<1> DEFINE Goal == /\ collab' \in [Calls -> CollabPermits]
                   /\ \A c \in Calls : collab[c].state = "revoked" => collab'[c].state = "revoked"
<1>1. collab \in [Calls -> CollabPermits] /\ req[h].turn \in Turns \cup {None}
  BY DEF TypeOK, CollabPermits, RequestShapes, NoRequest
<1>2. CASE UNCHANGED collab
  BY <1>1, <1>2
<1>3. ASSUME NEW table \in [Calls -> CollabPermits], NEW C, collab' = RevokeCollab(table, C),
             \A c \in Calls : collab[c].state = "revoked" => table[c].state = "revoked"
      PROVE  Goal
  BY <1>3, RevokeCollabKeeps
<1>4. ASSUME NEW table \in [Calls -> CollabPermits], NEW r \in BOOLEAN, Release(h, table, r),
             \A c \in Calls : collab[c].state = "revoked" => table[c].state = "revoked"
      PROVE  Goal
  BY <1>4, CollabStates DEF Release
<1>5. CASE BeginFails(h)
  <2>1. CASE \E C \in SUBSET req[h].calls : collab' = WithCalls(h, C)
    BY <2>1, InterruptedKeeps
  <2>2. CASE \E c \in req[h].outs, C \in SUBSET {d \in req[h].outs : Interrupted(h)[d].state = "open"} :
                 /\ Interrupted(h)[c].state \in {"revoked", "consumed"}
                 /\ collab' = [d \in Calls |->
                       IF d = c THEN [Interrupted(h)[d] EXCEPT !.state = "revoked"]
                       ELSE IF d \in C THEN [Interrupted(h)[d] EXCEPT !.state = "consumed"] ELSE Interrupted(h)[d]]
    <3>1. PICK c \in req[h].outs, C \in SUBSET {d \in req[h].outs : Interrupted(h)[d].state = "open"} :
                 collab' = [d \in Calls |->
                       IF d = c THEN [Interrupted(h)[d] EXCEPT !.state = "revoked"]
                       ELSE IF d \in C THEN [Interrupted(h)[d] EXCEPT !.state = "consumed"] ELSE Interrupted(h)[d]]
      BY <2>2, Zenon
    <3> QED
      BY <3>1, InterruptedKeeps, CollabStates, ZenonT(30)
  <2> QED
    BY <1>5, <2>1, <2>2 DEF BeginFails
<1>6. CASE BeginJoint(h)
  <2>1. PICK claimed \in SUBSET {c \in req[h].outs : Interrupted(h)[c].state = "open"} :
              collab' = [c \in Calls |-> IF c \in claimed THEN [Interrupted(h)[c] EXCEPT !.state = "consumed"]
                                         ELSE Interrupted(h)[c]]
    BY <1>6 DEF BeginJoint
  <2> QED
    BY <2>1, InterruptedKeeps, CollabStates, ZenonT(30)
<1>7. CASE NoteStreamEvent(h)
  <2> DEFINE c == event[h]
             opened == IF collab[c].state = "none" \/ (collab[c].state = "open" /\ collab[c].turn = None)
                       THEN [state |-> "open", turn |-> req[h].turn] ELSE collab[c]
             table == [collab EXCEPT ![c] = opened]
  <2>1. collab' \in {table, RevokeCollab(table, CollabOfThread(table, req[h].turn) \ {c})}
    BY <1>7 DEF NoteStreamEvent
  <2>2. /\ table \in [Calls -> CollabPermits]
        /\ \A d \in Calls : collab[d].state = "revoked" => table[d].state = "revoked"
    <3>1. [state |-> "open", turn |-> req[h].turn] \in CollabPermits
      BY <1>1 DEF CollabPermits
    <3>2. c \in Calls => opened \in CollabPermits /\ (collab[c].state = "revoked" => opened.state = "revoked")
      BY <1>1, <3>1
    <3> HIDE DEF opened, c
    <3> QED
      BY <1>1, <3>2
  <2> HIDE DEF table, c
  <2>3. collab' = table => Goal
    BY <2>2
  <2> QED
    BY <1>3, <2>1, <2>2, <2>3
<1>8. CASE Finish(h)
  <2> DEFINE stopped == inflight[h] /\ aborted[h]
             table == IF stopped THEN RevokeCollab(collab, {c \in Calls : collab[c].turn = req[h].turn}) ELSE collab
  <2>1. Release(h, table, ~submitted[h] /\ ~stopped)
    BY <1>8 DEF Finish
  <2>2. /\ table \in [Calls -> CollabPermits]
        /\ \A d \in Calls : collab[d].state = "revoked" => table[d].state = "revoked"
    BY <1>1, RevokeCollabKeeps
  <2> HIDE DEF table
  <2> QED
    BY <1>4, <2>1, <2>2
<1>9. CASE AbortExchange(h)
  BY <1>9, <1>1, <1>4 DEF AbortExchange
<1>10. CASE DrainCollab(h) \/ SyncCollab(h) \/ EpochCollab(h)
  BY <1>10, <1>1, <1>3 DEF DrainCollab, SyncCollab, EpochCollab
<1> QED
  BY <1>2, <1>5, <1>6, <1>7, <1>8, <1>9, <1>10
  DEF HandlerStep, Arrive, BeginPlain, BeginRefused, ConsumeDrain, ReadStatus, SyncProcessGeneration, NoteTurnEpoch,
      ClaimFails, ClaimReplays, Claim, NoteSubmitted, OpenFails, AnswerLost, ObserveEvent, RelayEnds, RelayRetries, Abort, Settle,
      tables

(* The steps that touch permits at all mostly revoke some of them.          *)
OnlyRevokes ==
    /\ permit' \in [Calls -> Permits]
    /\ \A c \in Calls :
          \/ permit'[c] = permit[c]
          \/ permit[c].state \in AnyState /\ permit'[c].state = "revoked" /\ permit'[c].turn = permit[c].turn

(* An exchange that ends without having been submitted gives its claims back. *)
GivesBack(h) ==
    /\ permit' \in [Calls -> Permits]
    /\ \A c \in Calls :
          IF c \in req[h].outs /\ permit[c].state = "forwarding" /\ permit[c].turn = req[h].turn
          THEN permit'[c].state = "open" /\ permit'[c].turn = permit[c].turn
          ELSE permit'[c] = permit[c]

Claiming(h) ==
    /\ permit' \in [Calls -> Permits]
    /\ \A c \in Calls :
          IF Phase(h) = "continue" /\ c \in req[h].outs
          THEN permit'[c].state = "forwarding" /\ permit'[c].turn = permit[c].turn
          ELSE permit'[c] = permit[c]

(* An event opens a permit, or records the answer to what h forwarded.      *)
Observing(h) ==
    /\ permit' \in [Calls -> Permits]
    /\ \A c \in Calls :
          \/ permit'[c] = permit[c] /\ ~(terminal'[h] /\ c \in Claims(h) /\ permit[c].state = "forwarding"
                                         /\ permit[c].turn = req[h].turn)
          \/ permit[c].state = "none" /\ permit'[c].state = "open"
          \/ /\ c \in Claims(h) /\ permit[c].state = "forwarding" /\ permit[c].turn = req[h].turn
             /\ permit'[c].state = "recorded" /\ permit'[c].turn = permit[c].turn
             /\ permit'[c].body = [turn |-> req[h].turn, outs |-> req[h].outs]

LEMMA PermitStates ==
    ASSUME NEW p \in Permits, NEW s \in {"none", "revoked"} \cup AnyState, NEW b \in Bodies \cup {None}
    PROVE  /\ [p EXCEPT !.state = s] \in Permits
           /\ [p EXCEPT !.state = s].state = s /\ [p EXCEPT !.state = s].turn = p.turn
           /\ [p EXCEPT !.state = s, !.body = b] \in Permits
           /\ [p EXCEPT !.state = s, !.body = b].state = s /\ [p EXCEPT !.state = s, !.body = b].turn = p.turn
           /\ [p EXCEPT !.state = s, !.body = b].body = b
  BY DEF Permits

LEMMA RevokingSteps ==
    ASSUME TypeOK, NEW h \in Handlers, HandlerStep(h)
    PROVE  OnlyRevokes \/ Claim(h) \/ ObserveEvent(h) \/ Settle(h)
<1>1. permit \in [Calls -> Permits]
  BY DEF TypeOK, Permits
<1>2. UNCHANGED permit => OnlyRevokes
  BY <1>1 DEF OnlyRevokes
<1>3. ASSUME NEW C, NEW S, S \subseteq AnyState, permit' = Revoke(C, S) PROVE OnlyRevokes
  BY <1>3, RevokeKeeps DEF OnlyRevokes
<1>4. RevokeAll => OnlyRevokes
  BY <1>3 DEF RevokeAll
<1>5. permit' = RevokeInflight(h) => OnlyRevokes
  BY <1>3 DEF RevokeInflight, AnyState
<1>6. permit' = Revoke(OfThread(req[h].turn), AnyState) => OnlyRevokes
  BY <1>3
<1>7. CASE ConsumeDrain(h)
  BY <1>7, <1>2, <1>4 DEF ConsumeDrain
<1>8. CASE SyncProcessGeneration(h)
  BY <1>8, <1>2, <1>4 DEF SyncProcessGeneration
<1>9. CASE NoteTurnEpoch(h)
  BY <1>9, <1>2, <1>6 DEF NoteTurnEpoch
<1>10. CASE Abort(h)
  BY <1>10, <1>5 DEF Abort
<1> QED
  BY <1>2, <1>7, <1>8, <1>9, <1>10
  DEF HandlerStep, Arrive, BeginPlain, BeginRefused, BeginFails, BeginJoint, DrainCollab, ReadStatus, SyncCollab,
      EpochCollab, ClaimFails, ClaimReplays, NoteSubmitted, OpenFails, AnswerLost, NoteStreamEvent, RelayEnds, RelayRetries,
      Finish, AbortExchange, tables

LEMMA ClaimingStep ==
    ASSUME TypeOK, NEW h \in Handlers, Claim(h)
    PROVE  Claiming(h)
<1>1. permit \in [Calls -> Permits]
  BY DEF TypeOK, Permits
<1>2. permit' = [c \in Calls |-> IF Phase(h) = "continue" /\ c \in req[h].outs
                                 THEN [permit[c] EXCEPT !.state = "forwarding", !.body = None] ELSE permit[c]]
  BY DEF Claim
<1>3. "forwarding" \in {"none", "revoked"} \cup AnyState /\ None \in Bodies \cup {None}
  BY DEF AnyState
<1>4. \A p \in Permits : LET q == [p EXCEPT !.state = "forwarding", !.body = None]
                         IN q \in Permits /\ q.state = "forwarding" /\ q.turn = p.turn
  BY <1>3 DEF Permits
<1>5. permit' \in [Calls -> Permits]
  BY <1>1, <1>2, <1>4
<1> QED
  BY <1>1, <1>2, <1>4, <1>5 DEF Claiming

LEMMA SettlingStep ==
    ASSUME TypeOK, NEW h \in Handlers, Settle(h)
    PROVE  \/ (~inflight[h] \/ terminal[h] \/ aborted[h]) /\ UNCHANGED permit
           \/ inflight[h] /\ Phase(h) = "continue" /\ ~submitted[h] /\ GivesBack(h)
           \/ permit' = RevokeInflight(h)
<1>1. permit \in [Calls -> Permits]
  BY DEF TypeOK, Permits
<1>2. "open" \in {"none", "revoked"} \cup AnyState /\ None \in Bodies \cup {None}
  BY DEF AnyState
<1>3. ASSUME permit' = [c \in Calls |->
                   IF c \in req[h].outs /\ permit[c].state = "forwarding" /\ permit[c].turn = req[h].turn
                   THEN [permit[c] EXCEPT !.state = "open"] ELSE permit[c]]
      PROVE  GivesBack(h)
  <2>1. \A p \in Permits : LET q == [p EXCEPT !.state = "open"]
                           IN q \in Permits /\ q.state = "open" /\ q.turn = p.turn
    BY <1>2, PermitStates
  <2>2. permit' \in [Calls -> Permits]
    BY <1>1, <1>3, <2>1
  <2> QED
    BY <1>1, <1>3, <2>1, <2>2 DEF GivesBack
<1> QED
  BY <1>3 DEF Settle

LEMMA ObservingStep ==
    ASSUME TypeOK, FlagsFit, NEW h \in Handlers, ObserveEvent(h)
    PROVE  Observing(h)
<1>1. permit \in [Calls -> Permits] /\ terminal \in [Handlers -> BOOLEAN]
  BY DEF TypeOK, Permits
<1>2. req[h].turn \in Turns /\ req[h].outs \in SUBSET Calls
  <2>1. req[h].turn # None
    BY DEF FlagsFit, Flags, ObserveEvent
  <2>2. req[h] \in RequestShapes \cup {NoRequest}
    BY DEF TypeOK
  <2> QED
    BY <2>1, <2>2 DEF RequestShapes, NoRequest
<1> DEFINE new == [state |-> "open", turn |-> req[h].turn, body |-> None]
           answer == [turn |-> req[h].turn, outs |-> req[h].outs]
<1>3. new \in Permits /\ new.state = "open" /\ answer \in Bodies
  BY <1>2 DEF Permits, Bodies, AnyState
<1>4. PICK c \in Calls \cup {None}, last \in BOOLEAN :
          /\ permit' = [d \in Calls |->
                IF d = c /\ Phase(h) = "issue" /\ permit[d].state = "none" THEN new
                ELSE IF last /\ d \in Claims(h) /\ permit[d].state = "forwarding" /\ permit[d].turn = req[h].turn
                THEN [permit[d] EXCEPT !.state = "recorded", !.body = answer]
                ELSE permit[d]]
          /\ terminal' = [terminal EXCEPT ![h] = last]
  <2>1. PICK c \in {d \in Calls : TurnOf[d] = req[h].turn} \cup {None}, last \in BOOLEAN :
            /\ permit' = [d \in Calls |->
                  IF d = c /\ Phase(h) = "issue" /\ permit[d].state = "none" THEN new
                  ELSE IF last /\ d \in Claims(h) /\ permit[d].state = "forwarding" /\ permit[d].turn = req[h].turn
                  THEN [permit[d] EXCEPT !.state = "recorded", !.body = answer]
                  ELSE permit[d]]
            /\ terminal' = [terminal EXCEPT ![h] = last]
    BY Zenon DEF ObserveEvent
  <2> HIDE DEF new, answer
  <2> QED
    BY <2>1, Zenon
<1>5. "recorded" \in {"none", "revoked"} \cup AnyState
  BY DEF AnyState
<1>6. terminal'[h] = last
  BY <1>1, <1>4
<1> HIDE DEF new, answer
<1>7. permit' \in [Calls -> Permits]
  BY <1>1, <1>3, <1>4, <1>5, PermitStates
<1>8. \A p \in Permits : LET q == [p EXCEPT !.state = "recorded", !.body = answer]
                         IN q.state = "recorded" /\ q.turn = p.turn /\ q.body = answer
  BY <1>3, <1>5 DEF Permits
<1>9. ASSUME NEW d \in Calls
      PROVE  \/ permit'[d] = permit[d] /\ ~(last /\ d \in Claims(h) /\ permit[d].state = "forwarding"
                                           /\ permit[d].turn = req[h].turn)
             \/ permit[d].state = "none" /\ permit'[d].state = "open"
             \/ /\ d \in Claims(h) /\ permit[d].state = "forwarding" /\ permit[d].turn = req[h].turn
                /\ permit'[d].state = "recorded" /\ permit'[d].turn = permit[d].turn
                /\ permit'[d].body = answer
  BY <1>1, <1>3, <1>4, <1>8
<1> QED
  BY <1>6, <1>7, <1>9 DEF Observing, answer

(* The rest of the state: what the module remembers besides the permits,    *)
(* and the local state of the requests.                                     *)
TypedMarks ==
    /\ slots \subseteq Handlers
    /\ gen \in Nat \cup {None} /\ epoch \in [Threads -> Models \cup {None}] /\ drainSeen \in Nat
    /\ runtime \in Nat /\ drain \in Nat /\ requests \in Nat /\ sent \in [Calls -> Nat]
    /\ lost \in [Calls -> Nat]

TypedExchange ==
    /\ pc \in [Handlers -> Labels]
    /\ req \in [Handlers -> RequestShapes \cup {NoRequest}] /\ joint \in [Handlers -> BOOLEAN]
    /\ consumed \in [Handlers -> SUBSET Calls] /\ observed \in [Handlers -> SUBSET Calls]
    /\ inflight \in [Handlers -> BOOLEAN] /\ submitted \in [Handlers -> BOOLEAN]
    /\ terminal \in [Handlers -> BOOLEAN] /\ aborted \in [Handlers -> BOOLEAN]
    /\ status \in [Handlers -> Nat \cup {None}]
    /\ event \in [Handlers -> Calls \cup {None}] /\ body \in [Handlers -> Bodies \cup {None}]

LEMMA TypedParts == TypeOK <=> /\ permit \in [Calls -> Permits] /\ collab \in [Calls -> CollabPermits]
                               /\ TypedMarks /\ TypedExchange
  BY DEF TypeOK, Permits, CollabPermits, TypedMarks, TypedExchange

LEMMA MarksStep ==
    ASSUME TypeOK, NEW h \in Handlers, HandlerStep(h)
    PROVE  TypedMarks'
<1>1. TypedMarks /\ req[h].model \in Models \cup {None} /\ status[h] \in Nat \cup {None}
  <2>1. req[h] \in RequestShapes \cup {NoRequest} /\ status[h] \in Nat \cup {None}
    BY DEF TypeOK
  <2> QED
    BY <2>1, TypedParts DEF RequestShapes, NoRequest
<1>2. UNCHANGED <<marks, world>> /\ slots' \subseteq slots \cup {h} => TypedMarks'
  BY <1>1 DEF TypedMarks, marks, world
<1>3. CASE Arrive(h)
  BY <1>3, <1>1 DEF Arrive, TypedMarks, marks, tables
<1>4. CASE ConsumeDrain(h)
  BY <1>4, <1>1 DEF ConsumeDrain, TypedMarks, world
<1>5. CASE SyncProcessGeneration(h)
  BY <1>5, <1>1 DEF SyncProcessGeneration, TypedMarks, world
<1>6. CASE NoteTurnEpoch(h)
  BY <1>6, <1>1 DEF NoteTurnEpoch, TypedMarks, world
<1>7. CASE NoteSubmitted(h)
  BY <1>7, <1>1 DEF NoteSubmitted, TypedMarks, marks, tables
<1>8. CASE AnswerLost(h)
  BY <1>8, <1>1 DEF AnswerLost, TypedMarks, marks, tables
<1> QED
  BY <1>2, <1>3, <1>4, <1>5, <1>6, <1>7, <1>8
  DEF HandlerStep, BeginPlain, BeginRefused, BeginFails, BeginJoint, DrainCollab, ReadStatus, SyncCollab,
      EpochCollab, ClaimFails, ClaimReplays, Claim, OpenFails, ObserveEvent, NoteStreamEvent, RelayEnds, RelayRetries,
      Abort, Settle, Finish, AbortExchange, Release, tables

LEMMA ExchangeStep ==
    ASSUME TypeOK, NEW h \in Handlers, HandlerStep(h)
    PROVE  TypedExchange'
<1>1. TypedExchange
  BY TypedParts
<1>2. ASSUME NEW l \in Labels, Goto(h, l) PROVE pc' \in [Handlers -> Labels]
  BY <1>1, <1>2 DEF TypedExchange, Goto
<1>3. UNCHANGED exchange /\ pc' \in [Handlers -> Labels] => TypedExchange'
  BY <1>1 DEF TypedExchange, exchange
<1>4. End(h) => TypedExchange'
  BY <1>1, <1>2 DEF End, TypedExchange, Labels
<1>5. CASE Arrive(h)
  <2>1. PICK r \in Inputs :
          /\ req' = [req EXCEPT ![h] = r]
          /\ joint' = [joint EXCEPT ![h] = \/ r.tools = "collab" \/ r.calls # {}
                                          \/ \E c \in r.outs : collab[c].state # "none"]
    BY <1>5, Zenon DEF Arrive
  <2>2. req' \in [Handlers -> RequestShapes \cup {NoRequest}]
    BY <2>1, <1>1, ConstantsAssumption DEF TypedExchange
  <2>3. joint' \in [Handlers -> BOOLEAN]
    BY <2>1, <1>1 DEF TypedExchange
  <2> QED
    BY <1>1, <1>2, <1>5, <2>2, <2>3 DEF Arrive, TypedExchange, Labels
<1>6. CASE BeginJoint(h)
  <2>1. req[h].outs \subseteq Calls
    BY <1>1 DEF TypedExchange, RequestShapes, NoRequest
  <2>2. consumed' \in [Handlers -> SUBSET Calls]
    BY <1>6, <1>1, <2>1 DEF BeginJoint, TypedExchange
  <2> QED
    BY <1>1, <1>2, <1>6, <2>2 DEF BeginJoint, TypedExchange, Labels
<1>7. CASE ReadStatus(h)
  BY <1>7, <1>1, <1>2 DEF ReadStatus, TypedExchange, Labels, TypeOK
<1>8. CASE SyncProcessGeneration(h)
  BY <1>8, <1>1, <1>2 DEF SyncProcessGeneration, Allowed, TypedExchange, Labels
<1>9. CASE SyncCollab(h)
  BY <1>9, <1>1, <1>2 DEF SyncCollab, Allowed, TypedExchange, Labels
<1>10. CASE ClaimReplays(h)
  <2>1. \A c \in Calls : permit[c].body \in Bodies \cup {None}
    BY DEF TypeOK
  <2>2. req[h].outs \subseteq Calls
    BY <1>1 DEF TypedExchange, RequestShapes, NoRequest
  <2>3. body' \in [Handlers -> Bodies \cup {None}]
    BY <1>10, <1>1, <2>1, <2>2 DEF ClaimReplays, TypedExchange
  <2> QED
    BY <1>1, <1>2, <1>10, <2>3 DEF ClaimReplays, TypedExchange, Labels
<1>11. CASE Claim(h)
  BY <1>11, <1>1, <1>2 DEF Claim, TypedExchange, Labels
<1>12. CASE NoteSubmitted(h)
  BY <1>12, <1>1, <1>2 DEF NoteSubmitted, TypedExchange, Labels
<1>13. CASE ObserveEvent(h)
  <2>1. PICK c \in {d \in Calls : TurnOf[d] = req[h].turn} \cup {None}, last \in BOOLEAN :
          /\ observed' = [observed EXCEPT ![h] = IF Phase(h) = "issue" THEN @ \cup ({c} \ {None}) ELSE @]
          /\ terminal' = [terminal EXCEPT ![h] = last]
          /\ event' = [event EXCEPT ![h] = IF c \in Collab THEN c ELSE None]
          /\ Goto(h, IF c \in Collab THEN "note" ELSE "relay")
    BY <1>13, Zenon DEF ObserveEvent
  <2>2. pc' \in [Handlers -> Labels]
    BY <1>2, <2>1 DEF Labels
  <2>3. observed' \in [Handlers -> SUBSET Calls] /\ event' \in [Handlers -> Calls \cup {None}]
    BY <2>1, <1>1 DEF TypedExchange
  <2>4. terminal' \in [Handlers -> BOOLEAN]
    BY <2>1, <1>1 DEF TypedExchange
  <2> QED
    BY <1>1, <1>13, <2>2, <2>3, <2>4 DEF ObserveEvent, TypedExchange
<1>14. CASE NoteStreamEvent(h)
  BY <1>14, <1>1, <1>2 DEF NoteStreamEvent, TypedExchange, Labels
<1>15. CASE Abort(h)
  BY <1>15, <1>1 DEF Abort, TypedExchange
<1>16. CASE ConsumeDrain(h) \/ NoteTurnEpoch(h)
  BY <1>16, <1>2, <1>3 DEF ConsumeDrain, NoteTurnEpoch, Labels
<1>17. CASE BeginPlain(h) \/ DrainCollab(h) \/ EpochCollab(h) \/ ClaimFails(h) \/ OpenFails(h) \/ AnswerLost(h) \/ RelayEnds(h)
            \/ RelayRetries(h) \/ Settle(h)
  BY <1>17, <1>2, <1>3
  DEF BeginPlain, DrainCollab, EpochCollab, ClaimFails, OpenFails, AnswerLost, RelayEnds, RelayRetries, Settle, Labels
<1>18. CASE BeginRefused(h) \/ BeginFails(h) \/ Finish(h) \/ AbortExchange(h)
  BY <1>18, <1>4 DEF BeginRefused, BeginFails, Finish, AbortExchange
<1> QED
  BY <1>5, <1>6, <1>7, <1>8, <1>9, <1>10, <1>11, <1>12, <1>13, <1>14, <1>15, <1>16, <1>17, <1>18 DEF HandlerStep

(* Every step keeps the types.                                              *)
LEMMA TypedNext ==
    ASSUME TypeOK, FlagsFit, [Next]_vars
    PROVE  TypeOK'
<1>1. ASSUME NEW h \in Handlers, HandlerStep(h) PROVE TypeOK'
  <2>1. permit' \in [Calls -> Permits]
    <3>1. CASE Settle(h)
      <4>1. RevokeInflight(h) \in [Calls -> Permits]
        BY RevokeKeeps DEF RevokeInflight, AnyState
      <4> QED
        BY <3>1, <4>1, SettlingStep, TypedParts DEF GivesBack
    <3> QED
      BY <1>1, <3>1, RevokingSteps, ClaimingStep, ObservingStep DEF OnlyRevokes, Claiming, Observing
  <2>2. collab' \in [Calls -> CollabPermits] /\ TypedMarks' /\ TypedExchange'
    BY <1>1, CollabSteps, MarksStep, ExchangeStep
  <2> QED
    BY <2>1, <2>2 DEF TypeOK, Permits, CollabPermits, TypedMarks, TypedExchange
<1>2. CASE RuntimeStep
  BY <1>2 DEF RuntimeStep, RuntimeRestarts, RuntimeDrains, TypeOK, tables, marks, exchange
<1>3. CASE UNCHANGED vars
  BY <1>3 DEF TypeOK, vars, tables, marks, exchange, world
<1> QED
  BY <1>1, <1>2, <1>3 DEF Next, HandlerStep, RuntimeStep

-----------------------------------------------------------------------------
(* One request at a time                                                   *)

(* The steps of one request leave the exchanges of the others alone.        *)
LEMMA OthersStay ==
    ASSUME TypeOK, NEW h \in Handlers, HandlerStep(h), NEW g \in Handlers \ {h}
    PROVE  /\ pc'[g] = pc[g] /\ req'[g] = req[g] /\ inflight'[g] = inflight[g] /\ submitted'[g] = submitted[g]
           /\ terminal'[g] = terminal[g] /\ aborted'[g] = aborted[g] /\ body'[g] = body[g]
           /\ g \in slots' => g \in slots
<1>1. TypedExchange
  BY TypedParts
<1>2. CASE BeginRefused(h) \/ BeginFails(h) \/ Finish(h) \/ AbortExchange(h)
  BY <1>1, <1>2 DEF BeginRefused, BeginFails, Finish, AbortExchange, Release, End, Goto, TypedExchange, tables
<1>3. CASE Arrive(h) \/ BeginPlain(h) \/ BeginJoint(h) \/ ConsumeDrain(h) \/ DrainCollab(h) \/ ReadStatus(h)
  BY <1>1, <1>3
  DEF Arrive, BeginPlain, BeginJoint, ConsumeDrain, DrainCollab, ReadStatus, Goto, TypedExchange, tables, exchange
<1>4. CASE SyncProcessGeneration(h) \/ SyncCollab(h) \/ NoteTurnEpoch(h) \/ EpochCollab(h) \/ ClaimFails(h)
  BY <1>1, <1>4
  DEF SyncProcessGeneration, SyncCollab, NoteTurnEpoch, EpochCollab, ClaimFails, Allowed, Goto, TypedExchange, tables,
      exchange
<1>5. CASE ClaimReplays(h) \/ Claim(h) \/ NoteSubmitted(h) \/ OpenFails(h) \/ AnswerLost(h) \/ NoteStreamEvent(h)
  BY <1>1, <1>5
  DEF ClaimReplays, Claim, NoteSubmitted, OpenFails, AnswerLost, NoteStreamEvent, Goto, TypedExchange, tables, exchange
<1>6. CASE ObserveEvent(h)
  BY <1>1, <1>6 DEF ObserveEvent, Goto, TypedExchange
<1>7. CASE RelayEnds(h) \/ RelayRetries(h) \/ Abort(h) \/ Settle(h)
  BY <1>1, <1>7 DEF RelayEnds, RelayRetries, Abort, Settle, Goto, TypedExchange, tables, exchange
<1> QED
  BY <1>2, <1>3, <1>4, <1>5, <1>6, <1>7 DEF HandlerStep

(* The flags of a request fit the place it has come to.                     *)
LEMMA FlagsStep ==
    ASSUME TypeOK, FlagsFit, NEW h \in Handlers, HandlerStep(h)
    PROVE  FlagsFit'
<1>1. TypedExchange /\ Flags(h)
  BY TypedParts DEF FlagsFit
<1>2. \A g \in Handlers \ {h} : Flags(g)'
  BY OthersStay DEF FlagsFit, Flags
<1> SUFFICES Flags(h)'
  BY <1>2 DEF FlagsFit
<1>3. \A l : Goto(h, l) => pc'[h] = l
  BY <1>1 DEF Goto, TypedExchange
<1> USE DEF Flags, Preparing
<1>4. End(h) => Flags(h)'
  BY <1>1, <1>3 DEF End, TypedExchange, NoRequest
<1>5. UNCHANGED <<req, inflight, submitted, terminal, aborted>> /\ pc[h] \in Preparing /\ pc'[h] \in Preparing => Flags(h)'
  BY <1>1
<1>6. CASE BeginRefused(h) \/ BeginFails(h) \/ Finish(h) \/ AbortExchange(h)
  BY <1>4, <1>6 DEF BeginRefused, BeginFails, Finish, AbortExchange
<1>7. CASE Arrive(h)
  BY <1>1, <1>3, <1>7 DEF Arrive, TypedExchange
<1>8. CASE BeginPlain(h) \/ BeginJoint(h) \/ DrainCollab(h) \/ ReadStatus(h)
  BY <1>3, <1>5, <1>8 DEF BeginPlain, BeginJoint, DrainCollab, ReadStatus, exchange
<1>9. CASE ConsumeDrain(h)
  BY <1>3, <1>5, <1>9 DEF ConsumeDrain, exchange
<1>10. CASE SyncProcessGeneration(h) \/ SyncCollab(h)
  BY <1>3, <1>5, <1>10 DEF SyncProcessGeneration, SyncCollab, Allowed
<1>11. CASE NoteTurnEpoch(h)
  BY <1>3, <1>5, <1>11 DEF NoteTurnEpoch, exchange
<1>12. CASE EpochCollab(h) \/ ClaimFails(h)
  BY <1>3, <1>5, <1>12 DEF EpochCollab, ClaimFails, exchange
<1>13. CASE ClaimReplays(h)
  BY <1>1, <1>3, <1>13 DEF ClaimReplays
<1>14. CASE Claim(h)
  BY <1>1, <1>3, <1>14 DEF Claim, TypedExchange
<1>15. CASE NoteSubmitted(h)
  BY <1>1, <1>3, <1>15 DEF NoteSubmitted, TypedExchange
<1>16. CASE ObserveEvent(h)
  <2>1. pc'[h] \in {"note", "relay"}
    BY <1>3, <1>16 DEF ObserveEvent
  <2> QED
    BY <1>1, <1>16, <2>1 DEF ObserveEvent
<1>17. CASE NoteStreamEvent(h)
  BY <1>1, <1>3, <1>17 DEF NoteStreamEvent
<1>18. CASE OpenFails(h) \/ AnswerLost(h) \/ RelayEnds(h) \/ RelayRetries(h) \/ Settle(h)
  BY <1>1, <1>3, <1>18 DEF OpenFails, AnswerLost, RelayEnds, RelayRetries, Settle, exchange
<1>19. CASE Abort(h)
  BY <1>1, <1>19 DEF Abort, TypedExchange
<1> QED
  BY <1>6, <1>7, <1>8, <1>9, <1>10, <1>11, <1>12, <1>13, <1>14, <1>15, <1>16, <1>17, <1>18, <1>19 DEF HandlerStep

(* A slot is taken with the first step of an admitted request and given     *)
(* back with the last one.                                                  *)
LEMMA SlotsStep ==
    ASSUME TypeOK, SlotsAreUsed, NEW h \in Handlers, HandlerStep(h)
    PROVE  SlotsAreUsed'
<1>1. TypedExchange
  BY TypedParts
<1>2. \A g \in Handlers \ {h} : g \in slots' => pc'[g] \notin {"idle", "begin"}
  BY OthersStay DEF SlotsAreUsed
<1>3. \A l : Goto(h, l) => pc'[h] = l
  BY <1>1 DEF Goto, TypedExchange
<1>4. pc'[h] \notin {"idle", "begin"} \/ h \notin slots'
  <2>1. CASE BeginRefused(h) \/ BeginFails(h) \/ Arrive(h)
    BY <2>1 DEF BeginRefused, BeginFails, Arrive, SlotsAreUsed, tables
  <2>2. CASE Finish(h) \/ AbortExchange(h)
    BY <2>2 DEF Finish, AbortExchange, Release
  <2>3. CASE Abort(h)
    BY <2>3 DEF Abort, SlotsAreUsed
  <2>4. CASE SyncProcessGeneration(h) \/ SyncCollab(h) \/ NoteTurnEpoch(h) \/ ConsumeDrain(h)
    BY <1>3, <2>4 DEF SyncProcessGeneration, SyncCollab, NoteTurnEpoch, ConsumeDrain, Allowed
  <2>5. CASE ObserveEvent(h)
    BY <1>3, <2>5 DEF ObserveEvent
  <2>6. CASE BeginPlain(h) \/ BeginJoint(h) \/ DrainCollab(h) \/ ReadStatus(h) \/ EpochCollab(h) \/ ClaimFails(h)
    BY <1>3, <2>6 DEF BeginPlain, BeginJoint, DrainCollab, ReadStatus, EpochCollab, ClaimFails
  <2>7. CASE ClaimReplays(h) \/ Claim(h) \/ NoteSubmitted(h) \/ OpenFails(h) \/ AnswerLost(h) \/ NoteStreamEvent(h) \/ RelayEnds(h)
             \/ RelayRetries(h) \/ Settle(h)
    BY <1>3, <2>7
    DEF ClaimReplays, Claim, NoteSubmitted, OpenFails, AnswerLost, NoteStreamEvent, RelayEnds, RelayRetries, Settle
  <2> QED
    BY <2>1, <2>2, <2>3, <2>4, <2>5, <2>6, <2>7 DEF HandlerStep
<1>5. slots' \subseteq Handlers
  BY MarksStep DEF TypedMarks
<1> QED
  BY <1>2, <1>4, <1>5 DEF SlotsAreUsed

-----------------------------------------------------------------------------
(* Claims                                                                  *)

ClaimsInv == HeldByOne /\ SentIfSubmitted /\ AnswerFits /\ ForwardingIsHeld

(* What the exchanges of the other requests forward stays what it is.       *)
OthersHold(h) ==
    \A g \in Handlers \ {h} :
        /\ pc'[g] = pc[g] /\ req'[g] = req[g] /\ inflight'[g] = inflight[g] /\ submitted'[g] = submitted[g]
        /\ terminal'[g] = terminal[g] /\ aborted'[g] = aborted[g] /\ body'[g] = body[g]
        /\ \A c \in Calls : Holds(g, c)' <=> Holds(g, c)

LEMMA OthersKeepHolding ==
    ASSUME TypeOK, NEW h \in Handlers, HandlerStep(h)
    PROVE  OthersHold(h)
<1>1. \A g \in Handlers \ {h} :
        /\ pc'[g] = pc[g] /\ req'[g] = req[g] /\ inflight'[g] = inflight[g] /\ submitted'[g] = submitted[g]
        /\ terminal'[g] = terminal[g] /\ aborted'[g] = aborted[g] /\ body'[g] = body[g]
  BY OthersStay
<1>2. \A g \in Handlers \ {h}, c \in Calls : Holds(g, c)' <=> Holds(g, c)
  BY <1>1 DEF Holds, Phase, NeedsTools
<1> QED
  BY <1>1, <1>2 DEF OthersHold

(* A step that claims, submits, settles and cancels nothing.                *)
Neutral(h) ==
    /\ UNCHANGED sent
    /\ \A c \in Calls : Holds(h, c)' <=> Holds(h, c)
    /\ \A c \in Calls : Holds(h, c) => /\ req'[h] = req[h] /\ submitted'[h] = submitted[h]
                                       /\ terminal'[h] = terminal[h] /\ aborted'[h] = aborted[h]

LEMMA NeutralSteps ==
    ASSUME TypeOK, FlagsFit, NEW h \in Handlers, HandlerStep(h)
    PROVE  Neutral(h) \/ Claim(h) \/ NoteSubmitted(h) \/ ObserveEvent(h) \/ Abort(h) \/ Settle(h)
<1>1. TypedExchange /\ Flags(h)
  BY TypedParts DEF FlagsFit
<1>2. \A l : Goto(h, l) => pc'[h] = l
  BY <1>1 DEF Goto, TypedExchange
<1>3. pc[h] \notin Exchanging => \A c \in Calls : ~Holds(h, c)
  BY DEF Holds
<1>4. pc'[h] \notin Exchanging => \A c \in Calls : ~Holds(h, c)'
  BY DEF Holds
<1>5. UNCHANGED sent /\ pc[h] \notin Exchanging /\ pc'[h] \notin Exchanging => Neutral(h)
  BY <1>3, <1>4 DEF Neutral
<1>6. UNCHANGED <<sent, req, inflight, submitted, terminal, aborted>>
        /\ ((pc[h] \in Exchanging /\ pc'[h] \in Exchanging) \/ ~inflight[h]) => Neutral(h)
  BY DEF Neutral, Holds, Phase, NeedsTools
<1> USE DEF Exchanging
<1>7. CASE BeginRefused(h) \/ BeginFails(h) \/ Finish(h) \/ AbortExchange(h)
  <2>1. pc[h] \in {"begin", "finish", "abort"} /\ pc'[h] = "idle" /\ UNCHANGED sent
    BY <1>2, <1>7 DEF BeginRefused, BeginFails, Finish, AbortExchange, End, world
  <2> QED
    BY <2>1, <1>5
<1>8. CASE Arrive(h) \/ BeginPlain(h) \/ BeginJoint(h) \/ DrainCollab(h) \/ ReadStatus(h) \/ ConsumeDrain(h)
  <2>1. pc[h] \notin Exchanging /\ pc'[h] \notin Exchanging /\ UNCHANGED sent
    BY <1>2, <1>8 DEF Arrive, BeginPlain, BeginJoint, DrainCollab, ReadStatus, ConsumeDrain, world
  <2> QED
    BY <2>1, <1>5
<1>9. CASE SyncProcessGeneration(h) \/ SyncCollab(h) \/ NoteTurnEpoch(h) \/ EpochCollab(h) \/ ClaimFails(h) \/ ClaimReplays(h)
  <2>1. pc[h] \notin Exchanging /\ pc'[h] \notin Exchanging /\ UNCHANGED sent
    BY <1>2, <1>9
    DEF SyncProcessGeneration, SyncCollab, NoteTurnEpoch, EpochCollab, ClaimFails, ClaimReplays, Allowed, world
  <2> QED
    BY <2>1, <1>5
<1>10. CASE OpenFails(h) \/ AnswerLost(h) \/ NoteStreamEvent(h)
  BY <1>2, <1>6, <1>10 DEF OpenFails, AnswerLost, NoteStreamEvent, exchange, world
<1>11. CASE RelayEnds(h) \/ RelayRetries(h)
  BY <1>1, <1>2, <1>6, <1>11 DEF RelayEnds, RelayRetries, exchange, world, Flags
<1> QED
  BY <1>7, <1>8, <1>9, <1>10, <1>11 DEF HandlerStep

LEMMA NeutralPreserves ==
    ASSUME TypeOK, ClaimsInv, NEW h \in Handlers, OthersHold(h), Neutral(h), OnlyRevokes
    PROVE  ClaimsInv'
<1>1. \A g \in Handlers, c \in Calls :
        /\ Holds(g, c)' <=> Holds(g, c)
        /\ Holds(g, c) => /\ req'[g] = req[g] /\ submitted'[g] = submitted[g]
                          /\ terminal'[g] = terminal[g] /\ aborted'[g] = aborted[g]
  BY DEF OthersHold, Neutral
<1>2. HeldByOne'
  BY <1>1 DEF ClaimsInv, HeldByOne, OnlyRevokes
<1>3. SentIfSubmitted'
  BY <1>1 DEF ClaimsInv, SentIfSubmitted, OnlyRevokes, Neutral
<1>4. AnswerFits'
  BY DEF ClaimsInv, AnswerFits, OnlyRevokes, Neutral
<1>5. ForwardingIsHeld'
  BY <1>1 DEF ClaimsInv, ForwardingIsHeld, OnlyRevokes
<1> QED
  BY <1>2, <1>3, <1>4, <1>5 DEF ClaimsInv

(* Only an open permit is claimed, and nobody holds an open permit.         *)
LEMMA ClaimPreserves ==
    ASSUME TypeOK, FlagsFit, ClaimsInv, NEW h \in Handlers, OthersHold(h), Claim(h)
    PROVE  ClaimsInv'
<1>1. /\ pc[h] = "claim" /\ pc'[h] = "open" /\ UNCHANGED <<req, submitted, terminal, aborted, sent>>
      /\ inflight'[h] = (req[h].turn # None) /\ Claiming(h)
  BY ClaimingStep DEF Claim, Goto, TypeOK, world
<1>2. ~submitted[h] /\ ~terminal[h] /\ ~aborted[h]
  BY <1>1 DEF FlagsFit, Flags, Preparing
<1>3. Phase(h)' = Phase(h)
  BY <1>1 DEF Phase, NeedsTools
<1> DEFINE Claimed(c) == Phase(h) = "continue" /\ c \in req[h].outs
<1>4. \A c \in Calls : Claimed(c) => permit[c].state = "open" /\ permit[c].turn = req[h].turn
  BY DEF Claim, MayClaim
<1>5. \A c \in Calls : Holds(h, c)' <=> Claimed(c)
  <2>1. Phase(h) = "continue" => req[h].turn # None
    BY DEF Claim, MayClaim
  <2> QED
    BY <1>1, <1>3, <2>1 DEF Holds, Exchanging
<1>6. \A g \in Handlers \ {h}, c \in Calls : Holds(g, c) => ~Claimed(c)
  BY <1>4 DEF ClaimsInv, HeldByOne
<1>7. \A c \in Calls : IF Claimed(c) THEN permit'[c].state = "forwarding" /\ permit'[c].turn = permit[c].turn
                                     ELSE permit'[c] = permit[c]
  BY <1>1 DEF Claiming
<1> HIDE DEF Claimed
<1>8. HeldByOne'
  <2>1. \A g \in Handlers, k \in Handlers, c \in Calls : Holds(g, c)' /\ Holds(k, c)' => g = k
    BY <1>5, <1>6 DEF ClaimsInv, HeldByOne, OthersHold
  <2>2. ASSUME NEW g \in Handlers, NEW c \in Calls, Holds(g, c)'
        PROVE  permit'[c].turn = req'[g].turn /\ permit'[c].state \in {"forwarding", "recorded", "revoked"}
    <3>1. CASE g = h
      BY <3>1, <2>2, <1>1, <1>4, <1>5, <1>7
    <3>2. CASE g # h
      BY <3>2, <2>2, <1>6, <1>7 DEF ClaimsInv, HeldByOne, OthersHold
    <3> QED
      BY <3>1, <3>2
  <2> QED
    BY <2>1, <2>2 DEF HeldByOne
<1>9. SentIfSubmitted'
  <2>1. ASSUME NEW g \in Handlers, NEW c \in Calls, Holds(g, c)'
        PROVE  sent'[c] = IF submitted'[g] THEN 1 ELSE 0
    <3>1. CASE g = h
      BY <3>1, <2>1, <1>1, <1>2, <1>4, <1>5 DEF ClaimsInv, SentIfSubmitted
    <3>2. CASE g # h
      BY <3>2, <2>1, <1>1 DEF ClaimsInv, SentIfSubmitted, OthersHold
    <3> QED
      BY <3>1, <3>2
  <2> QED
    BY <2>1, <1>1, <1>7 DEF ClaimsInv, SentIfSubmitted
<1>10. AnswerFits'
  BY <1>1, <1>7 DEF ClaimsInv, AnswerFits
<1>11. ForwardingIsHeld'
  <2> SUFFICES ASSUME NEW c \in Calls, permit'[c].state = "forwarding"
               PROVE  \E g \in Handlers : Holds(g, c)' /\ ~terminal'[g] /\ ~aborted'[g]
    BY DEF ForwardingIsHeld
  <2>1. CASE Claimed(c)
    BY <2>1, <1>1, <1>2, <1>5
  <2>2. CASE ~Claimed(c)
    <3>1. PICK g \in Handlers : Holds(g, c) /\ ~terminal[g] /\ ~aborted[g]
      BY <2>2, <1>7 DEF ClaimsInv, ForwardingIsHeld
    <3>2. g # h
      BY <3>1, <1>1 DEF Holds, Exchanging
    <3> QED
      BY <3>1, <3>2 DEF OthersHold
  <2> QED
    BY <2>1, <2>2
<1> QED
  BY <1>8, <1>9, <1>10, <1>11 DEF ClaimsInv

(* The runtime gets a result from the exchange that holds it, for the first *)
(* time.                                                                    *)
LEMMA SubmitPreserves ==
    ASSUME TypeOK, FlagsFit, ClaimsInv, NEW h \in Handlers, OthersHold(h), NoteSubmitted(h)
    PROVE  ClaimsInv' /\ \A c \in Calls : sent[c] = 1 => sent'[c] = 1
<1>1. /\ pc[h] = "open" /\ pc'[h] = "relay" /\ UNCHANGED <<permit, req, inflight, terminal, aborted>>
      /\ submitted'[h] = TRUE
      /\ sent' = [c \in Calls |-> IF c \in Claims(h) THEN sent[c] + 1 ELSE sent[c]]
  BY DEF NoteSubmitted, Goto, TypeOK, tables
<1>2. Phase(h)' = Phase(h)
  BY <1>1 DEF Phase, NeedsTools
<1>3. \A c \in Calls : (c \in Claims(h) <=> Holds(h, c)) /\ (Holds(h, c)' <=> Holds(h, c))
  BY <1>1, <1>2 DEF Claims, Holds, Exchanging
<1>4. \A c \in Calls : Holds(h, c) => sent[c] = 0
  BY <1>1 DEF ClaimsInv, SentIfSubmitted, FlagsFit, Flags, Holds
<1>5. \A c \in Calls : sent'[c] = IF Holds(h, c) THEN 1 ELSE sent[c]
  BY <1>1, <1>3, <1>4
<1>6. \A g \in Handlers, c \in Calls : Holds(g, c)' <=> Holds(g, c)
  BY <1>3 DEF OthersHold
<1>7. HeldByOne'
  BY <1>1, <1>6 DEF ClaimsInv, HeldByOne
<1>8. SentIfSubmitted'
  <2>1. ASSUME NEW g \in Handlers, NEW c \in Calls, Holds(g, c)'
        PROVE  sent'[c] = IF submitted'[g] THEN 1 ELSE 0
    <3>1. CASE g = h
      BY <3>1, <2>1, <1>1, <1>5, <1>6
    <3>2. CASE g # h
      <4>1. ~Holds(h, c)
        BY <3>2, <2>1, <1>6 DEF ClaimsInv, HeldByOne
      <4> QED
        BY <4>1, <3>2, <2>1, <1>5, <1>6 DEF ClaimsInv, SentIfSubmitted, OthersHold
    <3> QED
      BY <3>1, <3>2
  <2>2. \A c \in Calls : permit[c].state \in {"none", "open"} => ~Holds(h, c)
    BY DEF ClaimsInv, HeldByOne
  <2> QED
    BY <2>1, <2>2, <1>1, <1>5 DEF ClaimsInv, SentIfSubmitted
<1>9. AnswerFits'
  BY <1>1, <1>5 DEF ClaimsInv, AnswerFits
<1>10. ForwardingIsHeld'
  BY <1>1, <1>6 DEF ClaimsInv, ForwardingIsHeld
<1> QED
  BY <1>5, <1>7, <1>8, <1>9, <1>10 DEF ClaimsInv

(* The last event of an exchange turns what it forwarded into answers.      *)
LEMMA ObservePreserves ==
    ASSUME TypeOK, FlagsFit, ClaimsInv, NEW h \in Handlers, OthersHold(h), ObserveEvent(h)
    PROVE  ClaimsInv'
<1>1. /\ pc[h] = "relay" /\ inflight[h] /\ pc'[h] \in {"relay", "note"}
      /\ UNCHANGED <<req, inflight, submitted, aborted, sent>> /\ Observing(h)
  BY ObservingStep DEF ObserveEvent, Goto, TypeOK, world
<1>2. Phase(h)' = Phase(h)
  BY <1>1 DEF Phase, NeedsTools
<1>3. \A c \in Calls : (c \in Claims(h) <=> Holds(h, c)) /\ (Holds(h, c)' <=> Holds(h, c))
  BY <1>1, <1>2 DEF Claims, Holds, Exchanging
<1>4. \A g \in Handlers, c \in Calls : Holds(g, c)' <=> Holds(g, c)
  BY <1>3 DEF OthersHold
<1>5. submitted[h]
  BY <1>1 DEF FlagsFit, Flags
<1>6. \A c \in Calls :
          \/ permit'[c] = permit[c] /\ ~(terminal'[h] /\ Holds(h, c) /\ permit[c].state = "forwarding")
          \/ permit[c].state = "none" /\ permit'[c].state = "open"
          \/ /\ Holds(h, c) /\ permit[c].state = "forwarding" /\ permit[c].turn = req[h].turn
             /\ permit'[c].state = "recorded" /\ permit'[c].turn = permit[c].turn
             /\ permit'[c].body = [turn |-> req[h].turn, outs |-> req[h].outs]
  BY <1>1, <1>3 DEF Observing, ClaimsInv, HeldByOne
<1>7. HeldByOne'
  BY <1>1, <1>4, <1>6 DEF ClaimsInv, HeldByOne
<1>8. SentIfSubmitted'
  BY <1>1, <1>4, <1>6 DEF ClaimsInv, SentIfSubmitted
<1>9. AnswerFits'
  <2> SUFFICES ASSUME NEW c \in Calls, permit'[c].state = "recorded"
               PROVE  /\ permit'[c].body # None /\ permit'[c].body.turn = permit'[c].turn
                      /\ c \in permit'[c].body.outs /\ sent'[c] = 1
    BY DEF AnswerFits
  <2>1. CASE permit'[c] = permit[c]
    BY <2>1, <1>1 DEF ClaimsInv, AnswerFits
  <2>2. CASE permit'[c] # permit[c]
    <3>1. /\ Holds(h, c) /\ permit[c].turn = req[h].turn /\ permit'[c].turn = permit[c].turn
          /\ permit'[c].body = [turn |-> req[h].turn, outs |-> req[h].outs]
      BY <2>2, <1>6
    <3>2. sent[c] = 1
      BY <3>1, <1>5 DEF ClaimsInv, SentIfSubmitted
    <3>3. req[h] \in RequestShapes
      BY <1>1 DEF TypeOK, FlagsFit, Flags, NoRequest
    <3>4. [turn |-> req[h].turn, outs |-> req[h].outs] \in Bodies
      BY <3>3, <1>1 DEF FlagsFit, Flags, RequestShapes, Bodies
    <3>5. c \in req[h].outs
      BY <3>1 DEF Holds
    <3> QED
      BY <3>1, <3>2, <3>4, <3>5, <1>1, ConstantsAssumption
  <2> QED
    BY <2>1, <2>2
<1>10. ForwardingIsHeld'
  <2> SUFFICES ASSUME NEW c \in Calls, permit'[c].state = "forwarding"
               PROVE  \E g \in Handlers : Holds(g, c)' /\ ~terminal'[g] /\ ~aborted'[g]
    BY DEF ForwardingIsHeld
  <2>1. permit[c].state = "forwarding" /\ ~(terminal'[h] /\ Holds(h, c))
    BY <1>6
  <2>2. PICK g \in Handlers : Holds(g, c) /\ ~terminal[g] /\ ~aborted[g]
    BY <2>1 DEF ClaimsInv, ForwardingIsHeld
  <2>3. CASE g = h
    BY <2>1, <2>2, <2>3, <1>1, <1>4
  <2>4. CASE g # h
    BY <2>2, <2>4, <1>4 DEF OthersHold
  <2> QED
    BY <2>3, <2>4
<1> QED
  BY <1>7, <1>8, <1>9, <1>10 DEF ClaimsInv

(* A cancelled or failed exchange lets go of everything that it forwards.   *)
LEMMA RevokedInflight ==
    ASSUME TypeOK, ClaimsInv, NEW h \in Handlers, permit' = RevokeInflight(h)
    PROVE  OnlyRevokes /\ \A c \in Calls : Holds(h, c) => permit'[c].state # "forwarding"
<1> DEFINE C == {c \in IF Phase(h) = "continue" THEN req[h].outs ELSE observed[h] : permit[c].turn = req[h].turn}
<1>1. permit' = Revoke(C, {"open", "forwarding"}) /\ {"open", "forwarding"} \subseteq AnyState
  BY DEF RevokeInflight, AnyState
<1>2. \A c \in Calls : Holds(h, c) => c \in C
  BY DEF Holds, ClaimsInv, HeldByOne
<1> HIDE DEF C
<1>3. OnlyRevokes
  BY <1>1, RevokeKeeps DEF OnlyRevokes
<1>4. \A c \in Calls : c \in C /\ permit[c].state \in {"open", "forwarding"} => permit'[c].state = "revoked"
  BY <1>1, RevokeKeeps
<1>5. \A c \in Calls : permit[c].state # "forwarding" => permit'[c].state # "forwarding"
  BY <1>3 DEF OnlyRevokes
<1> QED
  BY <1>2, <1>3, <1>4, <1>5

LEMMA AbortPreserves ==
    ASSUME TypeOK, ClaimsInv, NEW h \in Handlers, OthersHold(h), Abort(h)
    PROVE  ClaimsInv'
<1>1. UNCHANGED <<pc, req, inflight, submitted, terminal, sent>> /\ permit' = RevokeInflight(h)
  BY DEF Abort, world
<1>2. OnlyRevokes /\ \A c \in Calls : Holds(h, c) => permit'[c].state # "forwarding"
  BY <1>1, RevokedInflight
<1>3. \A g \in Handlers, c \in Calls : Holds(g, c)' <=> Holds(g, c)
  BY <1>1 DEF OthersHold, Holds, Phase, NeedsTools
<1>4. HeldByOne'
  BY <1>1, <1>2, <1>3 DEF ClaimsInv, HeldByOne, OnlyRevokes
<1>5. SentIfSubmitted'
  BY <1>1, <1>2, <1>3 DEF ClaimsInv, SentIfSubmitted, OnlyRevokes
<1>6. AnswerFits'
  BY <1>1, <1>2 DEF ClaimsInv, AnswerFits, OnlyRevokes
<1>7. ForwardingIsHeld'
  <2> SUFFICES ASSUME NEW c \in Calls, permit'[c].state = "forwarding"
               PROVE  \E g \in Handlers : Holds(g, c)' /\ ~terminal'[g] /\ ~aborted'[g]
    BY DEF ForwardingIsHeld
  <2>1. permit[c].state = "forwarding" /\ ~Holds(h, c)
    BY <1>2 DEF OnlyRevokes
  <2>2. PICK g \in Handlers : Holds(g, c) /\ ~terminal[g] /\ ~aborted[g]
    BY <2>1 DEF ClaimsInv, ForwardingIsHeld
  <2> QED
    BY <2>1, <2>2, <1>3 DEF OthersHold
<1> QED
  BY <1>4, <1>5, <1>6, <1>7 DEF ClaimsInv

(* A settled exchange holds nothing: what it forwarded is open again if the *)
(* runtime never got it, recorded, or revoked.                              *)
LEMMA SettlePreserves ==
    ASSUME TypeOK, ClaimsInv, NEW h \in Handlers, OthersHold(h), Settle(h)
    PROVE  ClaimsInv'
<1>1. pc[h] = "settle" /\ pc'[h] = "finish" /\ UNCHANGED <<req, inflight, submitted, terminal, aborted, sent>>
  BY DEF Settle, Goto, TypeOK, exchange, world
<1>2. \A c \in Calls : ~Holds(h, c)'
  BY <1>1 DEF Holds, Exchanging
<1>3. \A g \in Handlers, c \in Calls : Holds(g, c)' => g # h /\ Holds(g, c) /\ ~Holds(h, c)
  BY <1>2 DEF OthersHold, ClaimsInv, HeldByOne
<1>4. ASSUME NEW c \in Calls, permit[c].state = "forwarding", ~(Holds(h, c) /\ ~terminal[h] /\ ~aborted[h])
      PROVE  \E g \in Handlers : Holds(g, c)' /\ ~terminal'[g] /\ ~aborted'[g]
  <2>1. PICK g \in Handlers : Holds(g, c) /\ ~terminal[g] /\ ~aborted[g]
    BY <1>4 DEF ClaimsInv, ForwardingIsHeld
  <2> QED
    BY <2>1, <1>4 DEF OthersHold
<1>5. CASE OnlyRevokes /\ \A c \in Calls : Holds(h, c) /\ ~terminal[h] /\ ~aborted[h] => permit'[c].state # "forwarding"
  <2>1. HeldByOne'
    BY <1>1, <1>3, <1>5 DEF ClaimsInv, HeldByOne, OnlyRevokes
  <2>2. SentIfSubmitted'
    BY <1>1, <1>3, <1>5 DEF ClaimsInv, SentIfSubmitted, OnlyRevokes
  <2>3. AnswerFits'
    BY <1>1, <1>5 DEF ClaimsInv, AnswerFits, OnlyRevokes
  <2>4. ForwardingIsHeld'
    BY <1>4, <1>5 DEF ForwardingIsHeld, OnlyRevokes
  <2> QED
    BY <2>1, <2>2, <2>3, <2>4 DEF ClaimsInv
<1>6. CASE inflight[h] /\ Phase(h) = "continue" /\ ~submitted[h] /\ GivesBack(h)
  <2>1. \A c \in Calls : Holds(h, c) <=> c \in req[h].outs
    BY <1>1, <1>6 DEF Holds, Exchanging
  <2>2. \A c \in Calls : IF Holds(h, c) /\ permit[c].state = "forwarding"
                         THEN permit'[c].state = "open" /\ permit'[c].turn = permit[c].turn
                         ELSE permit'[c] = permit[c]
    BY <1>6, <2>1 DEF GivesBack, ClaimsInv, HeldByOne
  <2>3. HeldByOne'
    BY <1>1, <1>3, <2>2 DEF ClaimsInv, HeldByOne
  <2>4. SentIfSubmitted'
    BY <1>1, <1>3, <1>6, <2>2 DEF ClaimsInv, SentIfSubmitted
  <2>5. AnswerFits'
    BY <1>1, <2>2 DEF ClaimsInv, AnswerFits
  <2>6. ForwardingIsHeld'
    BY <1>4, <2>2 DEF ForwardingIsHeld
  <2> QED
    BY <2>3, <2>4, <2>5, <2>6 DEF ClaimsInv
<1>7. CASE (~inflight[h] \/ terminal[h] \/ aborted[h]) /\ UNCHANGED permit
  <2>1. permit \in [Calls -> Permits]
    BY TypedParts
  <2>2. \A c \in Calls : ~(Holds(h, c) /\ ~terminal[h] /\ ~aborted[h])
    BY <1>7 DEF Holds
  <2> QED
    BY <1>5, <1>7, <2>1, <2>2 DEF OnlyRevokes
<1>8. CASE permit' = RevokeInflight(h)
  BY <1>5, <1>8, RevokedInflight
<1> QED
  BY <1>6, <1>7, <1>8, SettlingStep

LEMMA ClaimsStep ==
    ASSUME TypeOK, FlagsFit, ClaimsInv, NEW h \in Handlers, HandlerStep(h)
    PROVE  ClaimsInv' /\ \A c \in Calls : sent[c] = 1 => sent'[c] = 1
<1>1. OthersHold(h)
  BY OthersKeepHolding
<1>2. CASE Claim(h)
  BY <1>1, <1>2, ClaimPreserves DEF Claim, world
<1>3. CASE NoteSubmitted(h)
  BY <1>1, <1>3, SubmitPreserves
<1>4. CASE ObserveEvent(h)
  BY <1>1, <1>4, ObservePreserves DEF ObserveEvent, world
<1>5. CASE Abort(h)
  BY <1>1, <1>5, AbortPreserves DEF Abort, world
<1>6. CASE Settle(h)
  BY <1>1, <1>6, SettlePreserves DEF Settle, world
<1>7. CASE ~Claim(h) /\ ~ObserveEvent(h) /\ ~Settle(h) /\ Neutral(h)
  BY <1>1, <1>7, RevokingSteps, NeutralPreserves DEF Neutral
<1> QED
  BY <1>2, <1>3, <1>4, <1>5, <1>6, <1>7, NeutralSteps

(* A recorded answer is replayed to a request that asks for it.             *)
LEMMA ReplayStep ==
    ASSUME TypeOK, FlagsFit, ClaimsInv, ReplayFits, NEW h \in Handlers, HandlerStep(h)
    PROVE  ReplayFits'
<1>1. TypedExchange /\ Flags(h)
  BY TypedParts DEF FlagsFit
<1>2. \A c \in Calls : sent[c] = 1 => sent'[c] = 1
  BY ClaimsStep
<1>3. \A g \in Handlers : req[g].outs \subseteq Calls
  BY <1>1 DEF TypedExchange, RequestShapes, NoRequest
<1>4. ASSUME NEW g \in Handlers \ {h}, pc'[g] = "replay"
      PROVE  body'[g] # None /\ body'[g].turn = req'[g].turn /\ \E c \in req'[g].outs : c \in body'[g].outs /\ sent'[c] = 1
  <2>1. pc[g] = "replay" /\ body'[g] = body[g] /\ req'[g] = req[g]
    BY <1>4, OthersStay
  <2>2. PICK c \in req[g].outs : c \in body[g].outs /\ sent[c] = 1
    BY <2>1 DEF ReplayFits
  <2>3. c \in req'[g].outs /\ c \in body'[g].outs /\ sent'[c] = 1
    BY <2>1, <2>2, <1>2, <1>3
  <2> QED
    BY <2>1, <2>3 DEF ReplayFits
<1>5. CASE ClaimReplays(h)
  <2>1. PICK c \in req[h].outs : body' = [body EXCEPT ![h] = permit[c].body]
    BY <1>5 DEF ClaimReplays
  <2>2. c \in Calls /\ permit[c].state = "recorded" /\ permit[c].turn = req[h].turn
    BY <1>3, <1>5 DEF ClaimReplays, MayClaim
  <2>3. body'[h] = permit[c].body /\ UNCHANGED <<req, sent>>
    BY <2>1, <1>1, <1>5 DEF ClaimReplays, TypedExchange, world
  <2>4. permit[c].body # None /\ permit[c].body.turn = permit[c].turn /\ c \in permit[c].body.outs /\ sent[c] = 1
    BY <2>2 DEF ClaimsInv, AnswerFits
  <2>5. /\ body'[h] # None /\ body'[h].turn = req'[h].turn
        /\ c \in req'[h].outs /\ c \in body'[h].outs /\ sent'[c] = 1
    BY <2>2, <2>3, <2>4
  <2> QED
    BY <1>4, <2>5 DEF ReplayFits
<1>6. CASE ~ClaimReplays(h)
  <2>1. \A l : Goto(h, l) => pc'[h] = l
    BY <1>1 DEF Goto, TypedExchange
  <2>2. pc'[h] # "replay"
    <3>1. CASE BeginRefused(h) \/ BeginFails(h) \/ Finish(h) \/ AbortExchange(h)
      BY <2>1, <3>1 DEF BeginRefused, BeginFails, Finish, AbortExchange, End
    <3>2. CASE Abort(h)
      BY <1>1, <3>2 DEF Abort, Flags
    <3>3. CASE SyncProcessGeneration(h) \/ SyncCollab(h) \/ NoteTurnEpoch(h) \/ ConsumeDrain(h)
      BY <2>1, <3>3 DEF SyncProcessGeneration, SyncCollab, NoteTurnEpoch, ConsumeDrain, Allowed
    <3>4. CASE ObserveEvent(h)
      BY <2>1, <3>4 DEF ObserveEvent
    <3>5. CASE Arrive(h) \/ BeginPlain(h) \/ BeginJoint(h) \/ DrainCollab(h) \/ ReadStatus(h) \/ EpochCollab(h)
               \/ ClaimFails(h)
      BY <2>1, <3>5 DEF Arrive, BeginPlain, BeginJoint, DrainCollab, ReadStatus, EpochCollab, ClaimFails
    <3>6. CASE Claim(h) \/ NoteSubmitted(h) \/ OpenFails(h) \/ AnswerLost(h) \/ NoteStreamEvent(h) \/ RelayEnds(h)
               \/ RelayRetries(h) \/ Settle(h)
      BY <2>1, <3>6 DEF Claim, NoteSubmitted, OpenFails, AnswerLost, NoteStreamEvent, RelayEnds, RelayRetries, Settle
    <3> QED
      BY <1>6, <3>1, <3>2, <3>3, <3>4, <3>5, <3>6 DEF HandlerStep
  <2> QED
    BY <1>4, <2>2 DEF ReplayFits
<1> QED
  BY <1>5, <1>6

-----------------------------------------------------------------------------
(* Every initial state satisfies the invariant: there are no permits yet.   *)
LEMMA TurnsInitially == Init => TurnsInv
<1> SUFFICES ASSUME Init PROVE TurnsInv
  OBVIOUS
<1>1. TypeOK
  <2>1. permit \in [Calls -> Permits] /\ collab \in [Calls -> CollabPermits]
    BY DEF Init, Permits, CollabPermits
  <2>2. TypedMarks
    BY DEF Init, TypedMarks
  <2>3. TypedExchange
    BY DEF Init, TypedExchange, Labels
  <2> QED
    BY <2>1, <2>2, <2>3, TypedParts
<1>2. \A h \in Handlers : pc[h] = "idle" /\ ~inflight[h] /\ ~submitted[h] /\ ~terminal[h]
  BY DEF Init
<1>3. \A c \in Calls : permit[c].state = "none" /\ sent[c] = 0
  BY DEF Init
<1>4. \A h \in Handlers, c \in Calls : ~Holds(h, c)
  BY <1>2 DEF Holds
<1>5. FlagsFit
  BY <1>2 DEF FlagsFit, Flags, Preparing
<1>6. HeldByOne /\ SentIfSubmitted /\ AnswerFits /\ ForwardingIsHeld
  BY <1>3, <1>4 DEF HeldByOne, SentIfSubmitted, AnswerFits, ForwardingIsHeld
<1>7. ReplayFits /\ SlotsAreUsed
  BY <1>2 DEF ReplayFits, SlotsAreUsed, Init
<1> QED
  BY <1>1, <1>5, <1>6, <1>7 DEF TurnsInv

LEMMA TurnsNext ==
    ASSUME TurnsInv, [Next]_vars
    PROVE  TurnsInv'
<1>1. TypeOK /\ FlagsFit /\ ClaimsInv /\ ReplayFits /\ SlotsAreUsed /\ TypeOK'
  BY TypedNext DEF TurnsInv, ClaimsInv
<1>2. ASSUME NEW h \in Handlers, HandlerStep(h) PROVE TurnsInv'
  <2>1. FlagsFit' /\ SlotsAreUsed' /\ ClaimsInv' /\ ReplayFits'
    BY <1>1, <1>2, FlagsStep, SlotsStep, ClaimsStep, ReplayStep
  <2> QED
    BY <1>1, <2>1 DEF TurnsInv, ClaimsInv
<1>3. CASE RuntimeStep \/ UNCHANGED vars
  <2>1. UNCHANGED <<permit, slots, pc, req, inflight, submitted, terminal, aborted, body, sent>>
    BY <1>3 DEF RuntimeStep, RuntimeRestarts, RuntimeDrains, vars, tables, exchange, world
  <2>2. \A h \in Handlers, c \in Calls : Holds(h, c)' <=> Holds(h, c)
    BY <2>1 DEF Holds, Phase, NeedsTools
  <2>3. FlagsFit' /\ SlotsAreUsed' /\ ReplayFits'
    BY <1>1, <2>1 DEF FlagsFit, Flags, SlotsAreUsed, ReplayFits
  <2>4. ClaimsInv'
    BY <1>1, <2>1, <2>2 DEF ClaimsInv, HeldByOne, SentIfSubmitted, AnswerFits, ForwardingIsHeld
  <2> QED
    BY <1>1, <2>3, <2>4 DEF TurnsInv, ClaimsInv
<1> QED
  BY <1>2, <1>3 DEF Next, HandlerStep, RuntimeStep

LEMMA TurnsInductive == Spec => []TurnsInv
<1>1. TurnsInv /\ [Next]_vars => TurnsInv'
  BY TurnsNext
<1> QED
  BY <1>1, TurnsInitially, PTL DEF Spec

(***************************************************************************)
(* However often a client sends the result of a call, in however many      *)
(* requests at once, and whichever of their exchanges fail, it goes to the *)
(* runtime again only while every earlier delivery was lost without a      *)
(* word of answer; a replayed answer is one to that result.                *)
(***************************************************************************)
THEOREM ForwardedAtMostOnce == Spec => ForwardedOnce
<1> DEFINE Delivers == \A c \in Calls : sent'[c] + lost'[c] # sent[c] + lost[c] =>
                           sent[c] = 0 /\ sent'[c] + lost'[c] = lost[c] + 1
<1>1. TurnsInv /\ [Next]_vars => [Delivers]_vars
  <2> SUFFICES ASSUME TurnsInv, Next PROVE Delivers
    OBVIOUS
  <2>1. sent \in [Calls -> Nat] /\ lost \in [Calls -> Nat] /\ FlagsFit
    BY DEF TurnsInv, TypeOK
  <2>2. ASSUME NEW h \in Handlers, pc[h] = "open", NEW c \in Claims(h), c \in Calls PROVE sent[c] = 0
    <3>1. Holds(h, c) /\ ~submitted[h]
      BY <2>1, <2>2 DEF Claims, Holds, Exchanging, FlagsFit, Flags
    <3> QED
      BY <2>2, <3>1 DEF TurnsInv, SentIfSubmitted
  <2>3. UNCHANGED <<sent, lost>> => Delivers
    OBVIOUS
  <2>4. ASSUME NEW h \in Handlers, NoteSubmitted(h) PROVE Delivers
    BY <2>1, <2>2, <2>4 DEF NoteSubmitted
  <2>5. ASSUME NEW h \in Handlers, AnswerLost(h) PROVE Delivers
    BY <2>1, <2>2, <2>5 DEF AnswerLost
  <2>6. ASSUME NEW h \in Handlers,
               BeginRefused(h) \/ BeginFails(h) \/ Finish(h) \/ AbortExchange(h) \/ Arrive(h) \/ BeginPlain(h)
                 \/ BeginJoint(h) \/ ConsumeDrain(h) \/ DrainCollab(h) \/ ReadStatus(h)
        PROVE  UNCHANGED <<sent, lost>>
    BY <2>6 DEF BeginRefused, BeginFails, Finish, AbortExchange, Arrive, BeginPlain, BeginJoint, ConsumeDrain,
                DrainCollab, ReadStatus, world
  <2>7. ASSUME NEW h \in Handlers,
               SyncProcessGeneration(h) \/ SyncCollab(h) \/ NoteTurnEpoch(h) \/ EpochCollab(h) \/ ClaimFails(h)
                 \/ ClaimReplays(h) \/ Claim(h) \/ OpenFails(h)
        PROVE  UNCHANGED <<sent, lost>>
    BY <2>7 DEF SyncProcessGeneration, SyncCollab, NoteTurnEpoch, EpochCollab, ClaimFails, ClaimReplays, Claim,
                OpenFails, world
  <2>8. ASSUME NEW h \in Handlers,
               ObserveEvent(h) \/ NoteStreamEvent(h) \/ RelayEnds(h) \/ RelayRetries(h) \/ Abort(h) \/ Settle(h)
        PROVE  UNCHANGED <<sent, lost>>
    BY <2>8 DEF ObserveEvent, NoteStreamEvent, RelayEnds, RelayRetries, Abort, Settle, world
  <2>9. RuntimeRestarts \/ RuntimeDrains => UNCHANGED <<sent, lost>>
    BY DEF RuntimeRestarts, RuntimeDrains
  <2> HIDE DEF Delivers
  <2> QED
    BY <2>3, <2>4, <2>5, <2>6, <2>7, <2>8, <2>9, Zenon DEF Next
<1>2. TurnsInv => ReplayFits
  BY DEF TurnsInv
<1> QED
  BY <1>1, <1>2, TurnsInductive, PTL DEF Spec, ForwardedOnce

(***************************************************************************)
(* No permit is left "forwarding", and no slot of _SLOTS taken, by a       *)
(* request that is over or whose exchange has been settled.                *)
(***************************************************************************)
THEOREM NothingLeftInFlight == Spec => []NothingStaysInFlight
<1>1. TurnsInv => NothingStaysInFlight
  <2> SUFFICES ASSUME TurnsInv, NEW c \in Calls, permit[c].state = "forwarding"
               PROVE  \E h \in Handlers : Unsettled(h) /\ c \in Claims(h) /\ ~terminal[h] /\ ~aborted[h]
    BY DEF TurnsInv, SlotsAreUsed, NothingStaysInFlight
  <2>1. PICK h \in Handlers : Holds(h, c) /\ ~terminal[h] /\ ~aborted[h]
    BY DEF TurnsInv, ForwardingIsHeld
  <2> QED
    BY <2>1 DEF Holds, Unsettled, Claims, Exchanging
<1> QED
  BY <1>1, TurnsInductive, PTL

(***************************************************************************)
(* A permit that was revoked, in either table, stays revoked: neither the  *)
(* rollback of _release_locked nor the end of an exchange reopens it.      *)
(***************************************************************************)
THEOREM RevocationIsFinal == Spec => RevokedForGood
<1> DEFINE Final == \A c \in Calls : /\ permit[c].state = "revoked" => permit'[c].state = "revoked"
                                     /\ collab[c].state = "revoked" => collab'[c].state = "revoked"
<1>1. TurnsInv /\ [Next]_vars => [Final]_vars
  <2> SUFFICES ASSUME TurnsInv, Next PROVE Final
    OBVIOUS
  <2>1. TypeOK /\ FlagsFit
    BY DEF TurnsInv
  <2>2. ASSUME NEW h \in Handlers, HandlerStep(h) PROVE Final
    <3>1. OnlyRevokes => \A c \in Calls : permit[c].state = "revoked" => permit'[c].state = "revoked"
      BY DEF OnlyRevokes
    <3>2. Claim(h) => \A c \in Calls : permit[c].state = "revoked" => permit'[c].state = "revoked"
      BY <2>1, ClaimingStep DEF Claim, MayClaim, Claiming
    <3>3. ObserveEvent(h) => \A c \in Calls : permit[c].state = "revoked" => permit'[c].state = "revoked"
      BY <2>1, ObservingStep DEF Observing
    <3>4. Settle(h) => \A c \in Calls : permit[c].state = "revoked" => permit'[c].state = "revoked"
      <4>1. permit' = RevokeInflight(h) => OnlyRevokes
        BY RevokedInflight DEF TurnsInv, ClaimsInv
      <4>2. GivesBack(h) => \A c \in Calls : permit[c].state = "revoked" => permit'[c].state = "revoked"
        BY DEF GivesBack
      <4> QED
        BY <2>1, <3>1, <4>1, <4>2, SettlingStep
    <3>5. \A c \in Calls : permit[c].state = "revoked" => permit'[c].state = "revoked"
      BY <2>1, <2>2, <3>1, <3>2, <3>3, <3>4, RevokingSteps
    <3> QED
      BY <2>1, <2>2, <3>5, CollabSteps
  <2>3. CASE RuntimeStep
    BY <2>3 DEF RuntimeStep, RuntimeRestarts, RuntimeDrains, tables
  <2> QED
    BY <2>2, <2>3 DEF Next, HandlerStep, RuntimeStep
<1> QED
  BY <1>1, TurnsInductive, PTL DEF Spec, RevokedForGood
=============================================================================
