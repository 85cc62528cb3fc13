----------------------- MODULE StreamTranslation_proofs -----------------------
(***************************************************************************)
(* The stream of Responses events that the Gateway sends is well formed    *)
(* for any chunks of the upstream, any positions of its tool calls and a   *)
(* stream of any length.                                                   *)
(*                                                                         *)
(* WellFormed speaks of the events only, so it is not inductive: whether   *)
(* the next item.done will repeat the text of the deltas depends on what   *)
(* the converter remembers.  StreamInv therefore reads the converter as an *)
(* account of the stream.  The reasoning, the message and each tool call   *)
(* have a slot: the output index they took, who they are, the text so far  *)
(* and whether they were announced.  The account agrees with the events    *)
(* when every index below next is the index of one slot, a slot that was   *)
(* announced is in the stream with this identity and, in its deltas, this  *)
(* text, and nothing was sent about the others.  Each step of the          *)
(* converter keeps the account (Tracks), and an event that agrees with the *)
(* account is one that may follow (MayFollow, WellFormedAppend).  At the   *)
(* end every slot with an index is closed, so that the output of           *)
(* response.completed lists 0 .. next - 1 (OutputLists).                   *)
(*                                                                         *)
(* The ledger may reject any event, and the relay then sends those before  *)
(* it: the first events of a well-formed stream are well formed            *)
(* (WellFormedPrefix), and a failure may end any of them (FailureSound),   *)
(* so the proof needs to know nothing of what the ledger rejects.          *)
(*                                                                         *)
(* The text of the deltas, the output and the loops over the entries of a  *)
(* chunk and over the calls to close are recursive functions.  They are    *)
(* reasoned about with Iterates, a first-order form of recursion on an     *)
(* interval, and with SetInduction, induction for a set of naturals.       *)
(***************************************************************************)
EXTENDS StreamTranslation, WellFoundedInduction, FiniteSetTheorems, SequenceTheorems, TLAPS

(* What the chunks can hold, and so what a converter and the events can     *)
(* hold.                                                                    *)
Deltas == UNION {ToSet(c.tools) : c \in Chunks}
Fragments == {c.reasoning : c \in Chunks} \cup {c.content : c \in Chunks} \cup {d.args : d \in Deltas} \cup {NewLine}
Ids == {None} \cup {d.id : d \in Deltas}
Names == {None} \cup {d.name : d \in Deltas}
Texts == Seq(Fragments)
Positions == Nat \cup {None}
Items == [kind : {"message", "reasoning", "function_call"}, id : Ids, name : Names]
Types == {"created", "added", "text.delta", "reasoning.delta", "args.delta",
          "text.done", "reasoning.done", "args.done", "item.done",
          "completed", "incomplete", "failed"}
Outputs == Seq([item : Items \cup {None}, text : Texts])
Events == [type : Types, index : Positions, item : Items \cup {None}, text : Texts, output : Outputs]
Tools == [out : Positions, id : Ids, name : Names, args : Texts, added : BOOLEAN]

Converters ==
    [created : BOOLEAN, reasoning : Texts, reasoningIndex : Positions, text : Texts, messageIndex : Positions,
     tools : [Indices -> Tools], next : Nat,
     pending : {None, "completed", "incomplete"}, completed : BOOLEAN, refused : BOOLEAN, out : Seq(Events)]

-----------------------------------------------------------------------------
(* Induction over naturals, as a fact about sets, and functions defined by  *)
(* recursion over an interval.                                              *)

(* A set with 0 and with the successors of its naturals has every natural.  *)
LEMMA SetInduction ==
    ASSUME NEW S, 0 \in S, \A n \in Nat : n \in S => n + 1 \in S
    PROVE  \A n \in Nat : n \in S
<1> DEFINE Less == {ss \in Nat \X Nat : ss[1] < ss[2]}
           T == {n \in Nat : n \notin S}
<1> SUFFICES ASSUME T # {} PROVE FALSE
  OBVIOUS
<1>1. IsWellFoundedOn(Less, Nat)
  BY NatLessThanWellFounded DEF OpToRel
<1>2. \A x, y \in Nat : <<y, x>> \in Less <=> y < x
  OBVIOUS
<1> HIDE DEF Less
<1>3. T \in SUBSET Nat
  OBVIOUS
<1>4. PICK x \in T : \A y \in T : <<y, x>> \notin Less
  BY <1>1, <1>3, WFMin
<1>5. x \in Nat /\ x # 0
  OBVIOUS
<1>6. x - 1 \in Nat /\ x - 1 < x
  BY <1>5
<1>7. x - 1 \notin T
  BY <1>2, <1>4, <1>5, <1>6
<1>8. (x - 1) + 1 \in S
  BY <1>6, <1>7
<1> QED
  BY <1>5, <1>8

(* f starts with v and goes on by step, up to m.                            *)
Iterates(f, V, v, step, m) ==
    /\ f \in [0..m -> V]
    /\ f[0] = v
    /\ \A n \in 1..m : f[n] = step[<<n, f[n - 1]>>]

(* Such a function exists.                                                  *)
LEMMA IterationExists ==
    ASSUME NEW V, NEW v \in V, NEW m \in Nat, NEW step \in [(1..m) \X V -> V]
    PROVE  \E f : Iterates(f, V, v, step, m)
<1> DEFINE Has(k) == k <= m => \E f : Iterates(f, V, v, step, k)
           S == {k \in Nat : Has(k)}
<1>1. Has(0)
  <2>1. Iterates([n \in 0..0 |-> v], V, v, step, 0)
    BY DEF Iterates
  <2> QED
    BY <2>1
<1>2. ASSUME NEW k \in Nat, Has(k) PROVE Has(k + 1)
  <2> SUFFICES ASSUME k + 1 <= m PROVE \E f : Iterates(f, V, v, step, k + 1)
    OBVIOUS
  <2>1. PICK f : Iterates(f, V, v, step, k)
    BY <1>2
  <2>2. f[k] \in V /\ step[<<k + 1, f[k]>>] \in V
    <3>1. f[k] \in V
      BY <2>1 DEF Iterates
    <3>2. <<k + 1, f[k]>> \in (1..m) \X V
      BY <3>1
    <3> QED
      BY <3>1, <3>2
  <2> DEFINE w == step[<<k + 1, f[k]>>]
             g == [n \in 0..(k + 1) |-> IF n = k + 1 THEN w ELSE f[n]]
  <2> HIDE DEF w
  <2>3. g \in [0..(k + 1) -> V]
    BY <2>1, <2>2 DEF Iterates, w
  <2>4. \A n \in 1..(k + 1) : g[n] = step[<<n, g[n - 1]>>]
    <3> SUFFICES ASSUME NEW n \in 1..(k + 1) PROVE g[n] = step[<<n, g[n - 1]>>]
      OBVIOUS
    <3>1. CASE n = k + 1
      <4>1. n - 1 = k /\ g[n] = w /\ g[n - 1] = f[k]
        BY <3>1
      <4> QED
        BY <3>1, <4>1 DEF w
    <3>2. CASE n \in 1..k
      <4>1. g[n] = f[n] /\ g[n - 1] = f[n - 1]
        BY <3>2
      <4> QED
        BY <3>2, <4>1, <2>1 DEF Iterates
    <3> QED
      BY <3>1, <3>2
  <2>5. g[0] = v
    BY <2>1 DEF Iterates
  <2>6. Iterates(g, V, v, step, k + 1)
    <3> HIDE DEF g
    <3> QED
      BY <2>3, <2>4, <2>5 DEF Iterates
  <2> QED
    BY <2>6
<1>3. \A k \in Nat : Has(k)
  <2> HIDE DEF Has
  <2>1. 0 \in S /\ \A k \in Nat : k \in S => k + 1 \in S
    BY <1>1, <1>2
  <2>2. \A k \in Nat : k \in S
    <3> HIDE DEF S
    <3> QED
      BY <2>1, SetInduction
  <2> QED
    BY <2>2
<1> QED
  BY <1>3

(* There is only one.                                                       *)
LEMMA IterationUnique ==
    ASSUME NEW V, NEW v \in V, NEW m \in Nat, NEW step,
           NEW f, Iterates(f, V, v, step, m), NEW g, NEW k \in Nat, k >= m, NEW W,
           g \in [0..k -> W], g[0] = v, \A n \in 1..m : g[n] = step[<<n, g[n - 1]>>]
    PROVE  \A n \in 0..m : f[n] = g[n]
<1> DEFINE S == {n \in Nat : n <= m => f[n] = g[n]}
<1>1. 0 \in S
  BY DEF Iterates
<1>2. ASSUME NEW n \in Nat, n \in S PROVE n + 1 \in S
  <2> SUFFICES ASSUME n + 1 <= m PROVE f[n + 1] = g[n + 1]
    OBVIOUS
  <2>1. f[n + 1] = step[<<n + 1, f[n]>>]
    BY DEF Iterates
  <2>2. g[n + 1] = step[<<n + 1, g[n]>>]
    OBVIOUS
  <2> QED
    BY <1>2, <2>1, <2>2
<1> HIDE DEF S
<1>3. \A n \in Nat : n \in S
  BY <1>1, <1>2, SetInduction
<1> QED
  BY <1>3 DEF S

-----------------------------------------------------------------------------
(* Sequences of events and the text of their deltas.                        *)

(* What Append does, position by position.                                  *)
LEMMA Appended ==
    ASSUME NEW S, NEW E \in Seq(S), NEW e \in S
    PROVE  LET F == Append(E, e) IN
           /\ F \in Seq(S) /\ F # <<>> /\ Len(F) = Len(E) + 1
           /\ DOMAIN E = 1..Len(E) /\ DOMAIN F = 1..(Len(E) + 1) /\ Len(E) \in Nat
           /\ \A k \in 1..Len(E) : F[k] = E[k]
           /\ F[Len(E) + 1] = e
BY AppendProperties

(* What an event adds to the text of the item with this index.              *)
Adds(e, n) == e.index = n /\ e.type \in DeltaTypes

(* The text of the first deltas, for any number of events.                  *)
TextStep(E, n) ==
    [a \in (1..Len(E)) \X Texts |-> IF Adds(E[a[1]], n) THEN a[2] \o E[a[1]].text ELSE a[2]]

(* The first events of a sequence that goes on.                             *)
LEMMA AppendedPrefixes ==
    ASSUME NEW S, NEW E \in Seq(S), NEW e \in S
    PROVE  LET F == Append(E, e) IN
           /\ \A k \in 1..Len(E) : SubSeq(F, 1, k) = SubSeq(E, 1, k)
           /\ SubSeq(F, 1, Len(E) + 1) = F /\ SubSeq(F, 1, Len(E)) = E
<1> DEFINE F == Append(E, e)
<1>1. /\ F \in Seq(S) /\ Len(F) = Len(E) + 1 /\ Len(E) \in Nat
      /\ \A k \in 1..Len(E) : F[k] = E[k]
  BY Appended
<1> HIDE DEF F
<1>2. \A k \in 0..Len(E) : SubSeq(F, 1, k) = SubSeq(E, 1, k)
  BY <1>1
<1>3. SubSeq(F, 1, Len(E) + 1) = F /\ SubSeq(E, 1, Len(E)) = E
  BY <1>1
<1>4. SubSeq(F, 1, Len(E)) = E
  BY <1>1, <1>2, <1>3
<1> QED
  BY <1>2, <1>3, <1>4 DEF F

(* A text on lines of its own is a text.                                    *)
LEMMA JoinedType == ASSUME NEW t \in Texts PROVE Joined(t) \in Texts
<1> DEFINE m == IF t = <<>> THEN 0 ELSE 2 * Len(t) - 1
<1>1. t \in Seq(Fragments) /\ Len(t) \in Nat /\ (t = <<>> <=> Len(t) = 0)
  BY EmptySeq DEF Texts
<1>2. m \in Nat
  BY <1>1
<1>3. ASSUME NEW k \in 1 .. m PROVE (IF k % 2 = 1 THEN t[(k + 1) \div 2] ELSE NewLine) \in Fragments
  <2>1. (k + 1) \div 2 \in 1 .. Len(t)
    BY <1>1
  <2>2. t[(k + 1) \div 2] \in Fragments
    BY <1>1, <2>1, ElementOfSeq
  <2> QED
    BY <2>2 DEF Fragments
<1>4. Joined(t) = [k \in 1 .. m |-> IF k % 2 = 1 THEN t[(k + 1) \div 2] ELSE NewLine]
  BY DEF Joined
<1> HIDE DEF m
<1>5. [k \in 1 .. m |-> IF k % 2 = 1 THEN t[(k + 1) \div 2] ELSE NewLine] \in [1 .. m -> Fragments]
  BY <1>3
<1>6. Joined(t) \in [1 .. m -> Fragments]
  BY <1>4, <1>5
<1> QED
  BY <1>2, <1>6 DEF Texts

(* The fields of an event of a sequence.                                    *)
LEMMA EventOf ==
    ASSUME NEW E \in Seq(Events), NEW k \in 1..Len(E)
    PROVE  /\ E[k] \in Events /\ E[k].index \in Positions /\ E[k].item \in Items \cup {None}
           /\ E[k].text \in Texts /\ E[k].output \in Outputs
<1>1. E[k] \in Events
  BY ElementOfSeq
<1> QED
  BY <1>1 DEF Events

(* A step of the text of the deltas gives a text.                           *)
LEMMA TextStepType ==
    ASSUME NEW E \in Seq(Events), NEW n
    PROVE  TextStep(E, n) \in [(1..Len(E)) \X Texts -> Texts] /\ <<>> \in Texts
<1>1. ASSUME NEW a \in (1..Len(E)) \X Texts
      PROVE  (IF Adds(E[a[1]], n) THEN a[2] \o E[a[1]].text ELSE a[2]) \in Texts
  <2>1. a[1] \in 1..Len(E) /\ a[2] \in Texts
    OBVIOUS
  <2>2. E[a[1]].text \in Texts
    BY <2>1, EventOf
  <2>3. a[2] \o E[a[1]].text \in Texts
    BY <2>1, <2>2, ConcatProperties DEF Texts
  <2> QED
    BY <2>1, <2>3
<1>2. <<>> \in Texts
  BY DEF Texts
<1> QED
  BY <1>1, <1>2 DEF TextStep

(* A step adds the text of its event, or nothing.                           *)
LEMMA TextStepAt ==
    ASSUME NEW E \in Seq(Events), NEW n, NEW k \in 1..Len(E), NEW t \in Texts
    PROVE  TextStep(E, n)[<<k, t>>] = IF Adds(E[k], n) THEN t \o E[k].text ELSE t
<1>1. <<k, t>> \in (1..Len(E)) \X Texts
  OBVIOUS
<1> QED
  BY <1>1 DEF TextStep

(* DeltaText is what its recursion gives.                                   *)
LEMMA DeltaTextIterates ==
    ASSUME NEW E \in Seq(Events), NEW n
    PROVE  \E f : Iterates(f, Texts, <<>>, TextStep(E, n), Len(E)) /\ DeltaText(E, n) = f[Len(E)]
<1> DEFINE Def(f) == f = [k \in 0..Len(E) |->
                            IF k = 0 THEN <<>>
                            ELSE IF E[k].index = n /\ E[k].type \in DeltaTypes THEN f[k - 1] \o E[k].text
                            ELSE f[k - 1]]
           upTo == CHOOSE f : Def(f)
<1>0. Len(E) \in Nat
  OBVIOUS
<1>1. PICK f : Iterates(f, Texts, <<>>, TextStep(E, n), Len(E))
  BY <1>0, TextStepType, IterationExists
<1>2. Def(f)
  <2>1. ASSUME NEW k \in 1..Len(E) PROVE f[k] = IF Adds(E[k], n) THEN f[k - 1] \o E[k].text ELSE f[k - 1]
    <3>1. k - 1 \in 0..Len(E) /\ f[k - 1] \in Texts
      BY <1>0, <1>1 DEF Iterates
    <3>2. f[k] = TextStep(E, n)[<<k, f[k - 1]>>]
      BY <1>1 DEF Iterates
    <3> QED
      BY <3>1, <3>2, TextStepAt
  <2>2. f[0] = <<>> /\ f = [k \in 0..Len(E) |-> f[k]]
    BY <1>1 DEF Iterates
  <2> QED
    BY <1>0, <2>1, <2>2 DEF Adds
<1>3. DeltaText(E, n) = upTo[Len(E)]
  BY DEF DeltaText
<1>4. Def(upTo)
  <2> HIDE DEF Def
  <2> QED
    BY <1>2
<1> HIDE DEF upTo
<1> DEFINE S == {k \in Nat : k <= Len(E) => upTo[k] \in Texts}
<1>5. 0 \in S
  BY <1>0, <1>4, TextStepType
<1>6. ASSUME NEW k \in Nat, k \in S PROVE k + 1 \in S
  <2> SUFFICES ASSUME k + 1 <= Len(E) PROVE upTo[k + 1] \in Texts
    OBVIOUS
  <2>1. upTo[k] \in Texts
    BY <1>0, <1>6
  <2>2. upTo[k + 1] = IF Adds(E[k + 1], n) THEN upTo[k] \o E[k + 1].text ELSE upTo[k]
    BY <1>0, <1>4 DEF Adds
  <2>3. TextStep(E, n)[<<k + 1, upTo[k]>>] \in Texts
    <3>1. <<k + 1, upTo[k]>> \in (1..Len(E)) \X Texts
      BY <1>0, <2>1
    <3> QED
      BY <3>1, TextStepType
  <2>4. TextStep(E, n)[<<k + 1, upTo[k]>>] = upTo[k + 1]
    BY <1>0, <2>1, <2>2, TextStepAt
  <2> QED
    BY <2>3, <2>4
<1>7. \A k \in Nat : k \in S
  <2> HIDE DEF S
  <2> QED
    BY <1>5, <1>6, SetInduction
<1>8. Iterates(upTo, Texts, <<>>, TextStep(E, n), Len(E))
  <2>1. \A k \in 0..Len(E) : upTo[k] \in Texts
    BY <1>0, <1>7
  <2>2. upTo \in [0..Len(E) -> Texts] /\ upTo[0] = <<>>
    BY <1>0, <1>4, <2>1
  <2>3. \A k \in 1..Len(E) : upTo[k] = TextStep(E, n)[<<k, upTo[k - 1]>>]
    <3> SUFFICES ASSUME NEW k \in 1..Len(E) PROVE upTo[k] = TextStep(E, n)[<<k, upTo[k - 1]>>]
      OBVIOUS
    <3>1. upTo[k - 1] \in Texts
      BY <1>0, <2>1
    <3>2. upTo[k] = IF Adds(E[k], n) THEN upTo[k - 1] \o E[k].text ELSE upTo[k - 1]
      BY <1>0, <1>4 DEF Adds
    <3> QED
      BY <3>1, <3>2, TextStepAt
  <2> QED
    BY <2>2, <2>3 DEF Iterates
<1> QED
  BY <1>3, <1>8

(* One more event.                                                          *)
LEMMA DeltaTextAppend ==
    ASSUME NEW E \in Seq(Events), NEW e \in Events, NEW n
    PROVE  /\ DeltaText(E, n) \in Texts
           /\ DeltaText(Append(E, e), n) =
                IF Adds(e, n) THEN DeltaText(E, n) \o e.text ELSE DeltaText(E, n)
<1> DEFINE F == Append(E, e)
           m == Len(E)
<1>1. /\ F \in Seq(Events) /\ Len(F) = m + 1 /\ m \in Nat
      /\ \A k \in 1..m : F[k] = E[k]
      /\ F[m + 1] = e
  BY Appended
<1> HIDE DEF F
<1>2. PICK f : Iterates(f, Texts, <<>>, TextStep(E, n), m) /\ DeltaText(E, n) = f[m]
  BY DeltaTextIterates
<1>3. PICK g : Iterates(g, Texts, <<>>, TextStep(F, n), m + 1) /\ DeltaText(F, n) = g[m + 1]
  BY <1>1, DeltaTextIterates
<1>4. \A k \in 0..m : f[k] = g[k]
  <2>1. \A k \in 1..m : g[k] = TextStep(E, n)[<<k, g[k - 1]>>]
    <3> SUFFICES ASSUME NEW k \in 1..m PROVE g[k] = TextStep(E, n)[<<k, g[k - 1]>>]
      OBVIOUS
    <3>1. k \in 1..(m + 1) /\ k - 1 \in 0..(m + 1) /\ F[k] = E[k]
      BY <1>1
    <3>2. g[k - 1] \in Texts /\ g[k] = TextStep(F, n)[<<k, g[k - 1]>>]
      BY <1>3, <3>1 DEF Iterates
    <3>3. TextStep(F, n)[<<k, g[k - 1]>>] = TextStep(E, n)[<<k, g[k - 1]>>]
      <4> DEFINE t == g[k - 1]
      <4>1. k \in 1..Len(F) /\ k \in 1..Len(E) /\ t \in Texts
        BY <1>1, <3>1, <3>2
      <4> HIDE DEF t
      <4>2. TextStep(F, n)[<<k, t>>] = IF Adds(F[k], n) THEN t \o F[k].text ELSE t
        BY <1>1, <4>1, TextStepAt
      <4>3. TextStep(E, n)[<<k, t>>] = IF Adds(E[k], n) THEN t \o E[k].text ELSE t
        BY <4>1, TextStepAt
      <4> QED
        BY <3>1, <4>2, <4>3 DEF t
    <3> QED
      BY <3>2, <3>3
  <2>2. g \in [0..(m + 1) -> Texts] /\ g[0] = <<>> /\ m + 1 \in Nat /\ m + 1 >= m
    BY <1>1, <1>3 DEF Iterates
  <2> QED
    BY <1>1, <1>2, <2>1, <2>2, TextStepType, IterationUnique
<1>5. f[m] = g[m] /\ f[m] \in Texts
  BY <1>1, <1>2, <1>4 DEF Iterates
<1>6. g[m + 1] = TextStep(F, n)[<<m + 1, g[m]>>]
  BY <1>1, <1>3 DEF Iterates
<1>7. TextStep(F, n)[<<m + 1, g[m]>>] = IF Adds(F[m + 1], n) THEN g[m] \o F[m + 1].text ELSE g[m]
  BY <1>1, <1>5, TextStepAt
<1> QED
  BY <1>1, <1>2, <1>3, <1>5, <1>6, <1>7 DEF F

(* An item that no delta is about has no text yet.                          *)
LEMMA DeltaTextEmpty ==
    ASSUME NEW E \in Seq(Events), NEW n, \A k \in 1..Len(E) : ~Adds(E[k], n)
    PROVE  DeltaText(E, n) = <<>>
<1>1. PICK f : Iterates(f, Texts, <<>>, TextStep(E, n), Len(E)) /\ DeltaText(E, n) = f[Len(E)]
  BY DeltaTextIterates
<1>2. Len(E) \in Nat
  OBVIOUS
<1> DEFINE S == {k \in Nat : k <= Len(E) => f[k] = <<>>}
<1>3. 0 \in S
  BY <1>1 DEF Iterates
<1>4. ASSUME NEW k \in Nat, k \in S PROVE k + 1 \in S
  <2> SUFFICES ASSUME k + 1 <= Len(E) PROVE f[k + 1] = <<>>
    OBVIOUS
  <2>1. k + 1 \in 1..Len(E) /\ f[k] = <<>> /\ f[k + 1] = TextStep(E, n)[<<k + 1, f[k]>>]
    BY <1>1, <1>2, <1>4 DEF Iterates
  <2>2. <<>> \in Texts
    BY DEF Texts
  <2>3. TextStep(E, n)[<<k + 1, <<>> >>] = IF Adds(E[k + 1], n) THEN <<>> \o E[k + 1].text ELSE <<>>
    BY <2>1, <2>2, TextStepAt
  <2> QED
    BY <2>1, <2>3
<1> HIDE DEF S
<1>5. \A k \in Nat : k \in S
  BY <1>3, <1>4, SetInduction
<1> QED
  BY <1>1, <1>2, <1>5 DEF S

(* Suffixes, by position from the end.                                      *)
LEMMA SuffixByPosition ==
    ASSUME NEW s \in Texts, NEW t \in Texts
    PROVE  IsSuffix(s, t) <=> /\ Len(s) <= Len(t)
                              /\ \A i \in 1..Len(s) : s[(Len(s) - i) + 1] = t[(Len(t) - i) + 1]
<1>1. Len(s) \in Nat /\ Len(t) \in Nat
  BY DEF Texts
<1>2. /\ Reverse(s) \in Seq(Fragments) /\ Len(Reverse(s)) = Len(s)
      /\ \A i \in 1..Len(s) : Reverse(s)[i] = s[(Len(s) - i) + 1]
  <2>1. \A i \in 1..Len(s) : s[(Len(s) - i) + 1] \in Fragments
    <3> SUFFICES ASSUME NEW i \in 1..Len(s) PROVE s[(Len(s) - i) + 1] \in Fragments
      OBVIOUS
    <3>1. (Len(s) - i) + 1 \in 1..Len(s)
      BY <1>1
    <3> QED
      BY <3>1, ElementOfSeq DEF Texts
  <2>2. Reverse(s) \in [1..Len(s) -> Fragments]
    BY <2>1 DEF Reverse
  <2> QED
    BY <1>1, <2>2 DEF Reverse
<1>3. /\ Reverse(t) \in Seq(Fragments) /\ Len(Reverse(t)) = Len(t)
      /\ \A i \in 1..Len(t) : Reverse(t)[i] = t[(Len(t) - i) + 1]
  <2>1. \A i \in 1..Len(t) : t[(Len(t) - i) + 1] \in Fragments
    <3> SUFFICES ASSUME NEW i \in 1..Len(t) PROVE t[(Len(t) - i) + 1] \in Fragments
      OBVIOUS
    <3>1. (Len(t) - i) + 1 \in 1..Len(t)
      BY <1>1
    <3> QED
      BY <3>1, ElementOfSeq DEF Texts
  <2>2. Reverse(t) \in [1..Len(t) -> Fragments]
    BY <2>1 DEF Reverse
  <2> QED
    BY <1>1, <2>2 DEF Reverse
<1> DEFINE a == Reverse(s)
           b == Reverse(t)
<1>4. IsSuffix(s, t) <=> Len(a) <= Len(b) /\ SubSeq(a, 1, Len(a)) = SubSeq(b, 1, Len(a))
  BY DEF IsSuffix, IsPrefix
<1> HIDE DEF a, b
<1>5. Len(a) <= Len(b) =>
        (SubSeq(a, 1, Len(a)) = SubSeq(b, 1, Len(a)) <=> \A i \in 1..Len(a) : a[i] = b[i])
  <2> SUFFICES ASSUME Len(a) <= Len(b)
               PROVE SubSeq(a, 1, Len(a)) = SubSeq(b, 1, Len(a)) <=> \A i \in 1..Len(a) : a[i] = b[i]
    OBVIOUS
  <2>1. a \in Seq(Fragments) /\ b \in Seq(Fragments) /\ Len(a) \in Nat /\ Len(b) \in Nat
    BY <1>1, <1>2, <1>3 DEF a, b
  <2>2. \A i \in 1..Len(a) : a[i] \in Fragments /\ b[i] \in Fragments
    BY <2>1
  <2>3. /\ SubSeq(a, 1, Len(a)) \in Seq(Fragments) /\ Len(SubSeq(a, 1, Len(a))) = Len(a)
        /\ \A i \in 1..Len(a) : SubSeq(a, 1, Len(a))[i] = a[i]
    BY <2>1, <2>2, SubSeqProperties
  <2>4. /\ SubSeq(b, 1, Len(a)) \in Seq(Fragments) /\ Len(SubSeq(b, 1, Len(a))) = Len(a)
        /\ \A i \in 1..Len(a) : SubSeq(b, 1, Len(a))[i] = b[i]
    BY <2>1, <2>2, SubSeqProperties
  <2>5. ASSUME \A i \in 1..Len(a) : a[i] = b[i] PROVE SubSeq(a, 1, Len(a)) = SubSeq(b, 1, Len(a))
    BY <2>3, <2>4, <2>5, SeqEqual
  <2> QED
    BY <2>3, <2>4, <2>5
<1>6. Len(s) <= Len(t) =>
        ((\A i \in 1..Len(a) : a[i] = b[i]) <=> \A i \in 1..Len(s) : s[(Len(s) - i) + 1] = t[(Len(t) - i) + 1])
  <2>1. Len(s) <= Len(t) => \A i \in 1..Len(s) : i \in 1..Len(t)
    BY <1>1
  <2> QED
    BY <1>2, <1>3, <2>1 DEF a, b
<1> QED
  BY <1>2, <1>3, <1>4, <1>5, <1>6 DEF a, b

(* An empty text ends every text.                                           *)
LEMMA EmptyIsSuffix == ASSUME NEW t \in Texts PROVE IsSuffix(<<>>, t)
<1>1. <<>> \in Texts /\ Len(<<>>) = 0 /\ Len(t) \in Nat
  BY DEF Texts
<1> QED
  BY <1>1, SuffixByPosition

(* A text that ends another still does when both get the same fragment.     *)
LEMMA SuffixAppended ==
    ASSUME NEW s \in Texts, NEW t \in Texts, NEW x \in Fragments, IsSuffix(s, t)
    PROVE  IsSuffix(Append(s, x), Append(t, x))
<1> DEFINE a == Append(s, x)
           b == Append(t, x)
<1>1. /\ a \in Texts /\ Len(s) \in Nat /\ Len(a) = Len(s) + 1
      /\ \A i \in 1..Len(s) : a[i] = s[i]
      /\ a[Len(s) + 1] = x
  BY AppendProperties DEF Texts
<1>2. /\ b \in Texts /\ Len(t) \in Nat /\ Len(b) = Len(t) + 1
      /\ \A i \in 1..Len(t) : b[i] = t[i]
      /\ b[Len(t) + 1] = x
  BY AppendProperties DEF Texts
<1> HIDE DEF a, b
<1>3. Len(s) <= Len(t) /\ \A i \in 1..Len(s) : s[(Len(s) - i) + 1] = t[(Len(t) - i) + 1]
  BY SuffixByPosition
<1>4. ASSUME NEW i \in 1..Len(a) PROVE a[(Len(a) - i) + 1] = b[(Len(b) - i) + 1]
  <2>1. CASE i = 1
    BY <1>1, <1>2, <2>1
  <2>2. CASE i # 1
    <3>1. /\ i - 1 \in 1..Len(s)
          /\ (Len(a) - i) + 1 = (Len(s) - (i - 1)) + 1 /\ (Len(a) - i) + 1 \in 1..Len(s)
          /\ (Len(b) - i) + 1 = (Len(t) - (i - 1)) + 1 /\ (Len(b) - i) + 1 \in 1..Len(t)
      BY <1>1, <1>2, <1>3, <2>2
    <3>2. s[(Len(s) - (i - 1)) + 1] = t[(Len(t) - (i - 1)) + 1]
      BY <1>3, <3>1
    <3>3. a[(Len(a) - i) + 1] = s[(Len(a) - i) + 1]
      BY <1>1, <3>1
    <3>4. b[(Len(b) - i) + 1] = t[(Len(b) - i) + 1]
      BY <1>2, <3>1
    <3> QED
      BY <3>1, <3>2, <3>3, <3>4
  <2> QED
    BY <2>1, <2>2
<1>5. IsSuffix(a, b)
  <2>1. Len(a) <= Len(b)
    BY <1>1, <1>2, <1>3
  <2> QED
    BY <1>1, <1>2, <1>4, <2>1, SuffixByPosition
<1> QED
  BY <1>5 DEF a, b

-----------------------------------------------------------------------------
(* Streams that stay well formed.                                           *)

(* The indices of the announced and of the closed items; whether E goes on. *)
AnnouncedIn(E) == {E[j].index : j \in OfType(E, "added")}
ClosedIn(E) == {E[j].index : j \in OfType(E, "item.done")}
Begun(E) == \A k \in DOMAIN E : E[k].type \notin Terminal

(* The output of a response, after E.                                       *)
Lists(E, output) ==
    /\ AnnouncedIn(E) = 0 .. Len(output) - 1
    /\ \A n \in DOMAIN output : \E j \in OfType(E, "item.done") :
          E[j].index = n - 1 /\ output[n] = [item |-> E[j].item, text |-> E[j].text]

(* What may follow E.                                                       *)
MayFollow(E, e) ==
    /\ Begun(E)
    /\ e.type = "created" => E = <<>>
    /\ e.type \notin Terminal /\ E = <<>> => e.type = "created"
    /\ e.index = None <=> e.type \in Terminal \cup {"created"}
    /\ e.index # None /\ e.type # "added" => e.index \in AnnouncedIn(E)
    /\ e.type = "added" => e.index \notin AnnouncedIn(E)
    /\ e.index \notin ClosedIn(E)
    /\ e.type = "item.done" => /\ IsAnnounced(E, e.index, e.item)
                               /\ TextFits(DeltaText(E, e.index), e.item, e.text)
    /\ e.type \in SayTypes => SaidFits(DeltaText(E, e.index), e)
    /\ e.type \in {"completed", "incomplete"} => Lists(E, e.output)

(* A well-formed stream goes on with an event that may follow.              *)
LEMMA WellFormedAppend ==
    ASSUME NEW E \in Seq(Events), NEW e \in Events, WellFormed(E), MayFollow(E, e)
    PROVE  WellFormed(Append(E, e))
<1> DEFINE F == Append(E, e)
           m == Len(E)
<1>1. /\ F \in Seq(Events) /\ Len(F) = m + 1 /\ m \in Nat
      /\ DOMAIN E = 1..m /\ DOMAIN F = 1..(m + 1)
      /\ \A k \in 1..m : F[k] = E[k]
      /\ F[m + 1] = e
  BY Appended
<1>2. \A n : DeltaText(F, n) = IF Adds(e, n) THEN DeltaText(E, n) \o e.text ELSE DeltaText(E, n)
  BY DeltaTextAppend
<1>p. (\A k \in 1..m : SubSeq(F, 1, k) = SubSeq(E, 1, k)) /\ SubSeq(F, 1, m + 1) = F
  BY ONLY E \in Seq(Events), e \in Events, AppendedPrefixes
<1> HIDE DEF F
<1>3. \A type : /\ OfType(E, type) = {k \in 1..m : E[k].type = type}
                /\ OfType(F, type) = OfType(E, type) \cup (IF e.type = type THEN {m + 1} ELSE {})
  BY <1>1 DEF OfType
<1>4. \A type : OfType(E, type) \subseteq 1..m /\ OfType(F, type) \subseteq 1..(m + 1)
  BY <1>1, <1>3
<1>e. E = <<>> <=> m = 0
  BY EmptySeq
<1>5. \A k \in OfType(F, "created") : k = 1
  <2>1. \A k \in OfType(E, "created") : k = 1
    BY DEF WellFormed
  <2>2. e.type = "created" => m + 1 = 1
    BY <1>1, <1>e DEF MayFollow
  <2> QED
    BY <1>3, <2>1, <2>2
<1>6. ASSUME NEW k \in DOMAIN F
      PROVE  /\ F[k].type \in Terminal => k = Len(F)
             /\ F[k].type \notin Terminal => F[1].type = "created"
             /\ F[k].index = None <=> F[k].type \in Terminal \cup {"created"}
             /\ F[k].index # None /\ F[k].type # "added" =>
                   \E j \in OfType(F, "added") : j < k /\ F[j].index = F[k].index
  <2>1. CASE k \in 1..m
    <3>1. F[k] = E[k] /\ F[1] = E[1] /\ k \in DOMAIN E
      BY <1>1, <2>1
    <3>2. E[k].type \notin Terminal
      BY <3>1 DEF MayFollow, Begun
    <3>3. E[1].type = "created"
      BY <3>1, <3>2 DEF WellFormed
    <3>6. E[k].index = None <=> E[k].type \in Terminal \cup {"created"}
      BY <3>1 DEF WellFormed
    <3>4. E[k].index # None /\ E[k].type # "added" =>
             \E j \in OfType(E, "added") : j < k /\ E[j].index = E[k].index
      BY <3>1 DEF WellFormed
    <3>5. \A j \in OfType(E, "added") : j \in OfType(F, "added") /\ F[j] = E[j]
      BY <1>1, <1>3, <1>4
    <3> QED
      BY <3>1, <3>2, <3>3, <3>4, <3>5, <3>6
  <2>2. CASE k = m + 1
    <3>1. F[k] = e /\ k = Len(F) /\ (e.index = None <=> e.type \in Terminal \cup {"created"})
      BY <1>1, <2>2 DEF MayFollow
    <3>2. e.type \notin Terminal => F[1].type = "created"
      <4>1. CASE m = 0
        BY <1>1, <1>e, <4>1 DEF MayFollow
      <4>2. CASE m # 0
        <5>1. 1 \in DOMAIN E /\ F[1] = E[1]
          BY <1>1, <4>2
        <5>2. E[1].type \notin Terminal
          BY <5>1 DEF MayFollow, Begun
        <5> QED
          BY <5>1, <5>2 DEF WellFormed
      <4> QED
        BY <4>1, <4>2
    <3>3. e.index # None /\ e.type # "added" => \E j \in OfType(F, "added") : j < k /\ F[j].index = e.index
      <4> SUFFICES ASSUME e.index # None, e.type # "added"
                   PROVE \E j \in OfType(F, "added") : j < k /\ F[j].index = e.index
        OBVIOUS
      <4>1. PICK j \in OfType(E, "added") : E[j].index = e.index
        BY DEF MayFollow, AnnouncedIn
      <4>2. j \in OfType(F, "added") /\ j \in 1..m
        BY <1>3, <1>4
      <4>3. j < k /\ F[j] = E[j]
        BY <1>1, <2>2, <4>2
      <4> QED
        BY <4>1, <4>2, <4>3
    <3> QED
      BY <3>1, <3>2, <3>3
  <2> QED
    BY <1>1, <2>1, <2>2
<1>7. ASSUME NEW j \in OfType(F, "added"), NEW k \in OfType(F, "added"), F[j].index = F[k].index
      PROVE  j = k
  <2>1. j \in OfType(E, "added") => j \in 1..m /\ F[j] = E[j] /\ E[j].index \in AnnouncedIn(E)
    BY <1>1, <1>4 DEF AnnouncedIn
  <2>2. k \in OfType(E, "added") => k \in 1..m /\ F[k] = E[k] /\ E[k].index \in AnnouncedIn(E)
    BY <1>1, <1>4 DEF AnnouncedIn
  <2>3. j \notin OfType(E, "added") => j = m + 1 /\ F[j] = e /\ e.type = "added"
    BY <1>1, <1>3
  <2>4. k \notin OfType(E, "added") => k = m + 1 /\ F[k] = e /\ e.type = "added"
    BY <1>1, <1>3
  <2>5. e.type = "added" => e.index \notin AnnouncedIn(E)
    BY DEF MayFollow
  <2>6. j \in OfType(E, "added") /\ k \in OfType(E, "added") /\ E[j].index = E[k].index => j = k
    BY DEF WellFormed
  <2> QED
    BY <1>7, <2>1, <2>2, <2>3, <2>4, <2>5, <2>6
<1>8. ASSUME NEW k \in OfType(F, "item.done")
      PROVE  /\ \A j \in k + 1 .. Len(F) : F[j].index # F[k].index
             /\ IsAnnounced(F, F[k].index, F[k].item)
             /\ TextFits(DeltaText(F, F[k].index), F[k].item, F[k].text)
  <2>0. \A n, item : IsAnnounced(E, n, item) => IsAnnounced(F, n, item)
    BY <1>1, <1>3, <1>4 DEF IsAnnounced
  <2>1. CASE k \in OfType(E, "item.done")
    <3>1. k \in 1..m /\ F[k] = E[k]
      BY <1>1, <1>4, <2>1
    <3>2. E[k].index \in ClosedIn(E)
      BY <2>1 DEF ClosedIn
    <3>3. E[k].index # e.index
      BY <3>2 DEF MayFollow
    <3>4. \A j \in k + 1 .. m : E[j].index # E[k].index
      BY <1>1, <2>1 DEF WellFormed
    <3>5. \A j \in k + 1 .. m + 1 : F[j].index # F[k].index
      <4> SUFFICES ASSUME NEW j \in k + 1 .. m + 1 PROVE F[j].index # F[k].index
        OBVIOUS
      <4>1. j = m + 1 \/ (j \in k + 1 .. m /\ j \in 1..m)
        BY <1>1, <3>1
      <4> QED
        BY <1>1, <3>1, <3>3, <3>4, <4>1
    <3>6. IsAnnounced(E, E[k].index, E[k].item) /\ TextFits(DeltaText(E, E[k].index), E[k].item, E[k].text)
      BY <2>1 DEF WellFormed
    <3>7. DeltaText(F, E[k].index) = DeltaText(E, E[k].index)
      BY <1>2, <3>3 DEF Adds
    <3> QED
      BY <1>1, <2>0, <3>1, <3>5, <3>6, <3>7
  <2>2. CASE k = m + 1 /\ e.type = "item.done"
    <3>1. F[k] = e /\ k + 1 .. Len(F) = {}
      BY <1>1, <2>2
    <3>2. DeltaText(F, e.index) = DeltaText(E, e.index)
      BY <1>2, <2>2 DEF Adds, DeltaTypes
    <3> QED
      BY <2>0, <2>2, <3>1, <3>2 DEF MayFollow
  <2> QED
    BY <1>3, <2>1, <2>2
<1>9. ASSUME NEW k \in OfType(F, "completed") \cup OfType(F, "incomplete")
      PROVE  /\ {F[j].index : j \in OfType(F, "added")} = 0 .. Len(F[k].output) - 1
             /\ \A n \in DOMAIN F[k].output : \E j \in OfType(F, "item.done") :
                   F[j].index = n - 1 /\ F[k].output[n] = [item |-> F[j].item, text |-> F[j].text]
  <2>1. k = m + 1 /\ F[k] = e /\ e.type \in {"completed", "incomplete"}
    <3>1. OfType(E, "completed") = {} /\ OfType(E, "incomplete") = {}
      BY <1>1, <1>3 DEF MayFollow, Begun, Terminal
    <3> QED
      BY <1>1, <1>3, <3>1
  <2>2. Lists(E, e.output)
    BY <2>1 DEF MayFollow
  <2>3. OfType(F, "added") = OfType(E, "added") /\ OfType(F, "item.done") = OfType(E, "item.done")
    BY <1>3, <2>1
  <2>4. /\ \A j \in OfType(E, "added") : F[j] = E[j]
        /\ \A j \in OfType(E, "item.done") : F[j] = E[j]
    BY <1>1, <1>4
  <2>5. {F[j].index : j \in OfType(F, "added")} = AnnouncedIn(E)
    BY <2>3, <2>4 DEF AnnouncedIn
  <2>6. {F[j].index : j \in OfType(F, "added")} = 0 .. Len(e.output) - 1
    BY <2>2, <2>5 DEF Lists
  <2>7. ASSUME NEW n \in DOMAIN e.output
        PROVE  \E j \in OfType(F, "item.done") :
                  F[j].index = n - 1 /\ e.output[n] = [item |-> F[j].item, text |-> F[j].text]
    <3>1. PICK j \in OfType(E, "item.done") :
             E[j].index = n - 1 /\ e.output[n] = [item |-> E[j].item, text |-> E[j].text]
      BY <2>2 DEF Lists
    <3> QED
      BY <2>3, <2>4, <3>1
  <2> QED
    BY <2>1, <2>6, <2>7
<1>11. ASSUME NEW k \in DOMAIN F, F[k].type \in SayTypes
       PROVE  SaidFits(DeltaText(SubSeq(F, 1, k), F[k].index), F[k])
  <2>1. CASE k \in 1..m
    <3>1. F[k] = E[k] /\ SubSeq(F, 1, k) = SubSeq(E, 1, k) /\ k \in DOMAIN E
      BY <1>1, <1>p, <2>1
    <3>2. SaidFits(DeltaText(SubSeq(E, 1, k), E[k].index), E[k])
      BY <1>11, <3>1 DEF WellFormed
    <3> QED
      BY <3>1, <3>2
  <2>2. CASE k = m + 1
    <3>1. F[k] = e /\ SubSeq(F, 1, k) = F
      BY <1>1, <1>p, <2>2
    <3>2. DeltaText(F, e.index) = DeltaText(E, e.index)
      BY <1>2, <1>11, <3>1 DEF Adds, DeltaTypes, SayTypes
    <3> QED
      BY <1>11, <3>1, <3>2 DEF MayFollow
  <2> QED
    BY <1>1, <2>1, <2>2
<1>10. WellFormed(F)
  BY <1>5, <1>6, <1>7, <1>8, <1>9, <1>11 DEF WellFormed
<1> QED
  BY <1>10 DEF F

(* A sequence goes on.                                                      *)
LEMMA ConcatAppend ==
    ASSUME NEW P \in Seq(Events), NEW o \in Seq(Events), NEW e \in Events
    PROVE  P \o Append(o, e) = Append(P \o o, e)
OBVIOUS

(* A stream that goes on was well formed before.                            *)
LEMMA WellFormedFront ==
    ASSUME NEW E \in Seq(Events), NEW e \in Events, WellFormed(Append(E, e))
    PROVE  WellFormed(E)
<1> DEFINE F == Append(E, e)
           m == Len(E)
<1>1. /\ F \in Seq(Events) /\ Len(F) = m + 1 /\ m \in Nat
      /\ DOMAIN E = 1..m /\ DOMAIN F = 1..(m + 1)
      /\ \A k \in 1..m : F[k] = E[k]
      /\ F[m + 1] = e
  BY Appended
<1>2. \A n : DeltaText(F, n) = IF Adds(e, n) THEN DeltaText(E, n) \o e.text ELSE DeltaText(E, n)
  BY DeltaTextAppend
<1>p. \A k \in 1..m : SubSeq(F, 1, k) = SubSeq(E, 1, k)
  BY ONLY E \in Seq(Events), e \in Events, AppendedPrefixes
<1>f. WellFormed(F)
  OBVIOUS
<1> HIDE DEF F
<1>3. \A type : \A k \in OfType(E, type) : k \in 1..m /\ k \in DOMAIN F /\ k \in OfType(F, type) /\ F[k] = E[k]
  BY <1>1 DEF OfType
<1>4. \A type : \A k \in OfType(F, type) : k # m + 1 => k \in OfType(E, type) /\ F[k] = E[k]
  BY <1>1 DEF OfType
<1>5. \A k \in OfType(E, "created") : k = 1
  BY <1>3, <1>f DEF WellFormed
<1>6. ASSUME NEW k \in DOMAIN E
      PROVE  /\ E[k].type \notin Terminal
             /\ E[1].type = "created"
             /\ E[k].index = None <=> E[k].type \in Terminal \cup {"created"}
             /\ E[k].index # None /\ E[k].type # "added" =>
                   \E j \in OfType(E, "added") : j < k /\ E[j].index = E[k].index
  <2>1. k \in DOMAIN F /\ k # Len(F) /\ F[k] = E[k] /\ F[1] = E[1] /\ k \in 1..m
    BY <1>1
  <2>2. F[k].type \notin Terminal /\ F[1].type = "created"
    BY <1>f, <2>1 DEF WellFormed
  <2>3. F[k].index = None <=> F[k].type \in Terminal \cup {"created"}
    BY <1>f, <2>1 DEF WellFormed
  <2>4. ASSUME F[k].index # None, F[k].type # "added"
        PROVE  \E j \in OfType(E, "added") : j < k /\ E[j].index = E[k].index
    <3>1. PICK j \in OfType(F, "added") : j < k /\ F[j].index = F[k].index
      BY <1>f, <2>1, <2>4 DEF WellFormed
    <3>2. j # m + 1
      BY <1>1, <2>1, <3>1
    <3> QED
      BY <1>4, <2>1, <3>1, <3>2
  <2> QED
    BY <2>1, <2>2, <2>3, <2>4
<1>7. \A j, k \in OfType(E, "added") : E[j].index = E[k].index => j = k
  BY <1>3, <1>f DEF WellFormed
<1>8. ASSUME NEW k \in OfType(E, "item.done")
      PROVE  /\ \A j \in k + 1 .. Len(E) : E[j].index # E[k].index
             /\ IsAnnounced(E, E[k].index, E[k].item)
             /\ TextFits(DeltaText(E, E[k].index), E[k].item, E[k].text)
  <2> DEFINE n == E[k].index
  <2>1. k \in 1..m /\ k \in DOMAIN E /\ k \in OfType(F, "item.done") /\ F[k] = E[k] /\ E[k].type = "item.done"
    BY <1>1, <1>3 DEF OfType
  <2>2. /\ \A j \in k + 1 .. Len(F) : F[j].index # n
        /\ IsAnnounced(F, n, E[k].item)
        /\ TextFits(DeltaText(F, n), E[k].item, E[k].text)
    BY <1>f, <2>1 DEF WellFormed
  <2>3. \A j \in k + 1 .. m : E[j].index # n
    BY <1>1, <2>1, <2>2
  <2>4. e.index # n
    BY <1>1, <2>1, <2>2
  <2>5. DeltaText(F, n) = DeltaText(E, n)
    BY <1>2, <2>4 DEF Adds
  <2>6. IsAnnounced(E, n, E[k].item)
    <3>1. PICK j \in OfType(F, "added") : F[j].index = n /\ F[j].item = E[k].item
      BY <2>2 DEF IsAnnounced
    <3>2. j # m + 1
      BY <1>1, <2>4, <3>1
    <3> QED
      BY <1>4, <3>1, <3>2 DEF IsAnnounced
  <2> QED
    BY <2>2, <2>3, <2>5, <2>6
<1>9. ASSUME NEW k \in DOMAIN E, E[k].type \in SayTypes
      PROVE  SaidFits(DeltaText(SubSeq(E, 1, k), E[k].index), E[k])
  <2>1. k \in DOMAIN F /\ F[k] = E[k] /\ SubSeq(F, 1, k) = SubSeq(E, 1, k)
    BY <1>1, <1>p
  <2>2. SaidFits(DeltaText(SubSeq(F, 1, k), F[k].index), F[k])
    BY <1>9, <1>f, <2>1 DEF WellFormed
  <2> QED
    BY <2>1, <2>2
<1>10. OfType(E, "completed") = {} /\ OfType(E, "incomplete") = {}
  BY <1>6 DEF OfType, Terminal
<1> QED
  BY <1>5, <1>6, <1>7, <1>8, <1>9, <1>10 DEF WellFormed

(* The first events of a well-formed stream are well formed.                *)
LEMMA WellFormedPrefix ==
    ASSUME NEW E \in Seq(Events), NEW o \in Seq(Events), WellFormed(E \o o), NEW n \in 0 .. Len(o)
    PROVE  E \o SubSeq(o, 1, n) \in Seq(Events) /\ WellFormed(E \o SubSeq(o, 1, n))
<1> DEFINE S == {j \in Nat : j <= Len(o) => WellFormed(E \o SubSeq(o, 1, Len(o) - j))}
<1>0. Len(o) \in Nat
  OBVIOUS
<1>1. 0 \in S
  <2>1. SubSeq(o, 1, Len(o) - 0) = o
    BY <1>0
  <2> QED
    BY <2>1
<1>2. ASSUME NEW j \in Nat, j \in S PROVE j + 1 \in S
  <2> SUFFICES ASSUME j + 1 <= Len(o) PROVE WellFormed(E \o SubSeq(o, 1, Len(o) - (j + 1)))
    OBVIOUS
  <2> DEFINE k == Len(o) - (j + 1)
             a == SubSeq(o, 1, k)
  <2>1. k \in 0 .. Len(o) /\ k + 1 \in 1 .. Len(o) /\ Len(o) - j = k + 1
    BY <1>0
  <2>2. WellFormed(E \o SubSeq(o, 1, k + 1))
    BY <1>0, <1>2, <2>1
  <2> HIDE DEF k
  <2>3. o[k + 1] \in Events /\ a \in Seq(Events)
    BY <2>1, ElementOfSeq
  <2>4. SubSeq(o, 1, k + 1) = Append(a, o[k + 1])
    BY <1>0, <2>1, <2>3
  <2> HIDE DEF a
  <2> DEFINE G == E \o a
             x == o[k + 1]
  <2>5. G \in Seq(Events) /\ x \in Events /\ WellFormed(Append(G, x))
    <3>1. E \o Append(a, x) = Append(G, x) /\ G \in Seq(Events)
      BY <2>3, ConcatAppend, ConcatProperties
    <3> QED
      BY <2>2, <2>3, <2>4, <3>1
  <2> HIDE DEF G, x
  <2>g. WellFormed(G)
    BY ONLY <2>5, WellFormedFront
  <2>6. WellFormed(E \o a)
    BY <2>g DEF G
  <2>7. a = SubSeq(o, 1, Len(o) - (j + 1))
    BY DEF a, k
  <2> QED
    BY <2>6, <2>7
<1> HIDE DEF S
<1>3. \A j \in Nat : j \in S
  BY <1>1, <1>2, SetInduction
<1>4. Len(o) - n \in Nat /\ Len(o) - n <= Len(o) /\ Len(o) - (Len(o) - n) = n
  BY <1>0
<1>5. WellFormed(E \o SubSeq(o, 1, n))
  BY <1>3, <1>4 DEF S
<1>6. SubSeq(o, 1, n) \in Seq(Events)
  BY <1>0
<1> QED
  BY <1>5, <1>6, ConcatProperties

-----------------------------------------------------------------------------
(* The account of a stream: f has a slot for the reasoning, the message and *)
(* each call, with its output index, its identity, its text so far and      *)
(* whether it was announced; closed are the indices of the closed items.    *)

Slots == [out : Positions, item : Items, text : Texts, added : BOOLEAN]

(* A slot agrees with E: an announced item was announced as what it is,     *)
(* with the text of its deltas, unless it is closed; of another nothing was *)
(* sent.                                                                    *)
SlotFits(E, t) ==
    IF t.added
    THEN \/ t.out \in ClosedIn(E)
         \/ IsAnnounced(E, t.out, t.item) /\ TextFits(DeltaText(E, t.out), t.item, t.text)
    ELSE \A k \in DOMAIN E : E[k].index # t.out

Account(E, closed, next, created, f) ==
    /\ E \in Seq(Events) /\ next \in Nat /\ \A p \in DOMAIN f : f[p] \in Slots
    /\ WellFormed(E) /\ Begun(E) /\ ClosedIn(E) = closed
    /\ created <=> E # <<>>
    /\ \A k \in DOMAIN E : IF E[k].type = "created" THEN E[k].index = None ELSE E[k].index \in 0 .. next - 1
    /\ {f[p].out : p \in DOMAIN f} \ {None} = 0 .. next - 1
    /\ \A p, q \in DOMAIN f : f[p].out = f[q].out /\ f[p].out # None => p = q
    /\ \A p \in DOMAIN f : f[p].out # None => SlotFits(E, f[p])

(* g differs from f at p only.                                              *)
Changes(f, g, p) == DOMAIN g = DOMAIN f /\ p \in DOMAIN f /\ \A q \in DOMAIN f \ {p} : g[q] = f[q]

(* An event that is about another item does not disturb a slot.             *)
LEMMA SlotKeeps ==
    ASSUME NEW E \in Seq(Events), NEW e \in Events, NEW t, SlotFits(E, t), e.index # t.out
    PROVE  SlotFits(Append(E, e), t)
<1> DEFINE F == Append(E, e)
<1>1. /\ DOMAIN E = 1..Len(E) /\ DOMAIN F = 1..(Len(E) + 1) /\ Len(E) \in Nat
      /\ \A k \in 1..Len(E) : F[k] = E[k]
      /\ F[Len(E) + 1] = e
  BY Appended
<1>2. DeltaText(F, t.out) = DeltaText(E, t.out)
  BY DeltaTextAppend DEF Adds
<1> HIDE DEF F
<1>3. ClosedIn(E) \subseteq ClosedIn(F)
  BY <1>1 DEF ClosedIn, OfType
<1>4. IsAnnounced(E, t.out, t.item) => IsAnnounced(F, t.out, t.item)
  BY <1>1 DEF IsAnnounced, OfType
<1>5. (\A k \in DOMAIN E : E[k].index # t.out) => \A k \in DOMAIN F : F[k].index # t.out
  BY <1>1
<1>6. SlotFits(F, t)
  BY <1>2, <1>3, <1>4, <1>5 DEF SlotFits
<1> QED
  BY <1>6 DEF F

(* One event, and what it does to the slot that it is about.                *)
LEMMA AccountEvent ==
    ASSUME NEW E, NEW closed, NEW next, NEW created, NEW f, Account(E, closed, next, created, f),
           NEW e \in Events, MayFollow(E, e), e.type \notin Terminal,
           IF e.type = "created" THEN e.index = None ELSE e.index \in 0 .. next - 1,
           NEW g, DOMAIN g = DOMAIN f,
           \A q \in DOMAIN f : /\ g[q] \in Slots /\ g[q].out = f[q].out
                               /\ f[q].out = None \/ f[q].out # e.index => g[q] = f[q]
                               /\ f[q].out # None /\ f[q].out = e.index => SlotFits(Append(E, e), g[q])
    PROVE  Account(Append(E, e), IF e.type = "item.done" THEN closed \cup {e.index} ELSE closed, next, TRUE, g)
<1> DEFINE F == Append(E, e)
<1>0. E \in Seq(Events) /\ next \in Nat
  BY DEF Account
<1>1. /\ F \in Seq(Events) /\ F # <<>>
      /\ DOMAIN E = 1..Len(E) /\ DOMAIN F = 1..(Len(E) + 1) /\ Len(E) \in Nat
      /\ \A k \in 1..Len(E) : F[k] = E[k]
      /\ F[Len(E) + 1] = e
  BY <1>0, Appended
<1>2. WellFormed(F)
  BY <1>0, WellFormedAppend DEF Account
<1>3. ASSUME NEW q \in DOMAIN g, g[q].out # None PROVE SlotFits(F, g[q])
  <2>1. CASE f[q].out = e.index
    BY <1>3, <2>1
  <2>2. CASE f[q].out # e.index
    <3>1. g[q] = f[q] /\ SlotFits(E, f[q])
      BY <1>3, <2>2 DEF Account
    <3> QED
      BY <1>0, <2>2, <3>1, SlotKeeps
  <2> QED
    BY <2>1, <2>2
<1> HIDE DEF F
<1>4. Begun(F)
  BY <1>1 DEF Begun, Account
<1>5. ClosedIn(F) = IF e.type = "item.done" THEN closed \cup {e.index} ELSE closed
  <2>1. OfType(F, "item.done") = OfType(E, "item.done") \cup (IF e.type = "item.done" THEN {Len(E) + 1} ELSE {})
    BY <1>1 DEF OfType
  <2>2. \A k \in OfType(E, "item.done") : F[k] = E[k]
    BY <1>1 DEF OfType
  <2> QED
    BY <1>1, <2>1, <2>2 DEF ClosedIn, Account
<1>6. \A k \in DOMAIN F : IF F[k].type = "created" THEN F[k].index = None ELSE F[k].index \in 0 .. next - 1
  BY <1>1 DEF Account
<1>7. {g[p].out : p \in DOMAIN g} \ {None} = 0 .. next - 1
  <2>1. {g[p].out : p \in DOMAIN g} = {f[p].out : p \in DOMAIN f}
    OBVIOUS
  <2> QED
    BY <2>1 DEF Account
<1>8. \A p, q \in DOMAIN g : g[p].out = g[q].out /\ g[p].out # None => p = q
  BY DEF Account
<1>9. Account(F, IF e.type = "item.done" THEN closed \cup {e.index} ELSE closed, next, TRUE, g)
  BY <1>0, <1>1, <1>2, <1>3, <1>4, <1>5, <1>6, <1>7, <1>8 DEF Account
<1> QED
  BY <1>9 DEF F

(* An event has the fields it is made of.                                   *)
LEMMA EventType ==
    ASSUME NEW type \in Types, NEW index \in Positions, NEW item \in Items \cup {None}, NEW text \in Texts
    PROVE  LET e == Event(type, index, item, text) IN
           e \in Events /\ e.type = type /\ e.index = index /\ e.item = item /\ e.text = text
BY DEF Event, Events, Outputs

(* Nothing is sent before response.created, and it takes no index.          *)
LEMMA AccountCreated ==
    ASSUME NEW E, NEW closed, NEW next, NEW f, Account(E, closed, next, FALSE, f)
    PROVE  Account(Append(E, Event("created", None, None, <<>>)), closed, next, TRUE, f)
<1> DEFINE e == Event("created", None, None, <<>>)
<1>1. e \in Events /\ e.type = "created" /\ e.index = None
  <2>1. "created" \in Types /\ None \in Positions /\ None \in Items \cup {None} /\ <<>> \in Texts
    BY DEF Types, Positions, Texts
  <2> QED
    BY <2>1, EventType
<1> HIDE DEF e
<1>2. E = <<>> /\ DOMAIN E = {}
  BY EmptySeq DEF Account
<1>3. MayFollow(E, e)
  BY <1>1, <1>2 DEF MayFollow, Begun, ClosedIn, OfType, Terminal, SayTypes
<1>4. /\ e.type \notin Terminal /\ e.type # "item.done"
      /\ \A q \in DOMAIN f : f[q] \in Slots
  BY <1>1 DEF Terminal, Account
<1>5. Account(Append(E, e), IF e.type = "item.done" THEN closed \cup {e.index} ELSE closed, next, TRUE, f)
  BY <1>1, <1>3, <1>4, AccountEvent
<1> QED
  BY <1>4, <1>5 DEF e

(* The next index is given to a slot that has none.                         *)
LEMMA AccountAllot ==
    ASSUME NEW E, NEW closed, NEW next, NEW created, NEW f, Account(E, closed, next, created, f),
           NEW g, NEW p, Changes(f, g, p), f[p].out = None, g[p] \in Slots, g[p].out = next, ~g[p].added
    PROVE  Account(E, closed, next + 1, created, g)
<1>1. next \in Nat /\ next # None
  BY NoneAssumption DEF Account
<1>2. \A q \in DOMAIN g : g[q] \in Slots
  BY DEF Account, Changes
<1>3. \A k \in DOMAIN E : IF E[k].type = "created" THEN E[k].index = None ELSE E[k].index \in 0 .. (next + 1) - 1
  BY <1>1 DEF Account
<1>4. \A q \in DOMAIN f : f[q].out # None => f[q].out \in 0 .. next - 1
  BY DEF Account
<1>5. {g[q].out : q \in DOMAIN g} \ {None} = 0 .. (next + 1) - 1
  <2>1. \A n \in 0 .. next - 1 : \E q \in DOMAIN f : f[q].out = n /\ n # None
    BY DEF Account
  <2>2. \A n \in 0 .. next - 1 : \E q \in DOMAIN g : g[q].out = n /\ n # None
    BY <2>1 DEF Changes
  <2>3. \A q \in DOMAIN g : g[q].out # None => g[q].out \in 0 .. next
    BY <1>1, <1>4 DEF Changes
  <2>4. p \in DOMAIN g
    BY DEF Changes
  <2> QED
    BY <1>1, <2>2, <2>3, <2>4
<1>6. \A q, r \in DOMAIN g : g[q].out = g[r].out /\ g[q].out # None => q = r
  <2>1. \A q \in DOMAIN f : f[q].out # next
    BY <1>1, <1>4
  <2> QED
    BY <2>1 DEF Changes, Account
<1>7. \A q \in DOMAIN g : g[q].out # None => SlotFits(E, g[q])
  <2>1. \A k \in DOMAIN E : E[k].index # next
    BY <1>1 DEF Account
  <2>2. SlotFits(E, g[p])
    BY <2>1 DEF SlotFits
  <2> QED
    BY <2>2 DEF Changes, Account
<1>8. next + 1 \in Nat
  BY <1>1
<1> QED
  BY <1>2, <1>3, <1>5, <1>6, <1>7, <1>8 DEF Account

(* What is known of an item may change before it is announced.              *)
LEMMA AccountRename ==
    ASSUME NEW E, NEW closed, NEW next, NEW created, NEW f, Account(E, closed, next, created, f),
           NEW g, NEW p, Changes(f, g, p), ~f[p].added, g[p] \in Slots, g[p].out = f[p].out, ~g[p].added
    PROVE  Account(E, closed, next, created, g)
<1>1. DOMAIN g = DOMAIN f /\ \A q \in DOMAIN g : g[q] \in Slots /\ g[q].out = f[q].out
  BY DEF Account, Changes
<1>2. {g[q].out : q \in DOMAIN g} = {f[q].out : q \in DOMAIN f}
  BY <1>1
<1>3. \A q \in DOMAIN g : g[q].out # None => SlotFits(E, g[q])
  <2>1. f[p].out # None => SlotFits(E, f[p])
    BY DEF Changes, Account
  <2>2. g[p].out # None => SlotFits(E, g[p])
    BY <2>1 DEF SlotFits
  <2> QED
    BY <2>2 DEF Changes, Account
<1> QED
  BY <1>1, <1>2, <1>3 DEF Account

(* An item is announced: nothing was sent about it.                         *)
LEMMA AccountAnnounce ==
    ASSUME NEW E, NEW closed, NEW next, NEW f, Account(E, closed, next, TRUE, f),
           NEW g, NEW p, Changes(f, g, p), f[p].out # None, ~f[p].added,
           g[p] \in Slots, g[p].out = f[p].out, g[p].added, TextFits(<<>>, g[p].item, g[p].text)
    PROVE  Account(Append(E, Event("added", f[p].out, g[p].item, <<>>)), closed, next, TRUE, g)
<1> DEFINE e == Event("added", f[p].out, g[p].item, <<>>)
           n == f[p].out
<1>0. /\ E \in Seq(Events) /\ p \in DOMAIN f
      /\ f[p] \in Slots /\ f[p].out \in Positions /\ g[p].item \in Items /\ g[p].text \in Texts
  BY DEF Account, Changes, Slots
<1>1. e \in Events /\ e.type = "added" /\ e.index = n /\ e.item = g[p].item
  <2>1. "added" \in Types /\ <<>> \in Texts /\ g[p].item \in Items \cup {None}
    <3>1. "added" \in Types
      BY DEF Types
    <3>2. <<>> \in Texts
      BY DEF Texts
    <3>3. g[p].item \in Items \cup {None}
      BY <1>0
    <3> QED
      BY <3>1, <3>2, <3>3
  <2> QED
    BY <1>0, <2>1, EventType
<1> HIDE DEF e
<1>2. n \in 0 .. next - 1 /\ \A k \in DOMAIN E : E[k].index # n
  BY <1>0 DEF Account, SlotFits
<1>3. n \notin AnnouncedIn(E) /\ n \notin ClosedIn(E)
  BY <1>2 DEF AnnouncedIn, ClosedIn, OfType
<1>4. MayFollow(E, e)
  <2>1. n # None /\ "added" \notin Terminal \cup {"created"} /\ "added" \notin SayTypes
    BY DEF Terminal, SayTypes
  <2> QED
    BY <1>1, <1>3, <2>1 DEF MayFollow, Account
<1>5. SlotFits(Append(E, e), g[p])
  <2> DEFINE F == Append(E, e)
  <2>1. DeltaText(E, n) = <<>>
    <3>1. DOMAIN E = 1..Len(E)
      BY <1>0, <1>1, Appended
    <3>2. \A k \in 1..Len(E) : ~Adds(E[k], n)
      BY <1>2, <3>1 DEF Adds
    <3> QED
      BY <1>0, <3>2, DeltaTextEmpty
  <2>2. DeltaText(F, n) = <<>>
    BY <1>0, <1>1, <2>1, DeltaTextAppend DEF Adds, DeltaTypes
  <2>3. IsAnnounced(F, n, g[p].item)
    <3>1. Len(E) + 1 \in DOMAIN F /\ F[Len(E) + 1] = e
      BY <1>0, <1>1, Appended
    <3> QED
      BY <1>1, <3>1 DEF IsAnnounced, OfType
  <2> QED
    BY <2>2, <2>3 DEF SlotFits
<1>6. e.type \notin Terminal /\ e.type # "item.done" /\ e.type # "created"
  BY <1>1 DEF Terminal
<1>7. \A q \in DOMAIN f : /\ g[q] \in Slots /\ g[q].out = f[q].out
                          /\ f[q].out = None \/ f[q].out # e.index => g[q] = f[q]
                          /\ f[q].out # None /\ f[q].out = e.index => SlotFits(Append(E, e), g[q])
  <2>1. \A q \in DOMAIN f : q # p => f[q].out # n
    BY <1>0 DEF Account
  <2> QED
    BY <1>1, <1>5, <2>1 DEF Changes, Account
<1>8. Account(Append(E, e), IF e.type = "item.done" THEN closed \cup {e.index} ELSE closed, next, TRUE, g)
  <2>1. DOMAIN g = DOMAIN f
    BY DEF Changes
  <2>2. IF e.type = "created" THEN e.index = None ELSE e.index \in 0 .. next - 1
    BY <1>1, <1>2, <1>6
  <2>3. e \in Events /\ MayFollow(E, e) /\ e.type \notin Terminal
    BY <1>1, <1>4, <1>6
  <2> HIDE DEF n
  <2> QED
    BY <1>7, <2>1, <2>2, <2>3, AccountEvent, Zenon
<1> QED
  BY <1>6, <1>8 DEF e

(* An open item: it was announced, and is not closed.                       *)
LEMMA OpenItem ==
    ASSUME NEW E, NEW closed, NEW next, NEW created, NEW f, Account(E, closed, next, created, f),
           NEW p \in DOMAIN f, f[p].out # None, f[p].added, f[p].out \notin closed
    PROVE  /\ E \in Seq(Events) /\ E # <<>>
           /\ f[p].out \in 0 .. next - 1 /\ f[p].out \in AnnouncedIn(E) /\ f[p].out \notin ClosedIn(E)
           /\ IsAnnounced(E, f[p].out, f[p].item)
           /\ TextFits(DeltaText(E, f[p].out), f[p].item, f[p].text)
           /\ f[p] \in Slots
           /\ \A q \in DOMAIN f : f[q].out = f[p].out => q = p
<1>1. SlotFits(E, f[p])
  BY DEF Account
<1>2. /\ IsAnnounced(E, f[p].out, f[p].item)
      /\ TextFits(DeltaText(E, f[p].out), f[p].item, f[p].text)
  BY <1>1 DEF SlotFits, Account
<1>3. f[p].out \in AnnouncedIn(E)
  BY <1>2 DEF IsAnnounced, AnnouncedIn
<1>4. E # <<>>
  <2>1. E = <<>> => DOMAIN E = {}
    BY EmptySeq DEF Account
  <2> QED
    BY <1>3, <2>1 DEF AnnouncedIn, OfType
<1> QED
  BY <1>2, <1>3, <1>4 DEF Account

(* A fragment for an open item.                                             *)
LEMMA AccountDelta ==
    ASSUME NEW E, NEW closed, NEW next, NEW f, Account(E, closed, next, TRUE, f),
           NEW g, NEW p, Changes(f, g, p), f[p].out # None, f[p].added, f[p].out \notin closed,
           NEW x \in Fragments, g[p] \in Slots, g[p].added,
           g[p].out = f[p].out, g[p].item = f[p].item, g[p].text = Append(f[p].text, x),
           NEW type \in DeltaTypes
    PROVE  Account(Append(E, Event(type, f[p].out, f[p].item, <<x>>)), closed, next, TRUE, g)
<1> DEFINE e == Event(type, f[p].out, f[p].item, <<x>>)
           n == f[p].out
<1>0. p \in DOMAIN f
  BY DEF Changes
<1>1. /\ E \in Seq(Events) /\ E # <<>>
      /\ n \in 0 .. next - 1 /\ n \in AnnouncedIn(E) /\ n \notin ClosedIn(E)
      /\ IsAnnounced(E, n, f[p].item) /\ TextFits(DeltaText(E, n), f[p].item, f[p].text)
      /\ f[p] \in Slots
      /\ \A q \in DOMAIN f : f[q].out = n => q = p
  <2>1. Account(E, closed, next, TRUE, f) /\ f[p].out # None /\ f[p].added /\ f[p].out \notin closed
    OBVIOUS
  <2> QED
    BY ONLY <1>0, <2>1, OpenItem
<1>2. f[p].out \in Positions /\ f[p].item \in Items /\ f[p].text \in Texts
  BY <1>1 DEF Slots
<1>3. e \in Events /\ e.type = type /\ e.index = n /\ e.item = f[p].item /\ e.text = <<x>>
  <2>1. type \in Types /\ f[p].item \in Items \cup {None} /\ <<x>> \in Texts
    BY <1>2 DEF DeltaTypes, Types, Texts
  <2> QED
    BY <1>2, <2>1, EventType
<1> HIDE DEF e
<1>4. type \notin Terminal /\ type # "created" /\ type # "added" /\ type # "item.done" /\ type \notin SayTypes
  BY DEF DeltaTypes, Terminal, SayTypes
<1>5. MayFollow(E, e)
  <2>1. n # None
    OBVIOUS
  <2> QED
    BY <1>1, <1>3, <1>4, <2>1 DEF MayFollow, Account, DeltaTypes
<1>6. g[p] \in Slots /\ g[p].out = n /\ g[p].added /\ g[p].item = f[p].item /\ g[p].text = Append(f[p].text, x)
  OBVIOUS
<1>7. SlotFits(Append(E, e), g[p])
  <2> DEFINE F == Append(E, e)
             d == DeltaText(E, n)
  <2>1. d \in Texts /\ DeltaText(F, n) = d \o <<x>>
    BY <1>1, <1>3, DeltaTextAppend DEF Adds
  <2>2. d \o <<x>> = Append(d, x)
    BY <2>1 DEF Texts
  <2>3. IsAnnounced(F, n, g[p].item)
    <3>1. PICK j \in OfType(E, "added") : E[j].index = n /\ E[j].item = f[p].item
      BY <1>1 DEF IsAnnounced
    <3>2. j \in DOMAIN F /\ F[j] = E[j] /\ E[j].type = "added"
      BY <1>1, <1>3, Appended DEF OfType
    <3> QED
      BY <1>6, <3>1, <3>2 DEF IsAnnounced, OfType
  <2>4. TextFits(Append(d, x), g[p].item, g[p].text)
    BY <1>1, <1>2, <1>6, <2>1, SuffixAppended DEF TextFits
  <2> QED
    BY <1>6, <2>1, <2>2, <2>3, <2>4 DEF SlotFits
<1>8. \A q \in DOMAIN f : /\ g[q] \in Slots /\ g[q].out = f[q].out
                          /\ f[q].out = None \/ f[q].out # e.index => g[q] = f[q]
                          /\ f[q].out # None /\ f[q].out = e.index => SlotFits(Append(E, e), g[q])
  BY <1>1, <1>3, <1>6, <1>7 DEF Changes, Account
<1>9. Account(Append(E, e), IF e.type = "item.done" THEN closed \cup {e.index} ELSE closed, next, TRUE, g)
  <2>1. DOMAIN g = DOMAIN f
    BY DEF Changes
  <2>2. IF e.type = "created" THEN e.index = None ELSE e.index \in 0 .. next - 1
    BY <1>1, <1>3, <1>4
  <2>3. e \in Events /\ MayFollow(E, e) /\ e.type \notin Terminal
    BY <1>3, <1>4, <1>5
  <2> HIDE DEF n
  <2> QED
    BY <1>8, <2>1, <2>2, <2>3, AccountEvent, Zenon
<1> QED
  BY <1>3, <1>4, <1>9 DEF e

(* What is said of the text of an item.                                     *)
Says(type, item, text, said) ==
    IF type = "reasoning.done" THEN item = ReasoningItem /\ said = Joined(text) ELSE said = text

(* The final text of an open item, and the end of the item.                 *)
LEMMA AccountClose ==
    ASSUME NEW E, NEW closed, NEW next, NEW f, Account(E, closed, next, TRUE, f),
           NEW p \in DOMAIN f, f[p].out # None, f[p].added, f[p].out \notin closed,
           NEW type \in SayTypes, NEW said \in Texts, Says(type, f[p].item, f[p].text, said)
    PROVE  LET n == f[p].out
               F == Append(E, Event(type, n, f[p].item, said))
           IN Account(Append(F, Event("item.done", n, f[p].item, f[p].text)), closed \cup {n}, next, TRUE, f)
<1> DEFINE n == f[p].out
           d == Event(type, n, f[p].item, said)
           e == Event("item.done", n, f[p].item, f[p].text)
           F == Append(E, d)
<1>1. /\ E \in Seq(Events) /\ E # <<>>
      /\ n \in 0 .. next - 1 /\ n \in AnnouncedIn(E) /\ n \notin ClosedIn(E)
      /\ IsAnnounced(E, n, f[p].item) /\ TextFits(DeltaText(E, n), f[p].item, f[p].text)
      /\ f[p] \in Slots
      /\ \A q \in DOMAIN f : f[q].out = n => q = p
  BY OpenItem
<1>2. f[p].out \in Positions /\ f[p].item \in Items /\ f[p].text \in Texts
  BY <1>1 DEF Slots
<1>3. /\ d \in Events /\ d.type = type /\ d.index = n /\ d.item = f[p].item /\ d.text = said
      /\ e \in Events /\ e.type = "item.done" /\ e.index = n /\ e.item = f[p].item /\ e.text = f[p].text
  <2>1. type \in Types /\ "item.done" \in Types /\ f[p].item \in Items \cup {None}
    BY <1>2 DEF Types, SayTypes
  <2> QED
    BY <1>2, <2>1, EventType
<1> HIDE DEF d, e
<1>4. type \notin Terminal /\ type # "created" /\ type # "added" /\ type # "item.done" /\ type \notin DeltaTypes
  BY DEF DeltaTypes, Terminal, SayTypes
<1>s. SaidFits(DeltaText(E, n), d)
  <2>1. CASE type = "reasoning.done"
    <3>1. f[p].item = ReasoningItem /\ said = Joined(f[p].text)
      BY <2>1 DEF Says
    <3>2. DeltaText(E, n) = f[p].text
      BY <1>1, <3>1 DEF TextFits, ReasoningItem
    <3> QED
      BY <1>3, <2>1, <3>1, <3>2 DEF SaidFits
  <2>2. CASE type # "reasoning.done"
    <3>1. said = f[p].text
      BY <2>2 DEF Says
    <3> QED
      BY <1>1, <1>3, <2>2, <3>1 DEF SaidFits
  <2> QED
    BY <2>1, <2>2
<1>5. MayFollow(E, d)
  <2>1. n # None
    OBVIOUS
  <2> QED
    BY <1>1, <1>3, <1>4, <1>s, <2>1 DEF MayFollow, Account, Terminal
<1>6. /\ DeltaText(F, n) = DeltaText(E, n)
      /\ IsAnnounced(F, n, f[p].item)
  <2>1. DeltaText(F, n) = DeltaText(E, n)
    BY <1>1, <1>3, <1>4, DeltaTextAppend DEF Adds
  <2>2. PICK j \in OfType(E, "added") : E[j].index = n /\ E[j].item = f[p].item
    BY <1>1 DEF IsAnnounced
  <2>3. j \in DOMAIN F /\ F[j] = E[j] /\ E[j].type = "added"
    BY <1>1, <1>3, <2>2, Appended DEF OfType
  <2> QED
    BY <2>1, <2>2, <2>3 DEF IsAnnounced, OfType
<1>7. Account(F, closed, next, TRUE, f)
  <2>1. SlotFits(F, f[p])
    BY <1>1, <1>6 DEF SlotFits
  <2>2. \A q \in DOMAIN f : /\ f[q] \in Slots /\ f[q].out = f[q].out
                            /\ f[q].out = None \/ f[q].out # d.index => f[q] = f[q]
                            /\ f[q].out # None /\ f[q].out = d.index => SlotFits(Append(E, d), f[q])
    BY <1>1, <1>3, <2>1 DEF Account
  <2>3. IF d.type = "created" THEN d.index = None ELSE d.index \in 0 .. next - 1
    BY <1>1, <1>3, <1>4
  <2>4. d \in Events /\ MayFollow(E, d) /\ d.type \notin Terminal
    BY <1>3, <1>4, <1>5
  <2>5. Account(F, IF d.type = "item.done" THEN closed \cup {d.index} ELSE closed, next, TRUE, f)
    <3> HIDE DEF n
    <3> QED
      BY <2>2, <2>3, <2>4, AccountEvent, Zenon
  <2> QED
    BY <1>3, <1>4, <2>5
<1>8. f[p].out = n /\ n # None
  OBVIOUS
<1> HIDE DEF F
<1>9. /\ F \in Seq(Events) /\ F # <<>> /\ n \in AnnouncedIn(F) /\ n \notin ClosedIn(F)
  <2>1. n \notin closed
    OBVIOUS
  <2> QED
    BY <1>7, <1>8, <2>1, OpenItem
<1>10. MayFollow(F, e)
  BY <1>1, <1>3, <1>6, <1>7, <1>8, <1>9 DEF MayFollow, Account, Terminal, SayTypes
<1>11. SlotFits(Append(F, e), f[p])
  <2>1. n \in ClosedIn(Append(F, e))
    <3>1. Len(F) + 1 \in DOMAIN Append(F, e) /\ Append(F, e)[Len(F) + 1] = e
      BY <1>3, <1>9, Appended
    <3> QED
      BY <1>3, <3>1 DEF ClosedIn, OfType
  <2> QED
    BY <1>8, <2>1 DEF SlotFits
<1>12. Account(Append(F, e), IF e.type = "item.done" THEN closed \cup {e.index} ELSE closed, next, TRUE, f)
  <2>1. \A q \in DOMAIN f : /\ f[q] \in Slots /\ f[q].out = f[q].out
                            /\ f[q].out = None \/ f[q].out # e.index => f[q] = f[q]
                            /\ f[q].out # None /\ f[q].out = e.index => SlotFits(Append(F, e), f[q])
    BY <1>1, <1>3, <1>11 DEF Account
  <2>2. IF e.type = "created" THEN e.index = None ELSE e.index \in 0 .. next - 1
    BY <1>1, <1>3
  <2>3. e \in Events /\ MayFollow(F, e) /\ e.type \notin Terminal
    BY <1>3, <1>10 DEF Terminal
  <2> HIDE DEF n
  <2> QED
    BY <1>7, <2>1, <2>2, <2>3, AccountEvent, Zenon
<1> QED
  BY <1>3, <1>12 DEF e, d, F

-----------------------------------------------------------------------------
(* The steps of the converter stay within its type and change these fields. *)

(* What the steps for a tool call leave alone.                              *)
Others(r, s) ==
    /\ r.reasoning = s.reasoning /\ r.reasoningIndex = s.reasoningIndex
    /\ r.text = s.text /\ r.messageIndex = s.messageIndex
    /\ r.pending = s.pending /\ r.completed = s.completed /\ r.refused = s.refused

(* The types of the fields of a converter.                                  *)
LEMMA Fields ==
    ASSUME NEW s \in Converters
    PROVE  /\ s.created \in BOOLEAN /\ s.reasoning \in Texts /\ s.reasoningIndex \in Positions
           /\ s.text \in Texts /\ s.messageIndex \in Positions
           /\ s.tools \in [Indices -> Tools] /\ s.next \in Nat /\ s.next \in Positions
           /\ s.pending \in {None, "completed", "incomplete"}
           /\ s.completed \in BOOLEAN /\ s.refused \in BOOLEAN /\ s.out \in Seq(Events)
BY DEF Converters, Positions

(* The types of the fields of what is known of a call.                      *)
LEMMA ToolFields ==
    ASSUME NEW t \in Tools
    PROVE  /\ t.out \in Positions /\ t.id \in Ids /\ t.name \in Names /\ t.args \in Texts /\ t.added \in BOOLEAN
           /\ CallItem(t) \in Items
BY DEF Tools, CallItem, Items

(* The reasoning and the message are items.                                 *)
LEMMA OtherItems == ReasoningItem \in Items /\ MessageItem \in Items
BY DEF ReasoningItem, MessageItem, Items, Ids, Names

(* Emit adds its events and changes nothing else.                           *)
LEMMA Emitted ==
    ASSUME NEW s \in Converters, NEW es \in Seq(Events)
    PROVE  LET r == Emit(s, es) IN
           /\ r \in Converters /\ r.out = s.out \o es
           /\ Others(r, s) /\ r.created = s.created /\ r.tools = s.tools /\ r.next = s.next
<1>1. s.out \o es \in Seq(Events)
  BY Fields, ConcatProperties
<1> QED
  BY <1>1 DEF Emit, Converters, Others

(* _created_events sends response.created the first time and changes        *)
(* nothing else.                                                            *)
LEMMA CreatedType ==
    ASSUME NEW s \in Converters
    PROVE  LET r == Created(s) IN
           /\ r \in Converters /\ r.created
           /\ r.out = IF s.created THEN s.out ELSE Append(s.out, Event("created", None, None, <<>>))
           /\ Others(r, s) /\ r.tools = s.tools /\ r.next = s.next
<1>1. CASE s.created
  BY <1>1 DEF Created, Others
<1>2. CASE ~s.created
  <2> DEFINE a == [s EXCEPT !.created = TRUE]
             e == Event("created", None, None, <<>>)
  <2>1. a \in Converters /\ a.created /\ a.out = s.out /\ Others(a, s) /\ a.tools = s.tools /\ a.next = s.next
    BY DEF Converters, Others
  <2>2. e \in Events
    <3>1. "created" \in Types /\ None \in Positions /\ None \in Items \cup {None} /\ <<>> \in Texts
      BY DEF Types, Positions, Texts
    <3> QED
      BY <3>1, EventType
  <2>3. Created(s) = Emit(a, <<e>>)
    BY <1>2 DEF Created
  <2> HIDE DEF a, e
  <2>4. <<e>> \in Seq(Events) /\ a.out \o <<e>> = Append(a.out, e)
    BY <2>1, <2>2, Fields
  <2>5. LET r == Emit(a, <<e>>) IN
        /\ r \in Converters /\ r.out = a.out \o <<e>>
        /\ Others(r, a) /\ r.created = a.created /\ r.tools = a.tools /\ r.next = a.next
    BY <2>1, <2>4, Emitted
  <2> QED
    BY <1>2, <2>1, <2>3, <2>4, <2>5 DEF Others, e
<1> QED
  BY <1>1, <1>2

(* An index for a tool call that has none.                                  *)
LEMMA WithToolStateType ==
    ASSUME NEW s \in Converters, NEW i \in Indices
    PROVE  LET r == WithToolState(s, i)
               t == s.tools[i]
           IN
           /\ r \in Converters /\ r.created = s.created /\ r.out = s.out /\ Others(r, s)
           /\ t.out # None => r = s
           /\ t.out = None => /\ r.next = s.next + 1
                              /\ r.tools = [s.tools EXCEPT ![i] = [t EXCEPT !.out = s.next]]
           /\ r.tools[i] = IF t.out = None THEN [t EXCEPT !.out = s.next] ELSE t
           /\ r.tools[i] \in Tools /\ r.tools[i].out # None
<1> DEFINE t == s.tools[i]
<1>1. t \in Tools /\ s.tools \in [Indices -> Tools] /\ s.next \in Positions /\ s.next \in Nat /\ s.next # None
  BY Fields, NoneAssumption
<1>2. CASE t.out # None
  BY <1>1, <1>2 DEF WithToolState, Others
<1>3. CASE t.out = None
  <2> DEFINE u == [t EXCEPT !.out = s.next]
             r == WithToolState(s, i)
  <2>1. u \in Tools /\ u.out # None
    BY <1>1 DEF Tools
  <2>2. r = [s EXCEPT !.tools[i].out = s.next, !.next = s.next + 1]
    BY <1>3 DEF WithToolState
  <2>3. r.tools = [s.tools EXCEPT ![i] = u] /\ r.next = s.next + 1
    BY <2>2 DEF Converters
  <2>4. r.created = s.created /\ r.out = s.out /\ Others(r, s)
    BY <2>2 DEF Converters, Others
  <2>5. r.tools \in [Indices -> Tools] /\ r.tools[i] = u
    BY <1>1, <2>1, <2>3
  <2>6. r \in Converters
    <3>1. r = [s EXCEPT !.tools = r.tools, !.next = r.next]
      BY <2>2 DEF Converters
    <3>2. r.next \in Nat
      BY <1>1, <2>3
    <3> HIDE DEF r
    <3> QED
      BY <2>5, <3>1, <3>2 DEF Converters
  <2> QED
    BY <1>3, <2>1, <2>3, <2>4, <2>5, <2>6
<1> QED
  BY <1>2, <1>3

(* Whether _tool_added_events announces the item.                           *)
Announces(t) == ~t.added /\ t.id # None /\ t.name # None

(* _tool_added_events sends response.created, if it is due, and announces a *)
(* call whose id and name are known.                                        *)
LEMMA ToolAddedType ==
    ASSUME NEW s \in Converters, NEW i \in Indices
    PROVE  LET r == ToolAdded(s, i)
               t == s.tools[i]
               u == [t EXCEPT !.added = TRUE]
           IN
           /\ r \in Converters /\ Others(r, s) /\ r.next = s.next /\ u \in Tools
           /\ ~Announces(t) => r = s
           /\ Announces(t) => /\ r.created /\ r.tools = [s.tools EXCEPT ![i] = u] /\ r.tools[i] = u
                              /\ Event("added", t.out, CallItem(t), <<>>) \in Events
                              /\ r.out = Append(Created(s).out, Event("added", t.out, CallItem(t), <<>>))
<1> DEFINE t == s.tools[i]
           u == [t EXCEPT !.added = TRUE]
           c == Created(s)
           a == [c EXCEPT !.tools[i].added = TRUE]
           e == Event("added", t.out, CallItem(t), <<>>)
<1>1. t \in Tools /\ s.tools \in [Indices -> Tools]
  BY Fields
<1>2. u \in Tools
  BY <1>1 DEF Tools
<1>3. CASE ~Announces(t)
  BY <1>2, <1>3 DEF ToolAdded, Others, Announces
<1>4. CASE Announces(t)
  <2>1. c \in Converters /\ c.created /\ Others(c, s) /\ c.tools = s.tools /\ c.next = s.next
    BY CreatedType
  <2> HIDE DEF c
  <2>2. a = [c EXCEPT !.tools[i] = u]
    BY <1>1, <2>1 DEF Converters
  <2>3. /\ a \in Converters /\ a.created = c.created /\ a.out = c.out /\ a.next = c.next
        /\ Others(a, c) /\ a.tools = [c.tools EXCEPT ![i] = u]
    <3> HIDE DEF a, u
    <3> QED
      BY <1>2, <2>1, <2>2 DEF Converters, Others
  <2>4. e \in Events
    <3>1. "added" \in Types /\ <<>> \in Texts /\ t.out \in Positions /\ CallItem(t) \in Items \cup {None}
      BY <1>1, ToolFields DEF Types, Texts
    <3> QED
      BY <3>1, EventType
  <2>5. ToolAdded(s, i) = Emit(a, <<e>>)
    BY <1>4 DEF ToolAdded, Announces, c
  <2> HIDE DEF a, e
  <2>6. <<e>> \in Seq(Events) /\ a.out \o <<e>> = Append(a.out, e)
    BY <2>3, <2>4, Fields
  <2>7. LET r == Emit(a, <<e>>) IN
        /\ r \in Converters /\ r.out = a.out \o <<e>>
        /\ Others(r, a) /\ r.created = a.created /\ r.tools = a.tools /\ r.next = a.next
    BY <2>3, <2>6, Emitted
  <2>8. [s.tools EXCEPT ![i] = u][i] = u
    BY <1>1
  <2>9. /\ ToolAdded(s, i) \in Converters /\ Others(ToolAdded(s, i), s) /\ ToolAdded(s, i).next = s.next
        /\ ToolAdded(s, i).created
    BY <2>1, <2>3, <2>5, <2>7 DEF Others
  <2>10. ToolAdded(s, i).tools = [s.tools EXCEPT ![i] = u] /\ ToolAdded(s, i).out = Append(c.out, e)
    BY <2>1, <2>3, <2>5, <2>6, <2>7
  <2> QED
    BY <1>2, <1>4, <2>4, <2>8, <2>9, <2>10 DEF e, c
<1> QED
  BY <1>3, <1>4

(* The call, announced.                                                     *)
Added(t) == [t EXCEPT !.added = TRUE]

(* The same, for a call and a result that have a name.                      *)
LEMMA ToolAddedOf ==
    ASSUME NEW s \in Converters, NEW i \in Indices, NEW t, t = s.tools[i], NEW r, r = ToolAdded(s, i)
    PROVE  /\ r \in Converters /\ Others(r, s) /\ r.next = s.next
           /\ ~Announces(t) => r = s
           /\ Announces(t) => /\ r.created /\ r.tools = [s.tools EXCEPT ![i] = Added(t)]
                              /\ r.tools[i] = Added(t) /\ Added(t) \in Tools
                              /\ r.out = Append(Created(s).out, Event("added", t.out, CallItem(t), <<>>))
BY ToolAddedType DEF Added

-----------------------------------------------------------------------------
(* The slots of a converter, and the account that it keeps of its stream.   *)

(* The keys of the slots: the reasoning, the message, and a call by its     *)
(* position.                                                                *)
RKey == <<"reasoning", 0>>
MKey == <<"message", 0>>
CKey(i) == <<"call", i>>
Keys == {RKey, MKey} \cup {CKey(i) : i \in Indices}

Slot(out, item, text, added) == [out |-> out, item |-> item, text |-> text, added |-> added]
CallSlot(t) == Slot(t.out, CallItem(t), t.args, t.added)

(* The slots of a converter: the reasoning and the message are announced    *)
(* when they take their index, a call when its id and its name are known.   *)
SlotsOf(s) ==
    [p \in Keys |-> IF p = RKey THEN Slot(s.reasoningIndex, ReasoningItem, s.reasoning, s.reasoningIndex # None)
                    ELSE IF p = MKey THEN Slot(s.messageIndex, MessageItem, s.text, s.messageIndex # None)
                    ELSE CallSlot(s.tools[p[2]])]

(* A text has an item, and an announced call has its id and its name.       *)
Coherent(s) ==
    /\ s.reasoningIndex = None => s.reasoning = <<>>
    /\ s.messageIndex = None => s.text = <<>>
    /\ \A i \in Indices : LET t == s.tools[i] IN
          /\ t.out = None => ~t.added
          /\ t.added => t.id # None /\ t.name # None

(* After P the converter has sent s.out, and closed these items.            *)
Tracks(P, closed, s) ==
    /\ s \in Converters /\ Coherent(s)
    /\ Account(P \o s.out, closed, s.next, s.created, SlotsOf(s))

(* A slot has the fields it is made of.                                     *)
LEMMA SlotFields ==
    ASSUME NEW out \in Positions, NEW item \in Items, NEW text \in Texts, NEW added \in BOOLEAN
    PROVE  LET t == Slot(out, item, text, added) IN
           t \in Slots /\ t.out = out /\ t.item = item /\ t.text = text /\ t.added = added
BY DEF Slot, Slots

(* The reasoning, the message and the calls have slots of their own, and    *)
(* there are no others.                                                     *)
LEMMA KeysDiffer ==
    /\ RKey # MKey /\ RKey \in Keys /\ MKey \in Keys
    /\ \A i \in Indices : CKey(i) \in Keys /\ CKey(i) # RKey /\ CKey(i) # MKey /\ CKey(i)[2] = i
    /\ \A i, j \in Indices : CKey(i) = CKey(j) => i = j
    /\ \A p \in Keys : p = RKey \/ p = MKey \/ \E i \in Indices : p = CKey(i)
BY DEF RKey, MKey, CKey, Keys

(* The slots of a converter, one by one.                                    *)
LEMMA SlotsAt ==
    ASSUME NEW s \in Converters
    PROVE  /\ DOMAIN SlotsOf(s) = Keys
           /\ SlotsOf(s)[RKey] = Slot(s.reasoningIndex, ReasoningItem, s.reasoning, s.reasoningIndex # None)
           /\ SlotsOf(s)[MKey] = Slot(s.messageIndex, MessageItem, s.text, s.messageIndex # None)
           /\ \A i \in Indices : SlotsOf(s)[CKey(i)] = CallSlot(s.tools[i])
           /\ \A i \in Indices : CallSlot(s.tools[i]) \in Slots
<1>1. \A i \in Indices : CallSlot(s.tools[i]) \in Slots
  <2> SUFFICES ASSUME NEW i \in Indices PROVE CallSlot(s.tools[i]) \in Slots
    OBVIOUS
  <2>1. s.tools[i] \in Tools
    BY Fields
  <2> QED
    BY <2>1, ToolFields, SlotFields DEF CallSlot
<1> QED
  BY <1>1, KeysDiffer DEF SlotsOf

(* The slot of a call.                                                      *)
LEMMA CallSlotFields ==
    ASSUME NEW t \in Tools
    PROVE  /\ CallSlot(t) \in Slots /\ CallSlot(t).out = t.out /\ CallSlot(t).item = CallItem(t)
           /\ CallSlot(t).text = t.args /\ CallSlot(t).added = t.added
<1>1. /\ t.out \in Positions /\ t.args \in Texts /\ t.added \in BOOLEAN
      /\ CallItem(t) \in Items
  BY ToolFields
<1> QED
  BY <1>1, SlotFields DEF CallSlot

(* The slots depend on nothing else.                                        *)
LEMMA SameSlots ==
    ASSUME NEW s, NEW r, Others(r, s), r.tools = s.tools
    PROVE  SlotsOf(r) = SlotsOf(s) /\ (Coherent(s) => Coherent(r))
BY DEF SlotsOf, Others, Coherent

(* One call changes.                                                        *)
LEMMA CallChanges ==
    ASSUME NEW s \in Converters, NEW r \in Converters, Others(r, s),
           NEW i \in Indices, NEW t, r.tools = [s.tools EXCEPT ![i] = t]
    PROVE  Changes(SlotsOf(s), SlotsOf(r), CKey(i)) /\ SlotsOf(r)[CKey(i)] = CallSlot(t)
<1>1. \A j \in Indices : r.tools[j] = IF j = i THEN t ELSE s.tools[j]
  BY Fields
<1>2. SlotsOf(r)[RKey] = SlotsOf(s)[RKey] /\ SlotsOf(r)[MKey] = SlotsOf(s)[MKey]
  BY SlotsAt DEF Others
<1>3. \A j \in Indices : j # i => SlotsOf(r)[CKey(j)] = SlotsOf(s)[CKey(j)]
  <2> SUFFICES ASSUME NEW j \in Indices, j # i PROVE SlotsOf(r)[CKey(j)] = SlotsOf(s)[CKey(j)]
    OBVIOUS
  <2>1. SlotsOf(r)[CKey(j)] = CallSlot(r.tools[j]) /\ SlotsOf(s)[CKey(j)] = CallSlot(s.tools[j])
    BY SlotsAt
  <2>2. r.tools[j] = s.tools[j]
    BY <1>1
  <2> QED
    BY <2>1, <2>2
<1>4. SlotsOf(r)[CKey(i)] = CallSlot(t)
  BY <1>1, SlotsAt
<1>5. DOMAIN SlotsOf(s) = Keys /\ DOMAIN SlotsOf(r) = Keys
  BY SlotsAt
<1>6. ASSUME NEW q \in Keys \ {CKey(i)} PROVE SlotsOf(r)[q] = SlotsOf(s)[q]
  BY <1>2, <1>3, KeysDiffer
<1> QED
  BY <1>4, <1>5, <1>6, KeysDiffer DEF Changes

(* After response.created the converter still keeps the account.            *)
LEMMA CreatedTracks ==
    ASSUME NEW P \in Seq(Events), NEW closed, NEW s, Tracks(P, closed, s)
    PROVE  Tracks(P, closed, Created(s)) /\ Created(s).created
<1> DEFINE r == Created(s)
           e == Event("created", None, None, <<>>)
<1>0. s \in Converters
  BY DEF Tracks
<1>1. /\ r \in Converters /\ r.created
      /\ r.out = IF s.created THEN s.out ELSE Append(s.out, e)
      /\ Others(r, s) /\ r.tools = s.tools /\ r.next = s.next
  BY <1>0, CreatedType
<1>2. CASE s.created
  BY <1>1, <1>2 DEF Created
<1>3. CASE ~s.created
  <2>1. e \in Events
    <3>1. "created" \in Types /\ None \in Positions /\ None \in Items \cup {None} /\ <<>> \in Texts
      BY DEF Types, Positions, Texts
    <3> QED
      BY <3>1, EventType
  <2>2. SlotsOf(r) = SlotsOf(s) /\ Coherent(r)
    BY <1>1, SameSlots DEF Tracks
  <2>3. P \o r.out = Append(P \o s.out, e)
    BY <1>0, <1>1, <1>3, <2>1, Fields, ConcatAppend
  <2>4. Account(P \o s.out, closed, s.next, FALSE, SlotsOf(s))
    BY <1>0, <1>3, Fields DEF Tracks
  <2>5. Account(Append(P \o s.out, e), closed, s.next, TRUE, SlotsOf(s))
    BY <2>4, AccountCreated
  <2>6. r.created = TRUE
    BY <1>1, Fields
  <2> HIDE DEF r, e
  <2>7. Tracks(P, closed, r)
    BY <1>1, <2>2, <2>3, <2>5, <2>6 DEF Tracks
  <2> QED
    BY <1>1, <2>7 DEF r
<1> QED
  BY <1>1, <1>2, <1>3 DEF r

(* A call takes the next index, and the converter still keeps the account.  *)
LEMMA WithToolStateTracks ==
    ASSUME NEW P \in Seq(Events), NEW closed, NEW s, Tracks(P, closed, s), NEW i \in Indices
    PROVE  Tracks(P, closed, WithToolState(s, i))
<1> DEFINE r == WithToolState(s, i)
           t == s.tools[i]
           u == [t EXCEPT !.out = s.next]
<1>0. s \in Converters
  BY DEF Tracks
<1>1. /\ r \in Converters /\ r.created = s.created /\ r.out = s.out /\ Others(r, s)
      /\ t.out # None => r = s
      /\ t.out = None => r.next = s.next + 1 /\ r.tools = [s.tools EXCEPT ![i] = u]
      /\ r.tools[i] = (IF t.out = None THEN u ELSE t) /\ r.tools[i] \in Tools
  BY <1>0, WithToolStateType
<1>2. CASE t.out # None
  BY <1>1, <1>2
<1>3. CASE t.out = None
  <2>1. t \in Tools /\ ~t.added
    BY <1>0, <1>3, Fields DEF Tracks, Coherent
  <2>2. u \in Tools /\ u.out = s.next /\ ~u.added
    BY <1>1, <1>3, <2>1 DEF Tools
  <2> HIDE DEF r, u
  <2>3. Changes(SlotsOf(s), SlotsOf(r), CKey(i)) /\ SlotsOf(r)[CKey(i)] = CallSlot(u)
    BY <1>0, <1>1, <1>3, CallChanges
  <2>4. SlotsOf(s)[CKey(i)] = CallSlot(t) /\ CallSlot(t).out = None
    BY <1>0, <1>3, SlotsAt DEF CallSlot, Slot
  <2>5. CallSlot(u) \in Slots /\ CallSlot(u).out = s.next /\ ~CallSlot(u).added
    BY <2>2, ToolFields, SlotFields DEF CallSlot
  <2>6. Account(P \o s.out, closed, s.next + 1, s.created, SlotsOf(r))
    BY <2>3, <2>4, <2>5, AccountAllot DEF Tracks
  <2>7. Coherent(r)
    <3>1. \A j \in Indices : r.tools[j] = IF j = i THEN u ELSE s.tools[j]
      BY <1>0, <1>1, <1>3, Fields
    <3>2. u.out # None
      BY <1>0, <2>2, Fields, NoneAssumption
    <3> QED
      BY <1>1, <2>2, <3>1, <3>2 DEF Tracks, Coherent, Others
  <2>8. Tracks(P, closed, r)
    BY <1>1, <1>3, <2>6, <2>7 DEF Tracks
  <2> QED
    BY <2>8 DEF r
<1> QED
  BY <1>2, <1>3

(* Tracking does not depend on what else a converter has seen.              *)
LEMMA SameTracks ==
    ASSUME NEW P, NEW closed, NEW s, Tracks(P, closed, s), NEW r \in Converters, Others(r, s),
           r.tools = s.tools, r.next = s.next, r.created = s.created, r.out = s.out
    PROVE  Tracks(P, closed, r)
<1>1. SlotsOf(r) = SlotsOf(s) /\ Coherent(r)
  BY SameSlots DEF Tracks
<1> QED
  BY <1>1 DEF Tracks

(* A call is announced with its index and its name, and the converter still *)
(* keeps the account.                                                       *)
LEMMA ToolAddedTracks ==
    ASSUME NEW P \in Seq(Events), NEW closed, NEW s, Tracks(P, closed, s),
           NEW i \in Indices, s.tools[i].out # None
    PROVE  Tracks(P, closed, ToolAdded(s, i))
<1> DEFINE r == ToolAdded(s, i)
           c == Created(s)
           t == s.tools[i]
           u == Added(t)
           e == Event("added", t.out, CallItem(t), <<>>)
<1>0. s \in Converters
  BY DEF Tracks
<1>1. /\ r \in Converters /\ Others(r, s) /\ r.next = s.next /\ u \in Tools
      /\ ~Announces(t) => r = s
      /\ Announces(t) => /\ r.created /\ r.tools = [s.tools EXCEPT ![i] = u]
                         /\ e \in Events /\ r.out = Append(c.out, e)
  BY <1>0, ToolAddedType DEF Added
<1>2. CASE ~Announces(t)
  BY <1>1, <1>2
<1>3. CASE Announces(t)
  <2>1. Tracks(P, closed, c) /\ c.created
    BY CreatedTracks
  <2>2. c \in Converters /\ Others(c, s) /\ c.tools = s.tools /\ c.next = s.next
    BY <1>0, CreatedType
  <2>3. /\ t \in Tools /\ ~t.added /\ t.out # None /\ t.id # None /\ t.name # None
        /\ u.out = t.out /\ u.id = t.id /\ u.name = t.name /\ u.args = t.args /\ u.added
    BY <1>0, <1>3, Fields DEF Announces, Tools, Added
  <2>4. CallItem(u) = CallItem(t) /\ CallItem(u).kind = "function_call"
    BY <2>3 DEF CallItem
  <2> HIDE DEF r, c, u, e, t
  <2>5. Others(r, c)
    BY <1>1, <2>2 DEF Others
  <2>6. Changes(SlotsOf(c), SlotsOf(r), CKey(i)) /\ SlotsOf(r)[CKey(i)] = CallSlot(u)
    <3>1. r \in Converters /\ c \in Converters /\ r.tools = [c.tools EXCEPT ![i] = u]
      BY <1>1, <1>3, <2>2
    <3> QED
      BY ONLY i \in Indices, <2>5, <3>1, CallChanges
  <2>7. SlotsOf(c)[CKey(i)] = CallSlot(t)
    BY <2>2, SlotsAt DEF t
  <2>8. CallSlot(t).out = t.out /\ ~CallSlot(t).added
    BY <2>3 DEF CallSlot, Slot
  <2>9. /\ CallSlot(u) \in Slots /\ CallSlot(u).out = t.out /\ CallSlot(u).added
        /\ CallSlot(u).item = CallItem(t) /\ CallSlot(u).text = u.args
    BY <1>1, <2>3, <2>4, CallSlotFields
  <2>10. TextFits(<<>>, CallItem(t), u.args)
    BY <1>1, <2>4, ToolFields, EmptyIsSuffix DEF TextFits
  <2>11. Account(P \o c.out, closed, c.next, TRUE, SlotsOf(c))
    BY <2>1, <2>2, Fields DEF Tracks
  <2>12. Account(Append(P \o c.out, e), closed, c.next, TRUE, SlotsOf(r))
    BY <2>3, <2>6, <2>7, <2>8, <2>9, <2>10, <2>11, AccountAnnounce DEF e
  <2>13. P \o r.out = Append(P \o c.out, e)
    <3>1. c.out \in Seq(Events) /\ e \in Events /\ r.out = Append(c.out, e)
      BY <1>1, <1>3, <2>2, Fields
    <3> QED
      BY <3>1, ConcatAppend
  <2>14. Coherent(r)
    <3>1. \A j \in Indices : r.tools[j] = IF j = i THEN u ELSE s.tools[j]
      BY <1>0, <1>1, <1>3, Fields
    <3> QED
      BY <1>1, <2>3, <3>1 DEF Tracks, Coherent, Others
  <2>15. r.created = TRUE
    BY <1>1, <1>3, Fields
  <2>16. Tracks(P, closed, r)
    BY <1>1, <2>2, <2>12, <2>13, <2>14, <2>15 DEF Tracks
  <2> QED
    BY <2>16 DEF r
<1> QED
  BY <1>2, <1>3

(* A fragment of the arguments of a call that was announced.                *)
LEMMA ArgsTrack ==
    ASSUME NEW P \in Seq(Events), NEW closed, NEW s, Tracks(P, closed, s), NEW i \in Indices,
           NEW t, t = s.tools[i], t.out # None, t.added, t.out \notin closed, NEW x \in Fragments,
           NEW u \in Tools, u.out = t.out, u.id = t.id, u.name = t.name, u.added, u.args = Append(t.args, x),
           NEW r \in Converters, Others(r, s), r.tools = [s.tools EXCEPT ![i] = u],
           r.next = s.next, r.created = s.created,
           r.out = Append(s.out, Event("args.delta", t.out, CallItem(t), <<x>>))
    PROVE  Tracks(P, closed, r)
<1> DEFINE e == Event("args.delta", t.out, CallItem(t), <<x>>)
<1>0. s \in Converters /\ t \in Tools
  BY Fields DEF Tracks
<1>1. e \in Events
  <2>1. "args.delta" \in Types /\ t.out \in Positions /\ CallItem(t) \in Items \cup {None} /\ <<x>> \in Texts
    BY <1>0, ToolFields DEF Types, Texts
  <2> QED
    BY <2>1, EventType
<1>2. CallItem(u) = CallItem(t)
  BY DEF CallItem
<1>3. Changes(SlotsOf(s), SlotsOf(r), CKey(i)) /\ SlotsOf(r)[CKey(i)] = CallSlot(u)
  <2>1. Others(r, s) /\ r.tools = [s.tools EXCEPT ![i] = u]
    OBVIOUS
  <2> QED
    BY ONLY <1>0, <2>1, r \in Converters, i \in Indices, CallChanges
<1>4. SlotsOf(s)[CKey(i)] = CallSlot(t)
  BY <1>0, SlotsAt
<1>5. /\ CallSlot(t).out = t.out /\ CallSlot(t).added
      /\ CallSlot(t).item = CallItem(t) /\ CallSlot(t).text = t.args
      /\ CallSlot(u) \in Slots /\ CallSlot(u).out = t.out /\ CallSlot(u).added
      /\ CallSlot(u).item = CallItem(t) /\ CallSlot(u).text = Append(t.args, x)
  BY <1>0, <1>2, CallSlotFields
<1>6. P \o r.out = Append(P \o s.out, e)
  <2>1. s.out \in Seq(Events)
    BY <1>0, Fields
  <2> HIDE DEF e
  <2>2. P \o Append(s.out, e) = Append(P \o s.out, e)
    BY <1>1, <2>1, ConcatAppend
  <2> QED
    BY <2>2 DEF e
<1>7. s.created = TRUE
  <2>1. s.created
    <3>1. CKey(i) \in DOMAIN SlotsOf(s) /\ SlotsOf(s)[CKey(i)].out # None
          /\ SlotsOf(s)[CKey(i)].added /\ SlotsOf(s)[CKey(i)].out \notin closed
      BY <1>0, <1>4, <1>5, SlotsAt, KeysDiffer
    <3>2. Account(P \o s.out, closed, s.next, s.created, SlotsOf(s))
      BY DEF Tracks
    <3>3. P \o s.out # <<>>
      BY ONLY <3>1, <3>2, OpenItem
    <3> QED
      BY <3>2, <3>3 DEF Account
  <2> QED
    BY <1>0, <2>1, Fields
<1>8. Account(P \o s.out, closed, s.next, TRUE, SlotsOf(s))
  BY <1>7 DEF Tracks
<1>9. Account(Append(P \o s.out, e), closed, s.next, TRUE, SlotsOf(r))
  <2>1. "args.delta" \in DeltaTypes
    BY DEF DeltaTypes
  <2>2. /\ SlotsOf(s)[CKey(i)].out = t.out /\ SlotsOf(s)[CKey(i)].added
        /\ SlotsOf(s)[CKey(i)].item = CallItem(t) /\ SlotsOf(s)[CKey(i)].text = t.args
        /\ SlotsOf(r)[CKey(i)] \in Slots /\ SlotsOf(r)[CKey(i)].out = t.out /\ SlotsOf(r)[CKey(i)].added
        /\ SlotsOf(r)[CKey(i)].item = CallItem(t) /\ SlotsOf(r)[CKey(i)].text = Append(t.args, x)
    BY <1>3, <1>4, <1>5
  <2>3. t.out # None /\ t.added /\ t.out \notin closed /\ x \in Fragments
    OBVIOUS
  <2>4. Account(Append(P \o s.out, Event("args.delta", SlotsOf(s)[CKey(i)].out, SlotsOf(s)[CKey(i)].item, <<x>>)),
               closed, s.next, TRUE, SlotsOf(r))
    BY ONLY <1>3, <1>8, <2>1, <2>2, <2>3, AccountDelta
  <2> QED
    BY <2>2, <2>4
<1>10. Coherent(r)
  <2>1. \A j \in Indices : r.tools[j] = IF j = i THEN u ELSE s.tools[j]
    BY <1>0, Fields
  <2> QED
    BY <2>1 DEF Tracks, Coherent, Others
<1> HIDE DEF e
<1> QED
  BY <1>6, <1>7, <1>9, <1>10 DEF Tracks

(* The types of the fields of an entry of tool_calls.                       *)
LEMMA DeltaFields ==
    ASSUME NEW d \in Deltas
    PROVE  d.index \in Indices /\ d.id \in Ids /\ d.name \in Names /\ d.args \in Fragments
BY ChunksAssumption DEF Deltas, Ids, Names, Fragments

(* What is known of a call with one more delta.                             *)
Merged(t, d) ==
    [t EXCEPT !.id = Known(@, d.id), !.name = Known(@, d.name),
              !.args = IF d.args = None THEN @ ELSE Append(@, d.args)]

(* An entry adds to what is known of a call, and leaves its index alone.    *)
LEMMA MergedType ==
    ASSUME NEW t \in Tools, NEW d \in Deltas
    PROVE  LET m == Merged(t, d) IN
           /\ m \in Tools /\ m.out = t.out /\ m.added = t.added
           /\ m.id = Known(t.id, d.id) /\ m.name = Known(t.name, d.name)
           /\ m.args = IF d.args = None THEN t.args ELSE Append(t.args, d.args)
<1>1. Known(t.id, d.id) \in Ids /\ Known(t.name, d.name) \in Names
  BY ToolFields, DeltaFields DEF Known
<1>2. (IF d.args = None THEN t.args ELSE Append(t.args, d.args)) \in Texts
  BY ToolFields, DeltaFields DEF Texts
<1> QED
  BY <1>1, <1>2 DEF Merged, Tools

(* Before a call is announced all that is known of it may change.           *)
LEMMA RenameTracks ==
    ASSUME NEW P \in Seq(Events), NEW closed, NEW s, Tracks(P, closed, s), NEW i \in Indices,
           NEW t, t = s.tools[i], t.out # None, ~t.added,
           NEW u \in Tools, u.out = t.out, ~u.added,
           NEW r \in Converters, r.created = s.created, r.out = s.out, r.next = s.next,
           Others(r, s), r.tools = [s.tools EXCEPT ![i] = u]
    PROVE  Tracks(P, closed, r)
<1>1. s \in Converters /\ t \in Tools
  BY Fields DEF Tracks
<1>2. /\ r \in Converters /\ r.created = s.created /\ r.out = s.out /\ r.next = s.next
      /\ Others(r, s) /\ r.tools = [s.tools EXCEPT ![i] = u]
  OBVIOUS
<1>3. \A j \in Indices : r.tools[j] = IF j = i THEN u ELSE s.tools[j]
  BY <1>1, <1>2, Fields
<1>4. Changes(SlotsOf(s), SlotsOf(r), CKey(i)) /\ SlotsOf(r)[CKey(i)] = CallSlot(u)
  BY ONLY <1>1, <1>2, i \in Indices, CallChanges
<1>5. SlotsOf(s)[CKey(i)] = CallSlot(t)
  BY <1>1, SlotsAt
<1>6. /\ CallSlot(t).out = t.out /\ ~CallSlot(t).added
      /\ CallSlot(u) \in Slots /\ CallSlot(u).out = t.out /\ ~CallSlot(u).added
  BY <1>1, CallSlotFields
<1>7. Account(P \o s.out, closed, s.next, s.created, SlotsOf(r))
  <2>1. Account(P \o s.out, closed, s.next, s.created, SlotsOf(s))
    BY DEF Tracks
  <2> QED
    BY ONLY <1>4, <1>5, <1>6, <2>1, AccountRename
<1>8. Coherent(r)
  BY <1>2, <1>3 DEF Tracks, Coherent, Others
<1> QED
  BY <1>2, <1>3, <1>7, <1>8 DEF Tracks

(* A fragment of arguments makes an event.                                  *)
LEMMA ArgsEvent ==
    ASSUME NEW t \in Tools, NEW d \in Deltas
    PROVE  Event("args.delta", t.out, CallItem(t), <<d.args>>) \in Events
<1>1. "args.delta" \in Types /\ t.out \in Positions /\ CallItem(t) \in Items \cup {None} /\ <<d.args>> \in Texts
  BY ToolFields, DeltaFields DEF Types, Texts
<1> QED
  BY <1>1, EventType

(* One event is sent.                                                       *)
LEMMA EmittedOne ==
    ASSUME NEW s \in Converters, NEW e \in Events, NEW r, r = Emit(s, <<e>>)
    PROVE  /\ r \in Converters /\ r.out = Append(s.out, e)
           /\ Others(r, s) /\ r.created = s.created /\ r.tools = s.tools /\ r.next = s.next
<1>1. <<e>> \in Seq(Events) /\ s.out \in Seq(Events) /\ s.out \o <<e>> = Append(s.out, e)
  BY Fields
<1> QED
  BY <1>1, Emitted

(* A converter that refused nothing keeps the account and is as complete as *)
(* it was; one that refused has nothing to send.                            *)
Sound(P, closed, completed, r) ==
    /\ r \in Converters
    /\ IF r.refused THEN r.out = <<>> ELSE Tracks(P, closed, r) /\ r.completed = completed

(* A refused chunk leaves no claim to keep: nothing it made is sent.        *)
LEMMA RefusedSound ==
    ASSUME NEW P, NEW closed, NEW completed, NEW s \in Converters
    PROVE  Sound(P, closed, completed, Refuse(s)) /\ Refuse(s).refused
<1> DEFINE none == <<>>
<1>1. Refuse(s) \in Converters /\ Refuse(s).refused /\ Refuse(s).out = none
  <2>1. none \in Seq(Events) /\ Refuse(s) = [s EXCEPT !.refused = TRUE, !.out = none]
    BY DEF Refuse
  <2> HIDE DEF none
  <2> QED
    BY <2>1 DEF Converters
<1> QED
  BY <1>1 DEF Sound

(* One entry of tool_calls keeps the account, or has the chunk refused.     *)
LEMMA ToolDeltaSound ==
    ASSUME NEW P \in Seq(Events), NEW completed, NEW s, Sound(P, {}, completed, s), NEW d \in Deltas
    PROVE  Sound(P, {}, completed, ToolDelta(s, d))
<1> DEFINE i == d.index
           a == WithToolState(s, i)
           t == a.tools[i]
           m == Merged(t, d)
           a2 == [a EXCEPT !.tools[i] = m]
           b == ToolAdded(a2, i)
           u == b.tools[i]
           r == Emit(b, <<Event("args.delta", u.out, CallItem(u), <<d.args>>)>>)
<1>0. s \in Converters /\ i \in Indices
  BY DeltaFields DEF Sound
<1>1. ToolDelta(s, d) = IF s.refused THEN s
                        ELSE IF Conflicting(t.id, d.id) \/ Conflicting(t.name, d.name) THEN Refuse(s)
                        ELSE IF u.added /\ d.args # None THEN r ELSE b
  BY DEF ToolDelta, Merged
<1>2. CASE s.refused
  BY <1>1, <1>2
<1>3. CASE Conflicting(t.id, d.id) \/ Conflicting(t.name, d.name)
  BY <1>0, <1>1, <1>3, RefusedSound
<1>4. CASE ~s.refused /\ ~(Conflicting(t.id, d.id) \/ Conflicting(t.name, d.name))
  <2>1. Tracks(P, {}, s) /\ s.completed = completed
    BY <1>4 DEF Sound
  <2>2. Tracks(P, {}, a) /\ a \in Converters /\ Others(a, s) /\ t \in Tools /\ t.out # None
    BY <1>0, <2>1, WithToolStateTracks, WithToolStateType
  <2>3. /\ m \in Tools /\ m.out = t.out /\ m.added = t.added
        /\ m.id = Known(t.id, d.id) /\ m.name = Known(t.name, d.name)
        /\ m.args = IF d.args = None THEN t.args ELSE Append(t.args, d.args)
    BY <2>2, MergedType
  <2>4. ToolDelta(s, d) = IF u.added /\ d.args # None THEN r ELSE b
    BY <1>1, <1>4
  <2>5. SUFFICES ASSUME NEW q, q = (IF u.added /\ d.args # None THEN r ELSE b)
                 PROVE  Tracks(P, {}, q) /\ q \in Converters /\ Others(q, a)
    BY <1>4, <2>1, <2>2, <2>4 DEF Sound, Others
  <2> HIDE DEF a, m, t
  <2>6. /\ a2 \in Converters /\ a2.created = a.created /\ a2.out = a.out /\ a2.next = a.next
        /\ Others(a2, a) /\ a2.tools = [a.tools EXCEPT ![i] = m] /\ a2.tools[i] = m
    <3>1. a.tools \in [Indices -> Tools]
      BY <2>2, Fields
    <3> QED
      BY <1>0, <2>2, <2>3, <3>1 DEF Converters, Others
  <2>7. t = a.tools[i]
    BY DEF t
  <2> HIDE DEF a2
  <2>8. /\ b \in Converters /\ Others(b, a2) /\ b.next = a2.next
        /\ ~Announces(m) => b = a2
        /\ Announces(m) => /\ b.created /\ b.tools = [a2.tools EXCEPT ![i] = Added(m)]
                           /\ b.tools[i] = Added(m) /\ Added(m) \in Tools
                           /\ b.out = Append(Created(a2).out, Event("added", m.out, CallItem(m), <<>>))
    <3>1. b = ToolAdded(a2, i) /\ i \in Indices /\ a2 \in Converters /\ m = a2.tools[i]
      BY <1>0, <2>6
    <3> HIDE DEF b, i
    <3> QED
      BY ONLY <3>1, ToolAddedOf
  <2> HIDE DEF i
  <2>9. CASE t.added
    <3>1. t.id # None /\ t.name # None
      BY <1>0, <2>2, <2>7, <2>9 DEF Tracks, Coherent
    <3>2. m.id = t.id /\ m.name = t.name
      BY <1>4, <2>3, <3>1 DEF Conflicting, Known
    <3>3. b = a2 /\ u = m
      BY <2>3, <2>6, <2>8, <2>9 DEF Announces
    <3>4. CASE d.args = None
      <4>1. q = a2
        BY <2>5, <3>3, <3>4
      <4>2. m = t
        BY <2>2, <2>3, <3>2, <3>4 DEF Tools
      <4>3. a2.tools = a.tools
        <5>1. a.tools \in [Indices -> Tools]
          BY <2>2, Fields
        <5> QED
          BY <2>6, <2>7, <4>2, <5>1
      <4>4. Tracks(P, {}, a2)
        BY <2>2, <2>6, <4>3, SameTracks
      <4> QED
        BY <2>6, <4>1, <4>4
    <3>5. CASE d.args # None
      <4> DEFINE e == Event("args.delta", t.out, CallItem(t), <<d.args>>)
      <4>1. CallItem(m) = CallItem(t) /\ u.out = t.out
        BY <2>3, <3>2, <3>3 DEF CallItem
      <4>2. q = Emit(a2, <<e>>)
        BY <2>3, <2>5, <2>9, <3>3, <3>5, <4>1
      <4>3. e \in Events /\ d.args \in Fragments
        BY <2>2, ArgsEvent, DeltaFields
      <4> HIDE DEF e
      <4>4. /\ q \in Converters /\ q.out = Append(a2.out, e)
            /\ Others(q, a2) /\ q.created = a2.created /\ q.tools = a2.tools /\ q.next = a2.next
        BY <2>6, <4>2, <4>3, EmittedOne
      <4>5. /\ Others(q, a) /\ q.tools = [a.tools EXCEPT ![i] = m] /\ q.next = a.next /\ q.created = a.created
            /\ q.out = Append(a.out, Event("args.delta", t.out, CallItem(t), <<d.args>>))
        BY <2>6, <4>4 DEF Others, e
      <4>6. m.out = t.out /\ m.id = t.id /\ m.name = t.name /\ m.added /\ m.args = Append(t.args, d.args)
        BY <2>3, <2>9, <3>2, <3>5
      <4>7. t.out \notin {} /\ P \in Seq(Events)
        OBVIOUS
      <4>8. Tracks(P, {}, q)
        BY ONLY <1>0, <2>2, <2>3, <2>7, <2>9, <4>3, <4>4, <4>5, <4>6, <4>7, ArgsTrack
      <4> QED
        BY <4>4, <4>5, <4>8
    <3> QED
      BY <3>4, <3>5
  <2>10. CASE ~t.added /\ (d.args = None \/ ~Announces(m))
    <3>1. Tracks(P, {}, a2)
      <4>1. ~t.added /\ ~m.added /\ P \in Seq(Events)
        BY <2>3, <2>10
      <4> QED
        BY ONLY <1>0, <2>2, <2>3, <2>6, <2>7, <4>1, RenameTracks
    <3>2. Tracks(P, {}, b)
      <4>1. a2.tools[i].out # None
        BY <2>2, <2>3, <2>6
      <4> QED
        BY <1>0, <3>1, <4>1, ToolAddedTracks DEF b, i
    <3>3. q = b
      <4>1. CASE d.args = None
        BY <2>5, <4>1
      <4>2. CASE ~Announces(m)
        BY <2>3, <2>5, <2>6, <2>8, <2>10, <4>2
      <4> QED
        BY <2>10, <4>1, <4>2
    <3> QED
      BY <2>6, <2>8, <3>2, <3>3 DEF Others
  <2>11. CASE ~t.added /\ d.args # None /\ Announces(m)
    <3> DEFINE m0 == [m EXCEPT !.args = t.args]
               a0 == [a EXCEPT !.tools[i] = m0]
               b0 == ToolAdded(a0, i)
               v == Added(m)
               v0 == Added(m0)
    <3>1. /\ m0 \in Tools /\ m0.out = t.out /\ ~m0.added /\ CallItem(m0) = CallItem(m) /\ Announces(m0)
          /\ v.out = t.out /\ v.id = m.id /\ v.name = m.name /\ v.added /\ v.args = m.args /\ v \in Tools
          /\ v0.out = t.out /\ v0.id = m.id /\ v0.name = m.name /\ v0.added /\ v0.args = t.args
      BY <2>2, <2>3, <2>11 DEF Tools, CallItem, Announces, Added
    <3>2. /\ a0 \in Converters /\ a0.created = a.created /\ a0.out = a.out /\ a0.next = a.next
          /\ Others(a0, a) /\ a0.tools = [a.tools EXCEPT ![i] = m0] /\ a0.tools[i] = m0
      <4>1. a.tools \in [Indices -> Tools]
        BY <2>2, Fields
      <4> QED
        BY <1>0, <2>2, <3>1, <4>1 DEF Converters, Others, i
    <3> HIDE DEF m0, a0, v
    <3>3. Tracks(P, {}, a0)
      <4>1. ~t.added /\ P \in Seq(Events)
        BY <2>11
      <4> QED
        BY ONLY <1>0, <2>2, <2>7, <3>1, <3>2, <4>1, RenameTracks
    <3>4. Tracks(P, {}, b0)
      <4>1. a0.tools[i].out # None
        BY <2>2, <3>1, <3>2
      <4> QED
        BY <1>0, <3>3, <4>1, ToolAddedTracks DEF i
    <3>5. /\ b0 \in Converters /\ Others(b0, a0) /\ b0.next = a0.next /\ b0.created
          /\ b0.tools = [a0.tools EXCEPT ![i] = v0] /\ b0.tools[i] = v0
          /\ b0.out = Append(Created(a0).out, Event("added", m0.out, CallItem(m0), <<>>))
      <4>1. b0 = ToolAdded(a0, i) /\ i \in Indices /\ a0 \in Converters /\ m0 = a0.tools[i]
        BY <1>0, <3>2 DEF i
      <4>2. v0 = Added(m0) /\ Announces(m0)
        BY <3>1
      <4> HIDE DEF b0, v0
      <4> QED
        BY ONLY <4>1, <4>2, ToolAddedOf
    <3>6. v = Added(m) /\ v0 = Added(m0)
      BY DEF v
    <3> DEFINE e == Event("args.delta", v0.out, CallItem(v0), <<d.args>>)
    <3>7. CallItem(v) = CallItem(m) /\ CallItem(v0) = CallItem(m)
      BY <3>1 DEF CallItem
    <3>8. v0 \in Tools
      <4>1. b0.tools \in [Indices -> Tools] /\ b0.tools[i] = v0 /\ i \in Indices
        BY <1>0, <3>5, Fields DEF i
      <4> QED
        BY <4>1
    <3> HIDE DEF v0, b0
    <3>9. e \in Events /\ d.args \in Fragments
      BY <3>8, ArgsEvent, DeltaFields
    <3>10. u = v
      BY <2>8, <2>11, <3>6
    <3>11. q = Emit(b, <<e>>)
      <4>1. u.added /\ u.out = v0.out /\ CallItem(u) = CallItem(v0)
        BY <3>1, <3>7, <3>10
      <4> HIDE DEF u
      <4> QED
        BY <2>5, <2>11, <4>1
    <3> HIDE DEF e
    <3>12. /\ q \in Converters /\ q.out = Append(b.out, e)
           /\ Others(q, b) /\ q.created = b.created /\ q.tools = b.tools /\ q.next = b.next
      BY <2>8, <3>9, <3>11, EmittedOne
    <3>13. q.out = Append(b0.out, e)
      <4>1. a2.created = a0.created /\ a2.out = a0.out
        BY <2>6, <3>2
      <4>2. Created(a2).out = Created(a0).out
        BY <2>6, <3>2, <4>1, CreatedType
      <4>3. b.out = b0.out
        BY <2>3, <2>8, <2>11, <3>1, <3>5, <4>2
      <4> QED
        BY <3>12, <4>3
    <3>14. q.tools = [b0.tools EXCEPT ![i] = v]
      <4>1. a.tools \in [Indices -> Tools] /\ i \in Indices
        BY <1>0, <2>2, Fields DEF i
      <4>2. q.tools = [a2.tools EXCEPT ![i] = v]
        BY <2>8, <2>11, <3>6, <3>12
      <4> QED
        BY ONLY <2>6, <3>2, <3>5, <4>1, <4>2
    <3>15. q.next = b0.next /\ Others(q, b0) /\ Others(q, a)
      BY <2>6, <2>8, <3>2, <3>5, <3>12 DEF Others
    <3>16. q.created = b0.created
      BY <2>8, <2>11, <3>5, <3>12, Fields
    <3>17. v.out = v0.out /\ v.id = v0.id /\ v.name = v0.name /\ v.added /\ v.args = Append(v0.args, d.args)
           /\ v0.out # None /\ v0.added
      BY <2>2, <2>3, <2>11, <3>1
    <3>18. P \in Seq(Events) /\ v0 = b0.tools[i] /\ v0.out \notin {} /\ v \in Tools /\ i \in Indices
      BY <1>0, <3>1, <3>5 DEF i
    <3>19. Tracks(P, {}, q)
      <4>1. q.out = Append(b0.out, Event("args.delta", v0.out, CallItem(v0), <<d.args>>))
        BY <3>13 DEF e
      <4>2. Others(q, b0) /\ q \in Converters
        BY <3>12, <3>15
      <4> QED
        BY ONLY <3>4, <3>9, <3>14, <3>15, <3>16, <3>17, <3>18, <4>1, <4>2, ArgsTrack
    <3> QED
      BY <3>12, <3>15, <3>19
  <2> QED
    BY <2>9, <2>10, <2>11
<1> QED
  BY <1>2, <1>3, <1>4

(* The entries of one chunk.                                                *)
LEMMA ToolDeltasSound ==
    ASSUME NEW P \in Seq(Events), NEW completed, NEW s, Sound(P, {}, completed, s), NEW ds \in Seq(Deltas)
    PROVE  Sound(P, {}, completed, ToolDeltasOf(s, ds))
<1> DEFINE V == {r \in Converters : Sound(P, {}, completed, r)}
           m == Len(ds)
           step == [a \in (1..m) \X V |-> ToolDelta(a[2], ds[a[1]])]
           Def(f) == f = [n \in 0..m |-> IF n = 0 THEN s ELSE ToolDelta(f[n - 1], ds[n])]
           after == CHOOSE f : Def(f)
<1>1. s \in V /\ m \in Nat
  BY DEF Sound
<1>2. ASSUME NEW a \in (1..m) \X V PROVE ToolDelta(a[2], ds[a[1]]) \in V
  <2>1. a[1] \in 1..m /\ Sound(P, {}, completed, a[2])
    OBVIOUS
  <2>2. ds[a[1]] \in Deltas
    BY <2>1, ElementOfSeq
  <2>3. Sound(P, {}, completed, ToolDelta(a[2], ds[a[1]]))
    BY <2>1, <2>2, ToolDeltaSound
  <2> QED
    BY <2>3 DEF Sound
<1> HIDE DEF V
<1>3. step \in [(1..m) \X V -> V]
  BY <1>2
<1>4. \A n \in 1..m, r \in V : step[<<n, r>>] = ToolDelta(r, ds[n])
  OBVIOUS
<1> HIDE DEF step
<1>5. PICK f : Iterates(f, V, s, step, m)
  BY <1>1, <1>3, IterationExists
<1>6. f = [n \in 0..m |-> f[n]] /\ f[0] = s /\ \A n \in 1..m : f[n] = ToolDelta(f[n - 1], ds[n])
  <2>1. f \in [0..m -> V] /\ f[0] = s
    BY <1>5 DEF Iterates
  <2>2. ASSUME NEW n \in 1..m PROVE f[n] = ToolDelta(f[n - 1], ds[n])
    <3>1. n - 1 \in 0..m
      BY <1>1
    <3>2. f[n - 1] \in V /\ f[n] = step[<<n, f[n - 1]>>]
      BY <1>5, <2>1, <3>1 DEF Iterates
    <3> QED
      BY <1>4, <3>2
  <2> QED
    BY <2>1, <2>2
<1>7. Def(f)
  BY <1>1, <1>6
<1>8. Def(after)
  <2> HIDE DEF Def
  <2> QED
    BY <1>7
<1>9. ToolDeltasOf(s, ds) = after[m]
  BY DEF ToolDeltasOf
<1> HIDE DEF after
<1>10. after[m] \in V
  <2> DEFINE S == {n \in Nat : n <= m => after[n] \in V}
  <2>1. 0 \in S
    BY <1>1, <1>8
  <2>2. ASSUME NEW n \in Nat, n \in S PROVE n + 1 \in S
    <3> SUFFICES ASSUME n + 1 <= m PROVE after[n + 1] \in V
      OBVIOUS
    <3>1. after[n + 1] = ToolDelta(after[n], ds[n + 1])
      BY <1>1, <1>8
    <3>2. after[n] \in V /\ n + 1 \in 1..m
      BY <1>1, <2>2
    <3>3. <<n + 1, after[n]>> \in (1..m) \X V
      BY <3>2
    <3> QED
      BY <1>3, <1>4, <3>1, <3>2, <3>3
  <2> HIDE DEF S
  <2>3. \A n \in Nat : n \in S
    BY <2>1, <2>2, SetInduction
  <2> QED
    BY <1>1, <2>3 DEF S
<1> QED
  BY <1>9, <1>10 DEF V

(* A fragment of the reasoning or of the content, with the item if it is    *)
(* the first.                                                               *)
LEMMA AccountFragment ==
    ASSUME NEW E, NEW next, NEW f, Account(E, {}, next, TRUE, f), NEW p, NEW g, Changes(f, g, p),
           NEW index \in Positions, NEW item \in Items, item.kind # "function_call", NEW text \in Texts,
           index = None => text = <<>>,
           f[p] = Slot(index, item, text, index # None),
           NEW x \in Fragments, NEW type \in DeltaTypes,
           g[p] = Slot(IF index = None THEN next ELSE index, item, Append(text, x), TRUE)
    PROVE  /\ index # None => Account(Append(E, Event(type, index, item, <<x>>)), {}, next, TRUE, g)
           /\ index = None =>
                 Account(Append(Append(E, Event("added", next, item, <<>>)), Event(type, next, item, <<x>>)),
                        {}, next + 1, TRUE, g)
<1>0. /\ next \in Nat /\ next \in Positions /\ next # None /\ p \in DOMAIN f
      /\ Append(text, x) \in Texts /\ <<>> \in Texts
  BY NoneAssumption DEF Account, Positions, Texts, Changes
<1>1. f[p].out = index /\ f[p].item = item /\ f[p].text = text /\ f[p].added = (index # None)
  BY DEF Slot, Slots
<1>2. CASE index # None
  <2>1. g[p] = Slot(index, item, Append(text, x), TRUE)
    BY <1>2
  <2>2. /\ g[p] \in Slots /\ g[p].out = index /\ g[p].item = item /\ g[p].text = Append(text, x) /\ g[p].added
    BY <1>0, <2>1 DEF Slot, Slots
  <2>3. f[p].out # None /\ f[p].added /\ f[p].out \notin {}
    BY <1>1, <1>2
  <2>4. Account(Append(E, Event(type, f[p].out, f[p].item, <<x>>)), {}, next, TRUE, g)
    BY <1>1, <2>2, <2>3, AccountDelta
  <2> QED
    BY <1>1, <1>2, <2>4
<1>3. CASE index = None
  <2> DEFINE s1 == Slot(next, item, <<>>, FALSE)
             s2 == Slot(next, item, <<>>, TRUE)
             g1 == [f EXCEPT ![p] = s1]
             g2 == [f EXCEPT ![p] = s2]
             F == Append(E, Event("added", next, item, <<>>))
  <2>1. s1 \in Slots /\ s1.out = next /\ ~s1.added
    BY <1>0 DEF Slot, Slots
  <2>2. s2 \in Slots /\ s2.out = next /\ s2.added /\ s2.item = item /\ s2.text = <<>>
    BY <1>0 DEF Slot, Slots
  <2>3. /\ g[p] \in Slots /\ g[p].out = next /\ g[p].item = item /\ g[p].text = Append(s2.text, x) /\ g[p].added
    <3>1. g[p] = Slot(next, item, Append(text, x), TRUE)
      BY <1>3
    <3> QED
      BY <1>0, <1>3, <2>2, <3>1 DEF Slot, Slots
  <2> HIDE DEF s1, s2
  <2>4. Changes(f, g1, p) /\ g1[p] = s1 /\ Changes(g1, g2, p) /\ g2[p] = s2 /\ Changes(g2, g, p)
    BY <1>0 DEF Changes
  <2> HIDE DEF g1, g2, F
  <2>5. Account(E, {}, next + 1, TRUE, g1)
    <3>1. f[p].out = None /\ g1[p] \in Slots /\ g1[p].out = next /\ ~g1[p].added
      BY <1>1, <1>3, <2>1, <2>4
    <3> QED
      BY <2>4, <3>1, AccountAllot
  <2>6. Account(F, {}, next + 1, TRUE, g2)
    <3>1. /\ g1[p].out # None /\ g1[p].out = next /\ ~g1[p].added
          /\ g2[p] \in Slots /\ g2[p].out = g1[p].out /\ g2[p].added
          /\ g2[p].item = item /\ TextFits(<<>>, g2[p].item, g2[p].text)
      BY <1>0, <2>1, <2>2, <2>4 DEF TextFits
    <3>2. Account(Append(E, Event("added", g1[p].out, g2[p].item, <<>>)), {}, next + 1, TRUE, g2)
      BY ONLY <2>4, <2>5, <3>1, AccountAnnounce
    <3> QED
      BY <3>1, <3>2 DEF F
  <2>7. Account(Append(F, Event(type, next, item, <<x>>)), {}, next + 1, TRUE, g)
    <3> DEFINE closed == {}
    <3>1. /\ g2[p].out # None /\ g2[p].out = next /\ g2[p].added /\ g2[p].out \notin closed
          /\ g[p] \in Slots /\ g[p].added /\ g[p].out = g2[p].out /\ g[p].item = g2[p].item
          /\ g2[p].item = item /\ g[p].text = Append(g2[p].text, x) /\ x \in Fragments /\ type \in DeltaTypes
      BY <1>0, <2>2, <2>3, <2>4
    <3> HIDE DEF closed
    <3>2. Account(F, closed, next + 1, TRUE, g2)
      BY <2>6 DEF closed
    <3>3. Account(Append(F, Event(type, g2[p].out, g2[p].item, <<x>>)), closed, next + 1, TRUE, g)
      BY ONLY <2>4, <3>1, <3>2, AccountDelta
    <3> QED
      BY <3>1, <3>3 DEF closed
  <2> QED
    BY <1>3, <2>7 DEF F
<1> QED
  BY <1>2, <1>3

(* A fragment of the reasoning, for a converter that has created its stream. *)
LEMMA ReasoningTracks ==
    ASSUME NEW P \in Seq(Events), NEW c, Tracks(P, {}, c), c.created, NEW x \in Fragments, NEW r \in Converters,
           r.created, r.reasoning = Append(c.reasoning, x), r.text = c.text, r.messageIndex = c.messageIndex,
           r.tools = c.tools,
           r.reasoningIndex = (IF c.reasoningIndex = None THEN c.next ELSE c.reasoningIndex),
           r.next = (IF c.reasoningIndex = None THEN c.next + 1 ELSE c.next),
           r.out = IF c.reasoningIndex = None
                   THEN Append(Append(c.out, Event("added", c.next, ReasoningItem, <<>>)),
                               Event("reasoning.delta", c.next, ReasoningItem, <<x>>))
                   ELSE Append(c.out, Event("reasoning.delta", c.reasoningIndex, ReasoningItem, <<x>>))
    PROVE  Tracks(P, {}, r)
<1> DEFINE f == SlotsOf(c)
           g == SlotsOf(r)
           E == P \o c.out
           e == Event("added", c.next, ReasoningItem, <<>>)
           d(n) == Event("reasoning.delta", n, ReasoningItem, <<x>>)
<1>1. /\ c \in Converters /\ Account(E, {}, c.next, TRUE, f) /\ c.out \in Seq(Events)
      /\ c.reasoningIndex \in Positions /\ c.reasoning \in Texts /\ c.next \in Positions /\ c.next # None
      /\ c.reasoningIndex = None => c.reasoning = <<>>
      /\ c.created = TRUE /\ r.created = TRUE
  <2>1. c \in Converters
    BY DEF Tracks
  <2> QED
    BY <2>1, Fields, NoneAssumption DEF Tracks, Coherent
<1>2. ReasoningItem \in Items /\ ReasoningItem.kind # "function_call"
  BY OtherItems DEF ReasoningItem
<1>3. e \in Events /\ \A n \in Positions : d(n) \in Events
  <2>1. /\ "added" \in Types /\ "reasoning.delta" \in Types
        /\ ReasoningItem \in Items \cup {None} /\ <<>> \in Texts /\ <<x>> \in Texts
    BY <1>2 DEF Types, Texts
  <2> QED
    BY <1>1, <2>1, EventType
<1>4. f[RKey] = Slot(c.reasoningIndex, ReasoningItem, c.reasoning, c.reasoningIndex # None)
  BY <1>1, SlotsAt
<1>5. g[RKey] = Slot(IF c.reasoningIndex = None THEN c.next ELSE c.reasoningIndex, ReasoningItem,
                     Append(c.reasoning, x), TRUE)
  <2>1. g[RKey] = Slot(r.reasoningIndex, ReasoningItem, r.reasoning, r.reasoningIndex # None)
    BY SlotsAt
  <2>2. r.reasoningIndex # None
    BY <1>1
  <2>3. (r.reasoningIndex # None) = TRUE
    BY <2>2
  <2> QED
    BY <2>1, <2>3
<1>6. Changes(f, g, RKey)
  <2>1. DOMAIN f = Keys /\ DOMAIN g = Keys
    BY <1>1, SlotsAt
  <2>2. f[MKey] = g[MKey]
    BY <1>1, SlotsAt
  <2>3. \A i \in Indices : f[CKey(i)] = g[CKey(i)]
    BY <1>1, SlotsAt
  <2> HIDE DEF f, g
  <2> QED
    BY <2>1, <2>2, <2>3, KeysDiffer DEF Changes
<1> HIDE DEF f, g, e, d
<1>7. "reasoning.delta" \in DeltaTypes
  BY DEF DeltaTypes
<1>8. /\ c.reasoningIndex # None => Account(Append(E, d(c.reasoningIndex)), {}, c.next, TRUE, g)
      /\ c.reasoningIndex = None => Account(Append(Append(E, e), d(c.next)), {}, c.next + 1, TRUE, g)
  BY ONLY <1>1, <1>2, <1>4, <1>5, <1>6, <1>7, x \in Fragments, AccountFragment DEF e, d
<1>9. P \o r.out = IF c.reasoningIndex = None THEN Append(Append(E, e), d(c.next))
                    ELSE Append(E, d(c.reasoningIndex))
  <2>1. CASE c.reasoningIndex # None
    <3>1. r.out = Append(c.out, d(c.reasoningIndex)) /\ d(c.reasoningIndex) \in Events
      BY <1>1, <1>3, <2>1 DEF d
    <3> QED
      BY <1>1, <2>1, <3>1, ConcatAppend
  <2>2. CASE c.reasoningIndex = None
    <3> DEFINE o == Append(c.out, e)
    <3>1. r.out = Append(o, d(c.next)) /\ d(c.next) \in Events /\ o \in Seq(Events)
      BY <1>1, <1>3, <2>2 DEF d, e
    <3>2. P \o o = Append(E, e)
      BY <1>1, <1>3, ConcatAppend
    <3> HIDE DEF o
    <3>3. P \o Append(o, d(c.next)) = Append(P \o o, d(c.next))
      BY <3>1, ConcatAppend
    <3> QED
      BY <2>2, <3>1, <3>2, <3>3
  <2> QED
    BY <2>1, <2>2
<1>10. Account(P \o r.out, {}, r.next, r.created, g)
  BY <1>1, <1>8, <1>9
<1>11. Coherent(r)
  <2>1. r.reasoningIndex # None
    BY <1>1
  <2> QED
    BY <2>1 DEF Tracks, Coherent
<1> QED
  BY <1>10, <1>11 DEF Tracks, g

(* A fragment of the content, for a converter that has created its stream. *)
LEMMA ContentTracks ==
    ASSUME NEW P \in Seq(Events), NEW c, Tracks(P, {}, c), c.created, NEW x \in Fragments, NEW r \in Converters,
           r.created, r.text = Append(c.text, x), r.reasoning = c.reasoning, r.reasoningIndex = c.reasoningIndex,
           r.tools = c.tools,
           r.messageIndex = (IF c.messageIndex = None THEN c.next ELSE c.messageIndex),
           r.next = (IF c.messageIndex = None THEN c.next + 1 ELSE c.next),
           r.out = IF c.messageIndex = None
                   THEN Append(Append(c.out, Event("added", c.next, MessageItem, <<>>)),
                               Event("text.delta", c.next, MessageItem, <<x>>))
                   ELSE Append(c.out, Event("text.delta", c.messageIndex, MessageItem, <<x>>))
    PROVE  Tracks(P, {}, r)
<1> DEFINE f == SlotsOf(c)
           g == SlotsOf(r)
           E == P \o c.out
           e == Event("added", c.next, MessageItem, <<>>)
           d(n) == Event("text.delta", n, MessageItem, <<x>>)
<1>1. /\ c \in Converters /\ Account(E, {}, c.next, TRUE, f) /\ c.out \in Seq(Events)
      /\ c.messageIndex \in Positions /\ c.text \in Texts /\ c.next \in Positions /\ c.next # None
      /\ c.messageIndex = None => c.text = <<>>
      /\ c.created = TRUE /\ r.created = TRUE
  <2>1. c \in Converters
    BY DEF Tracks
  <2> QED
    BY <2>1, Fields, NoneAssumption DEF Tracks, Coherent
<1>2. MessageItem \in Items /\ MessageItem.kind # "function_call"
  BY OtherItems DEF MessageItem
<1>3. e \in Events /\ \A n \in Positions : d(n) \in Events
  <2>1. /\ "added" \in Types /\ "text.delta" \in Types
        /\ MessageItem \in Items \cup {None} /\ <<>> \in Texts /\ <<x>> \in Texts
    BY <1>2 DEF Types, Texts
  <2> QED
    BY <1>1, <2>1, EventType
<1>4. f[MKey] = Slot(c.messageIndex, MessageItem, c.text, c.messageIndex # None)
  BY <1>1, SlotsAt
<1>5. g[MKey] = Slot(IF c.messageIndex = None THEN c.next ELSE c.messageIndex, MessageItem,
                     Append(c.text, x), TRUE)
  <2>1. g[MKey] = Slot(r.messageIndex, MessageItem, r.text, r.messageIndex # None)
    BY SlotsAt
  <2>2. r.messageIndex # None
    BY <1>1
  <2>3. (r.messageIndex # None) = TRUE
    BY <2>2
  <2> QED
    BY <2>1, <2>3
<1>6. Changes(f, g, MKey)
  <2>1. DOMAIN f = Keys /\ DOMAIN g = Keys
    BY <1>1, SlotsAt
  <2>2. f[RKey] = g[RKey]
    BY <1>1, SlotsAt
  <2>3. \A i \in Indices : f[CKey(i)] = g[CKey(i)]
    BY <1>1, SlotsAt
  <2> HIDE DEF f, g
  <2> QED
    BY <2>1, <2>2, <2>3, KeysDiffer DEF Changes
<1> HIDE DEF f, g, e, d
<1>7. "text.delta" \in DeltaTypes
  BY DEF DeltaTypes
<1>8. /\ c.messageIndex # None => Account(Append(E, d(c.messageIndex)), {}, c.next, TRUE, g)
      /\ c.messageIndex = None => Account(Append(Append(E, e), d(c.next)), {}, c.next + 1, TRUE, g)
  BY ONLY <1>1, <1>2, <1>4, <1>5, <1>6, <1>7, x \in Fragments, AccountFragment DEF e, d
<1>9. P \o r.out = IF c.messageIndex = None THEN Append(Append(E, e), d(c.next))
                    ELSE Append(E, d(c.messageIndex))
  <2>1. CASE c.messageIndex # None
    <3>1. r.out = Append(c.out, d(c.messageIndex)) /\ d(c.messageIndex) \in Events
      BY <1>1, <1>3, <2>1 DEF d
    <3> QED
      BY <1>1, <2>1, <3>1, ConcatAppend
  <2>2. CASE c.messageIndex = None
    <3> DEFINE o == Append(c.out, e)
    <3>1. r.out = Append(o, d(c.next)) /\ d(c.next) \in Events /\ o \in Seq(Events)
      BY <1>1, <1>3, <2>2 DEF d, e
    <3>2. P \o o = Append(E, e)
      BY <1>1, <1>3, ConcatAppend
    <3> HIDE DEF o
    <3>3. P \o Append(o, d(c.next)) = Append(P \o o, d(c.next))
      BY <3>1, ConcatAppend
    <3> QED
      BY <2>2, <3>1, <3>2, <3>3
  <2> QED
    BY <2>1, <2>2
<1>10. Account(P \o r.out, {}, r.next, r.created, g)
  BY <1>1, <1>8, <1>9
<1>11. Coherent(r)
  <2>1. r.messageIndex # None
    BY <1>1
  <2> QED
    BY <2>1 DEF Tracks, Coherent
<1> QED
  BY <1>10, <1>11 DEF Tracks, g

(* _reasoning_events *)
LEMMA ReasoningDeltaTracks ==
    ASSUME NEW P \in Seq(Events), NEW s, Tracks(P, {}, s), NEW x \in Fragments
    PROVE  LET r == ReasoningDelta(s, x) IN
           Tracks(P, {}, r) /\ r.completed = s.completed /\ r.refused = s.refused
<1> DEFINE r == ReasoningDelta(s, x)
           s1 == [s EXCEPT !.reasoning = Append(@, x)]
           a == Created(s1)
           c == Created(s)
           e == Event("added", a.next, ReasoningItem, <<>>)
           a1 == [a EXCEPT !.reasoningIndex = a.next, !.next = @ + 1]
           b == IF a.reasoningIndex # None THEN a ELSE Emit(a1, <<e>>)
           d == Event("reasoning.delta", b.reasoningIndex, ReasoningItem, <<x>>)
<1>1. CASE x = None \/ Contains(s.reasoning, x)
  BY <1>1 DEF ReasoningDelta
<1>2. CASE ~(x = None \/ Contains(s.reasoning, x))
  <2>1. r = Emit(b, <<d>>)
    BY <1>2 DEF ReasoningDelta
  <2>2. s \in Converters
    BY DEF Tracks
  <2>3. /\ s1 \in Converters /\ s1.reasoning = Append(s.reasoning, x)
        /\ s1.text = s.text /\ s1.reasoningIndex = s.reasoningIndex /\ s1.messageIndex = s.messageIndex
        /\ s1.tools = s.tools /\ s1.next = s.next /\ s1.created = s.created /\ s1.out = s.out
        /\ s1.completed = s.completed /\ s1.refused = s.refused
    <3>1. Append(s.reasoning, x) \in Texts
      BY <2>2, Fields DEF Texts
    <3> QED
      BY <2>2, <3>1 DEF Converters
  <2>4. Tracks(P, {}, c) /\ c \in Converters /\ c.created /\ Others(c, s) /\ c.tools = s.tools /\ c.next = s.next
    BY <2>2, CreatedTracks, CreatedType
  <2> HIDE DEF s1
  <2>5. a \in Converters /\ a.created /\ Others(a, s1) /\ a.tools = s1.tools /\ a.next = s1.next
    BY <2>3, CreatedType
  <2>6. a.out = c.out
    BY <2>2, <2>3, CreatedType
  <2> HIDE DEF a, c
  <2>7. /\ a1 \in Converters /\ a1.reasoningIndex = a.next /\ a1.next = a.next + 1 /\ a1.created
        /\ a1.reasoning = a.reasoning /\ a1.text = a.text /\ a1.messageIndex = a.messageIndex
        /\ a1.tools = a.tools /\ a1.completed = a.completed /\ a1.refused = a.refused /\ a1.out = a.out
    <3>1. a.next \in Positions /\ a.next + 1 \in Nat
      BY <2>5, Fields
    <3> QED
      BY <2>5, <3>1 DEF Converters
  <2>8. e \in Events /\ a.next # None /\ a.next \in Positions
    <3>1. "added" \in Types /\ a.next \in Positions /\ ReasoningItem \in Items \cup {None} /\ <<>> \in Texts
      BY <2>5, Fields, OtherItems DEF Types, Texts
    <3> QED
      BY <2>5, <3>1, EventType, Fields, NoneAssumption
  <2> HIDE DEF a1, e
  <2>9. /\ b \in Converters /\ b.created /\ b.reasoning = a.reasoning
        /\ b.text = a.text /\ b.messageIndex = a.messageIndex
        /\ b.tools = a.tools /\ b.completed = a.completed /\ b.refused = a.refused
        /\ b.reasoningIndex = (IF a.reasoningIndex = None THEN a.next ELSE a.reasoningIndex)
        /\ b.next = (IF a.reasoningIndex = None THEN a.next + 1 ELSE a.next)
        /\ b.out = (IF a.reasoningIndex = None THEN Append(a.out, e) ELSE a.out)
    <3>1. CASE a.reasoningIndex # None
      BY <2>5, <3>1
    <3>2. CASE a.reasoningIndex = None
      <4>1. b = Emit(a1, <<e>>)
        BY <3>2
      <4> HIDE DEF b
      <4>2. /\ b \in Converters /\ b.out = Append(a1.out, e)
            /\ Others(b, a1) /\ b.created = a1.created /\ b.tools = a1.tools /\ b.next = a1.next
        BY <2>7, <2>8, <4>1, EmittedOne
      <4> QED
        BY <2>7, <3>2, <4>2 DEF Others
    <3> QED
      BY <3>1, <3>2
  <2> HIDE DEF b
  <2>10. d \in Events
    <3>1. /\ "reasoning.delta" \in Types /\ b.reasoningIndex \in Positions
          /\ ReasoningItem \in Items \cup {None} /\ <<x>> \in Texts
      BY <2>9, Fields, OtherItems DEF Types, Texts
    <3> QED
      BY <3>1, EventType
  <2> HIDE DEF d, r
  <2>11. /\ r \in Converters /\ r.out = Append(b.out, d)
         /\ Others(r, b) /\ r.created = b.created /\ r.tools = b.tools /\ r.next = b.next
    BY <2>1, <2>9, <2>10, EmittedOne
  <2>12. /\ r.reasoning = Append(c.reasoning, x) /\ r.text = c.text /\ r.messageIndex = c.messageIndex
         /\ r.tools = c.tools /\ r.created
         /\ r.completed = s.completed /\ r.refused = s.refused
         /\ a.reasoningIndex = c.reasoningIndex /\ a.next = c.next
    BY <2>3, <2>4, <2>5, <2>9, <2>11 DEF Others
  <2>13. /\ r.reasoningIndex = (IF c.reasoningIndex = None THEN c.next ELSE c.reasoningIndex)
         /\ r.next = (IF c.reasoningIndex = None THEN c.next + 1 ELSE c.next)
    BY <2>9, <2>11, <2>12 DEF Others
  <2>14. r.out = IF c.reasoningIndex = None
                 THEN Append(Append(c.out, Event("added", c.next, ReasoningItem, <<>>)),
                             Event("reasoning.delta", c.next, ReasoningItem, <<x>>))
                 ELSE Append(c.out, Event("reasoning.delta", c.reasoningIndex, ReasoningItem, <<x>>))
    BY <2>6, <2>9, <2>11, <2>12 DEF e, d
  <2>15. Tracks(P, {}, r)
    BY <2>4, <2>11, <2>12, <2>13, <2>14, ReasoningTracks
  <2> QED
    BY <2>12, <2>15 DEF r
<1> QED
  BY <1>1, <1>2

(* _message_start_events and the delta *)
LEMMA ContentDeltaTracks ==
    ASSUME NEW P \in Seq(Events), NEW s, Tracks(P, {}, s), NEW x \in Fragments
    PROVE  LET r == ContentDelta(s, x) IN
           Tracks(P, {}, r) /\ r.completed = s.completed /\ r.refused = s.refused
<1> DEFINE r == ContentDelta(s, x)
           s1 == [s EXCEPT !.text = Append(@, x)]
           a == Created(s1)
           c == Created(s)
           e == Event("added", a.next, MessageItem, <<>>)
           a1 == [a EXCEPT !.messageIndex = a.next, !.next = @ + 1]
           b == IF a.messageIndex # None THEN a ELSE Emit(a1, <<e>>)
           d == Event("text.delta", b.messageIndex, MessageItem, <<x>>)
<1>1. CASE x = None
  BY <1>1 DEF ContentDelta
<1>2. CASE x # None
  <2>1. r = Emit(b, <<d>>)
    BY <1>2 DEF ContentDelta, MessageStart
  <2>2. s \in Converters
    BY DEF Tracks
  <2>3. /\ s1 \in Converters /\ s1.text = Append(s.text, x)
        /\ s1.reasoning = s.reasoning /\ s1.messageIndex = s.messageIndex /\ s1.reasoningIndex = s.reasoningIndex
        /\ s1.tools = s.tools /\ s1.next = s.next /\ s1.created = s.created /\ s1.out = s.out
        /\ s1.completed = s.completed /\ s1.refused = s.refused
    <3>1. Append(s.text, x) \in Texts
      BY <2>2, Fields DEF Texts
    <3> QED
      BY <2>2, <3>1 DEF Converters
  <2>4. Tracks(P, {}, c) /\ c \in Converters /\ c.created /\ Others(c, s) /\ c.tools = s.tools /\ c.next = s.next
    BY <2>2, CreatedTracks, CreatedType
  <2> HIDE DEF s1
  <2>5. a \in Converters /\ a.created /\ Others(a, s1) /\ a.tools = s1.tools /\ a.next = s1.next
    BY <2>3, CreatedType
  <2>6. a.out = c.out
    BY <2>2, <2>3, CreatedType
  <2> HIDE DEF a, c
  <2>7. /\ a1 \in Converters /\ a1.messageIndex = a.next /\ a1.next = a.next + 1 /\ a1.created
        /\ a1.text = a.text /\ a1.reasoning = a.reasoning /\ a1.reasoningIndex = a.reasoningIndex
        /\ a1.tools = a.tools /\ a1.completed = a.completed /\ a1.refused = a.refused /\ a1.out = a.out
    <3>1. a.next \in Positions /\ a.next + 1 \in Nat
      BY <2>5, Fields
    <3> QED
      BY <2>5, <3>1 DEF Converters
  <2>8. e \in Events /\ a.next # None /\ a.next \in Positions
    <3>1. "added" \in Types /\ a.next \in Positions /\ MessageItem \in Items \cup {None} /\ <<>> \in Texts
      BY <2>5, Fields, OtherItems DEF Types, Texts
    <3> QED
      BY <2>5, <3>1, EventType, Fields, NoneAssumption
  <2> HIDE DEF a1, e
  <2>9. /\ b \in Converters /\ b.created /\ b.text = a.text
        /\ b.reasoning = a.reasoning /\ b.reasoningIndex = a.reasoningIndex
        /\ b.tools = a.tools /\ b.completed = a.completed /\ b.refused = a.refused
        /\ b.messageIndex = (IF a.messageIndex = None THEN a.next ELSE a.messageIndex)
        /\ b.next = (IF a.messageIndex = None THEN a.next + 1 ELSE a.next)
        /\ b.out = (IF a.messageIndex = None THEN Append(a.out, e) ELSE a.out)
    <3>1. CASE a.messageIndex # None
      BY <2>5, <3>1
    <3>2. CASE a.messageIndex = None
      <4>1. b = Emit(a1, <<e>>)
        BY <3>2
      <4> HIDE DEF b
      <4>2. /\ b \in Converters /\ b.out = Append(a1.out, e)
            /\ Others(b, a1) /\ b.created = a1.created /\ b.tools = a1.tools /\ b.next = a1.next
        BY <2>7, <2>8, <4>1, EmittedOne
      <4> QED
        BY <2>7, <3>2, <4>2 DEF Others
    <3> QED
      BY <3>1, <3>2
  <2> HIDE DEF b
  <2>10. d \in Events
    <3>1. /\ "text.delta" \in Types /\ b.messageIndex \in Positions
          /\ MessageItem \in Items \cup {None} /\ <<x>> \in Texts
      BY <2>9, Fields, OtherItems DEF Types, Texts
    <3> QED
      BY <3>1, EventType
  <2> HIDE DEF d, r
  <2>11. /\ r \in Converters /\ r.out = Append(b.out, d)
         /\ Others(r, b) /\ r.created = b.created /\ r.tools = b.tools /\ r.next = b.next
    BY <2>1, <2>9, <2>10, EmittedOne
  <2>12. /\ r.text = Append(c.text, x) /\ r.reasoning = c.reasoning /\ r.reasoningIndex = c.reasoningIndex
         /\ r.tools = c.tools /\ r.created
         /\ r.completed = s.completed /\ r.refused = s.refused
         /\ a.messageIndex = c.messageIndex /\ a.next = c.next
    BY <2>3, <2>4, <2>5, <2>9, <2>11 DEF Others
  <2>13. /\ r.messageIndex = (IF c.messageIndex = None THEN c.next ELSE c.messageIndex)
         /\ r.next = (IF c.messageIndex = None THEN c.next + 1 ELSE c.next)
    BY <2>9, <2>11, <2>12 DEF Others
  <2>14. r.out = IF c.messageIndex = None
                 THEN Append(Append(c.out, Event("added", c.next, MessageItem, <<>>)),
                             Event("text.delta", c.next, MessageItem, <<x>>))
                 ELSE Append(c.out, Event("text.delta", c.messageIndex, MessageItem, <<x>>))
    BY <2>6, <2>9, <2>11, <2>12 DEF e, d
  <2>15. Tracks(P, {}, r)
    BY <2>4, <2>11, <2>12, <2>13, <2>14, ContentTracks
  <2> QED
    BY <2>12, <2>15 DEF r
<1> QED
  BY <1>1, <1>2

(* Only the items count.                                                    *)
LEMMA FlagsTrack ==
    ASSUME NEW P, NEW closed, NEW s, Tracks(P, closed, s), NEW r \in Converters,
           r.reasoning = s.reasoning, r.reasoningIndex = s.reasoningIndex,
           r.text = s.text, r.messageIndex = s.messageIndex,
           r.tools = s.tools, r.next = s.next, r.created = s.created, r.out = s.out
    PROVE  Tracks(P, closed, r)
<1>1. SlotsOf(r) = SlotsOf(s)
  BY DEF SlotsOf
<1>2. Coherent(r)
  BY DEF Tracks, Coherent
<1> QED
  BY <1>1, <1>2 DEF Tracks

(* The finish reason of a chunk keeps the account, or has the chunk refused. *)
LEMMA FinishReasonSound ==
    ASSUME NEW P, NEW completed, NEW s, Sound(P, {}, completed, s), NEW c \in Chunks
    PROVE  Sound(P, {}, completed, FinishReason(s, c.finish))
<1> DEFINE f == c.finish
           r == [s EXCEPT !.pending = IF f = "length" THEN "incomplete" ELSE "completed"]
<1>0. s \in Converters
  BY DEF Sound
<1>1. CASE s.refused \/ f = None
  BY <1>1 DEF FinishReason
<1>2. CASE ~(s.refused \/ f = None) /\ f = "other"
  BY <1>0, <1>2, RefusedSound DEF FinishReason
<1>3. CASE ~(s.refused \/ f = None) /\ f # "other"
  <2>1. /\ r \in Converters
        /\ r.reasoning = s.reasoning /\ r.reasoningIndex = s.reasoningIndex
        /\ r.text = s.text /\ r.messageIndex = s.messageIndex
        /\ r.tools = s.tools /\ r.next = s.next /\ r.created = s.created /\ r.out = s.out
        /\ r.completed = s.completed /\ r.refused = s.refused
    BY <1>0 DEF Converters
  <2>2. FinishReason(s, f) = r
    BY <1>3 DEF FinishReason
  <2> HIDE DEF r
  <2>3. Tracks(P, {}, s) /\ s.completed = completed
    BY <1>3 DEF Sound
  <2>4. Tracks(P, {}, r)
    BY <2>1, <2>3, FlagsTrack
  <2> QED
    BY <1>3, <2>1, <2>2, <2>3, <2>4 DEF Sound
<1> QED
  BY <1>1, <1>2, <1>3

(* The types of the fields of a chunk.                                      *)
LEMMA ChunkFields ==
    ASSUME NEW c \in Chunks
    PROVE  c.reasoning \in Fragments /\ c.content \in Fragments /\ c.tools \in Seq(Deltas)
<1>1. ToSet(c.tools) \subseteq Deltas
  BY DEF Deltas
<1>2. c.tools \in Seq(ToSet(c.tools))
  BY ChunksAssumption
<1>3. c.tools \in Seq(Deltas)
  BY <1>1, <1>2, SeqMonotonic
<1> QED
  BY <1>3 DEF Fragments

(* events_for_chunk *)
LEMMA ChunkSound ==
    ASSUME NEW P \in Seq(Events), NEW s, Tracks(P, {}, s), ~s.completed, ~s.refused, NEW c \in Chunks
    PROVE  Sound(P, {}, FALSE, EventsForChunk(s, c))
<1> DEFINE a == ReasoningDelta(s, c.reasoning)
           b == ContentDelta(a, c.content)
           t == ToolDeltasOf(b, c.tools)
<1>0. s \in Converters /\ s.completed = FALSE
  BY Fields DEF Tracks
<1>1. CASE c.kind = "usage"
  BY <1>0, <1>1 DEF EventsForChunk, Sound
<1>2. CASE c.kind # "usage" /\ (c.kind = "bad" \/ s.completed \/ s.pending # None)
  BY <1>0, <1>2, RefusedSound DEF EventsForChunk
<1>3. CASE c.kind # "usage" /\ ~(c.kind = "bad" \/ s.completed \/ s.pending # None)
  <2>1. Tracks(P, {}, a) /\ a.completed = s.completed /\ a.refused = s.refused
    BY ChunkFields, ReasoningDeltaTracks
  <2> HIDE DEF a
  <2>2. Tracks(P, {}, b) /\ b.completed = a.completed /\ b.refused = a.refused
    BY <2>1, ChunkFields, ContentDeltaTracks
  <2> HIDE DEF b
  <2>3. Sound(P, {}, FALSE, b)
    BY <1>0, <2>1, <2>2 DEF Sound, Tracks
  <2>4. Sound(P, {}, FALSE, t)
    BY <2>3, ChunkFields, ToolDeltasSound
  <2> HIDE DEF t
  <2>5. Sound(P, {}, FALSE, FinishReason(t, c.finish))
    BY <2>4, FinishReasonSound
  <2> QED
    BY <1>3, <2>5 DEF EventsForChunk, a, b, t
<1> QED
  BY <1>1, <1>2, <1>3

-----------------------------------------------------------------------------
(* The end of a stream.                                                     *)

(* The two events that close an item are events.                            *)
LEMMA DoneEventsType ==
    ASSUME NEW type \in SayTypes, NEW index \in Positions, NEW item \in Items,
           NEW said \in Texts, NEW text \in Texts
    PROVE  /\ Event(type, index, item, said) \in Events /\ Event("item.done", index, item, text) \in Events
           /\ DoneEvents(type, index, item, said, text) \in Seq(Events)
<1>1. type \in Types /\ "item.done" \in Types /\ item \in Items \cup {None}
  BY DEF SayTypes, Types
<1>2. Event(type, index, item, said) \in Events /\ Event("item.done", index, item, text) \in Events
  BY <1>1, EventType
<1> QED
  BY <1>2 DEF DoneEvents

(* Two events are sent.                                                     *)
LEMMA EmittedTwo ==
    ASSUME NEW s \in Converters, NEW d \in Events, NEW e \in Events, NEW r, r = Emit(s, <<d, e>>)
    PROVE  /\ r \in Converters /\ r.out = Append(Append(s.out, d), e)
           /\ Others(r, s) /\ r.created = s.created /\ r.tools = s.tools /\ r.next = s.next
<1>1. <<d, e>> \in Seq(Events) /\ s.out \in Seq(Events)
  BY Fields
<1>2. s.out \o <<d, e>> = Append(Append(s.out, d), e)
  BY <1>1
<1> QED
  BY <1>1, <1>2, Emitted

(* An item is closed.                                                       *)
LEMMA CloseTracks ==
    ASSUME NEW P \in Seq(Events), NEW closed, NEW s, Tracks(P, closed, s), s.created,
           NEW t \in Slots, \E p \in Keys : SlotsOf(s)[p] = t, t.out # None, t.added, t.out \notin closed,
           NEW type \in SayTypes, NEW said \in Texts, Says(type, t.item, t.text, said),
           NEW r, r = Emit(s, DoneEvents(type, t.out, t.item, said, t.text))
    PROVE  /\ Tracks(P, closed \cup {t.out}, r) /\ r \in Converters
           /\ Others(r, s) /\ r.created = s.created /\ r.tools = s.tools /\ r.next = s.next
<1> DEFINE d == Event(type, t.out, t.item, said)
           e == Event("item.done", t.out, t.item, t.text)
           f == SlotsOf(s)
           E == P \o s.out
<1>1. s \in Converters /\ s.out \in Seq(Events) /\ s.created = TRUE
  <2>1. s \in Converters
    BY DEF Tracks
  <2> QED
    BY <2>1, Fields
<1>2. d \in Events /\ e \in Events /\ DoneEvents(type, t.out, t.item, said, t.text) \in Seq(Events)
  <2>1. t.out \in Positions /\ t.item \in Items /\ t.text \in Texts
    BY DEF Slots
  <2> QED
    BY <2>1, DoneEventsType
<1>3. DoneEvents(type, t.out, t.item, said, t.text) = <<d, e>>
  BY DEF DoneEvents
<1>4. /\ r \in Converters /\ r.out = Append(Append(s.out, d), e)
      /\ Others(r, s) /\ r.created = s.created /\ r.tools = s.tools /\ r.next = s.next
  <2>1. d \in Events /\ e \in Events /\ r = Emit(s, <<d, e>>)
    BY <1>2, <1>3
  <2> HIDE DEF d, e
  <2> QED
    BY ONLY <1>1, <2>1, EmittedTwo
<1>5. Account(Append(Append(E, d), e), closed \cup {t.out}, s.next, TRUE, f)
  <2>1. Account(E, closed, s.next, TRUE, f)
    BY <1>1 DEF Tracks
  <2>2. PICK p \in DOMAIN f : f[p] = t
    BY <1>1, SlotsAt
  <2>3. type \in SayTypes /\ said \in Texts /\ t = f[p] /\ Says(type, f[p].item, f[p].text, said)
    BY <2>2
  <2>4. f[p].out # None /\ f[p].added /\ f[p].out \notin closed
    BY <2>3
  <2> HIDE DEF f, E
  <2>5. LET n == f[p].out
            F == Append(E, Event(type, n, f[p].item, said))
        IN Account(Append(F, Event("item.done", n, f[p].item, f[p].text)), closed \cup {n}, s.next, TRUE, f)
    BY ONLY <2>1, <2>2, <2>3, <2>4, AccountClose
  <2> QED
    BY <2>3, <2>5
<1>6. P \o r.out = Append(Append(E, d), e)
  <2> HIDE DEF d, e
  <2>1. Append(s.out, d) \in Seq(Events) /\ P \o Append(s.out, d) = Append(E, d)
    BY <1>1, <1>2, ConcatAppend
  <2>2. P \o Append(Append(s.out, d), e) = Append(P \o Append(s.out, d), e)
    BY <1>2, <2>1, ConcatAppend
  <2> QED
    BY <1>4, <2>1, <2>2
<1>7. SlotsOf(r) = f /\ Coherent(r)
  BY <1>4, SameSlots DEF Tracks
<1> HIDE DEF d, e, E, f
<1>8. Tracks(P, closed \cup {t.out}, r)
  BY <1>1, <1>4, <1>5, <1>6, <1>7 DEF Tracks, f
<1> QED
  BY <1>4, <1>8

(* What a step for a call does not change of any call.                      *)
SameCalls(r, s) ==
    \A j \in Indices : /\ r.tools[j].out = s.tools[j].out
                       /\ r.tools[j].id = s.tools[j].id /\ r.tools[j].name = s.tools[j].name

(* Announcing a call changes no index, id or name.                          *)
LEMMA ToolAddedCalls ==
    ASSUME NEW s \in Converters, NEW i \in Indices, NEW r, r = ToolAdded(s, i)
    PROVE  SameCalls(r, s)
<1> DEFINE t == s.tools[i]
<1>1. t \in Tools /\ s.tools \in [Indices -> Tools]
  BY Fields
<1>2. ~Announces(t) => r = s
  BY ToolAddedOf
<1>3. Announces(t) => r.tools = [s.tools EXCEPT ![i] = Added(t)]
  BY ToolAddedOf
<1>4. Added(t).out = t.out /\ Added(t).id = t.id /\ Added(t).name = t.name
  BY <1>1 DEF Added, Tools
<1> QED
  BY <1>1, <1>2, <1>3, <1>4 DEF SameCalls

(* The last events of a call are events.                                    *)
LEMMA FinishToolType ==
    ASSUME NEW s \in Converters, NEW i \in Indices
    PROVE  FinishTool(s, i) \in Converters
<1> DEFINE a == ToolAdded(s, i)
           t == a.tools[i]
<1>1. a \in Converters
  BY ToolAddedType
<1> HIDE DEF a
<1>2. t \in Tools
  BY <1>1, Fields
<1>3. DoneEvents("args.done", t.out, CallItem(t), t.args, t.args) \in Seq(Events)
  BY <1>2, ToolFields, DoneEventsType DEF SayTypes
<1>4. Emit(a, DoneEvents("args.done", t.out, CallItem(t), t.args, t.args)) \in Converters
  BY <1>1, <1>3, Emitted
<1> QED
  BY <1>4 DEF FinishTool, a

(* What the last events of a call leave alone.                              *)
Keeps(r, s) == Others(r, s) /\ r.next = s.next /\ r.created /\ SameCalls(r, s)

(* A call is closed.                                                        *)
LEMMA FinishToolTracks ==
    ASSUME NEW P \in Seq(Events), NEW closed, NEW s, Tracks(P, closed, s), s.created,
           NEW i \in Indices, NEW n, n = s.tools[i].out, n # None, n \notin closed,
           s.tools[i].id # None, s.tools[i].name # None,
           NEW r, r = FinishTool(s, i)
    PROVE  Tracks(P, closed \cup {n}, r) /\ Keeps(r, s)
<1> DEFINE a == ToolAdded(s, i)
           t == a.tools[i]
           c == CallSlot(t)
<1>0. s \in Converters /\ s.tools[i] \in Tools
  BY Fields DEF Tracks
<1>1. /\ a \in Converters /\ Others(a, s) /\ a.next = s.next
      /\ ~Announces(s.tools[i]) => a = s
      /\ Announces(s.tools[i]) => a.created /\ t = Added(s.tools[i])
  <2> DEFINE u == s.tools[i]
  <2>1. u = s.tools[i] /\ a = ToolAdded(s, i)
    OBVIOUS
  <2> HIDE DEF a, u
  <2>2. /\ a \in Converters /\ Others(a, s) /\ a.next = s.next
        /\ ~Announces(u) => a = s
        /\ Announces(u) => a.created /\ a.tools[i] = Added(u)
    <3>1. a \in Converters
      BY <1>0, <2>1, ToolAddedType
    <3>2. Others(a, s) /\ a.next = s.next
      BY <1>0, <2>1, ToolAddedType
    <3>3. ~Announces(u) => a = s
      BY <1>0, <2>1, ToolAddedType
    <3>4. Announces(u) => a.created
      BY <1>0, <2>1, ToolAddedOf
    <3>5. Announces(u) => a.tools[i] = Added(u)
      BY <1>0, <2>1, ToolAddedType DEF Added
    <3> QED
      BY ONLY <3>1, <3>2, <3>3, <3>4, <3>5
  <2> QED
    BY <2>1, <2>2
<1>2. SameCalls(a, s) /\ Tracks(P, closed, a)
  BY <1>0, ToolAddedCalls, ToolAddedTracks
<1>3. a.created /\ t.added
  <2>1. Added(s.tools[i]).added
    BY <1>0 DEF Added, Tools
  <2> QED
    BY <1>0, <1>1, <2>1, ToolFields DEF Announces
<1>4. t \in Tools /\ t.out = n
  BY <1>1, <1>2, Fields DEF SameCalls
<1>5. r = Emit(a, DoneEvents("args.done", t.out, CallItem(t), t.args, t.args))
  BY DEF FinishTool
<1> HIDE DEF a
<1>6. c = SlotsOf(a)[CKey(i)] /\ CKey(i) \in Keys
  BY <1>1, SlotsAt, KeysDiffer
<1>7. c \in Slots /\ c.out = t.out /\ c.item = CallItem(t) /\ c.text = t.args /\ c.added = t.added
  BY <1>4, CallSlotFields
<1> HIDE DEF c
<1>8. "args.done" \in SayTypes
  BY DEF SayTypes
<1>9. r = Emit(a, DoneEvents("args.done", c.out, c.item, c.text, c.text))
  BY <1>5, <1>7
<1>10. c.out # None /\ c.added /\ c.out \notin closed /\ c.out = n
  BY <1>3, <1>4, <1>7
<1>11. /\ Tracks(P, closed \cup {c.out}, r) /\ r \in Converters
       /\ Others(r, a) /\ r.created = a.created /\ r.tools = a.tools /\ r.next = a.next
  <2> DEFINE type == "args.done"
             k == CKey(i)
             said == c.text
  <2>1. /\ type \in SayTypes /\ r = Emit(a, DoneEvents(type, c.out, c.item, said, c.text))
        /\ k \in Keys /\ c = SlotsOf(a)[k]
        /\ Says(type, c.item, c.text, said)
    BY <1>6, <1>8, <1>9 DEF Says
  <2>s. said \in Texts
    BY <1>7 DEF Slots
  <2> HIDE DEF type, k, said
  <2>2. Tracks(P, closed, a) /\ a.created /\ c \in Slots
    BY <1>2, <1>3, <1>7
  <2>3. Tracks(P, closed \cup {c.out}, r)
    BY ONLY P \in Seq(Events), <1>10, <2>1, <2>2, <2>s, CloseTracks, Zenon
  <2>4. c.out \in Positions /\ c.item \in Items /\ c.text \in Texts
    BY <2>2 DEF Slots
  <2>5. DoneEvents(type, c.out, c.item, said, c.text) \in Seq(Events)
    BY <2>1, <2>4, <2>s, DoneEventsType
  <2>6. /\ r \in Converters
        /\ Others(r, a) /\ r.created = a.created /\ r.tools = a.tools /\ r.next = a.next
    BY <1>1, <2>1, <2>5, Emitted
  <2> QED
    BY <2>3, <2>6
<1> QED
  BY <1>1, <1>2, <1>3, <1>10, <1>11 DEF Others, SameCalls, Keeps

(* The calls whose item has this index: one, or none.                       *)
CallsAt(s, n) == {i \in Indices : s.tools[i].out = n}

(* The step for the index n - 1.                                            *)
FinishAt(s, n, v) == IF CallsAt(s, n - 1) = {} THEN v ELSE FinishTool(v, CHOOSE i \in CallsAt(s, n - 1) : TRUE)

(* What the steps for the indices below n have done.                        *)
FinishedBelow(P, closed, s, n, v) ==
    /\ Tracks(P, closed \cup {k \in 0 .. n - 1 : CallsAt(s, k) # {}}, v)
    /\ Keeps(v, s)

(* Every call that has an index can be closed.                              *)
Closable(s, closed) ==
    \A i \in Indices : s.tools[i].out # None => /\ s.tools[i].id # None /\ s.tools[i].name # None
                                                /\ s.tools[i].out \notin closed

(* The step for one index closes the call that has it, if there is one.     *)
LEMMA FinishAtSound ==
    ASSUME NEW P \in Seq(Events), NEW closed, NEW s, Tracks(P, closed, s), Closable(s, closed),
           NEW n \in Nat, n + 1 <= s.next, NEW v, FinishedBelow(P, closed, s, n, v)
    PROVE  FinishedBelow(P, closed, s, n + 1, FinishAt(s, n + 1, v))
<1> DEFINE below == {k \in 0 .. n - 1 : CallsAt(s, k) # {}}
           upTo == {k \in 0 .. n : CallsAt(s, k) # {}}
           r == FinishAt(s, n + 1, v)
<1>1. (n + 1) - 1 = n /\ n # None
  BY NoneAssumption
<1>2. CASE CallsAt(s, n) = {}
  <2>1. r = v
    BY <1>1, <1>2 DEF FinishAt
  <2>2. upTo = below
    BY <1>2
  <2> QED
    BY <1>1, <2>1, <2>2 DEF FinishedBelow
<1>3. CASE CallsAt(s, n) # {}
  <2> DEFINE i == CHOOSE i \in CallsAt(s, n) : TRUE
  <2>1. i \in CallsAt(s, n)
    BY <1>3
  <2>2. r = FinishTool(v, i)
    BY <1>1, <1>3 DEF FinishAt
  <2> HIDE DEF i
  <2>3. i \in Indices /\ s.tools[i].out = n
    BY <2>1 DEF CallsAt
  <2>4. v.tools[i].out = n /\ v.tools[i].id # None /\ v.tools[i].name # None /\ n \notin closed
    BY <1>1, <2>3 DEF FinishedBelow, Keeps, SameCalls, Closable
  <2>5. n \notin below
    OBVIOUS
  <2>6. upTo = below \cup {n}
    BY <1>3
  <2>7. Tracks(P, closed \cup below, v) /\ v.created
    BY DEF FinishedBelow, Keeps
  <2> HIDE DEF below, upTo, r
  <2> DEFINE gone == closed \cup below
  <2>8. n \notin gone
    BY <2>4, <2>5
  <2>9. gone \cup {n} = closed \cup upTo
    BY <2>6
  <2> HIDE DEF gone
  <2>10. Tracks(P, gone, v)
    BY <2>7 DEF gone
  <2>11. Tracks(P, gone \cup {n}, r) /\ Keeps(r, v)
    <3>1. n = v.tools[i].out /\ n # None /\ v.tools[i].id # None /\ v.tools[i].name # None
      BY <1>1, <2>4
    <3>2. i \in Indices /\ v.created
      BY <2>3, <2>7
    <3> QED
      BY ONLY P \in Seq(Events), <2>2, <2>8, <2>10, <3>1, <3>2, FinishToolTracks, Zenon
  <2>12. Tracks(P, closed \cup upTo, r)
    BY <2>9, <2>11
  <2>13. Keeps(r, s)
    BY <2>11 DEF FinishedBelow, Keeps, Others, SameCalls
  <2> QED
    BY <1>1, <2>12, <2>13 DEF FinishedBelow, r, upTo
<1> QED
  BY <1>2, <1>3

(* All calls are closed.                                                    *)
LEMMA FinishToolsTrack ==
    ASSUME NEW P \in Seq(Events), NEW closed, NEW s, Tracks(P, closed, s), s.created, Closable(s, closed)
    PROVE  FinishedBelow(P, closed, s, s.next, FinishTools(s))
<1> DEFINE V == Converters
           m == s.next
           step == [a \in (1..m) \X V |-> FinishAt(s, a[1], a[2])]
           Def(f) == f = [n \in 0..m |-> IF n = 0 THEN s
                                         ELSE IF CallsAt(s, n - 1) = {} THEN f[n - 1]
                                         ELSE FinishTool(f[n - 1], CHOOSE i \in CallsAt(s, n - 1) : TRUE)]
           after == CHOOSE f : Def(f)
<1>1. s \in V /\ m \in Nat
  BY Fields DEF Tracks
<1>2. ASSUME NEW n \in 1..m, NEW v \in V PROVE FinishAt(s, n, v) \in V
  <2>1. CASE CallsAt(s, n - 1) = {}
    BY <2>1 DEF FinishAt
  <2>2. CASE CallsAt(s, n - 1) # {}
    <3> DEFINE i == CHOOSE i \in CallsAt(s, n - 1) : TRUE
    <3>1. i \in Indices
      BY <2>2 DEF CallsAt
    <3>2. FinishAt(s, n, v) = FinishTool(v, i)
      BY <2>2 DEF FinishAt
    <3> HIDE DEF i
    <3> QED
      BY <3>1, <3>2, FinishToolType
  <2> QED
    BY <2>1, <2>2
<1> HIDE DEF V
<1>3. step \in [(1..m) \X V -> V]
  BY <1>2
<1>4. \A n \in 1..m, v \in V : step[<<n, v>>] = FinishAt(s, n, v)
  OBVIOUS
<1> HIDE DEF step
<1>5. PICK f : Iterates(f, V, s, step, m)
  BY <1>1, <1>3, IterationExists
<1>6. Def(f)
  <2>1. f \in [0..m -> V] /\ f[0] = s
    BY <1>5 DEF Iterates
  <2>2. ASSUME NEW n \in 1..m PROVE f[n] = FinishAt(s, n, f[n - 1])
    <3>1. n - 1 \in 0..m
      BY <1>1
    <3>2. f[n - 1] \in V /\ f[n] = step[<<n, f[n - 1]>>]
      BY <1>5, <2>1, <3>1 DEF Iterates
    <3> QED
      BY <1>4, <3>2
  <2>3. f = [n \in 0..m |-> f[n]]
    BY <2>1
  <2>4. ASSUME NEW n \in 0..m
        PROVE  f[n] = IF n = 0 THEN s
                      ELSE IF CallsAt(s, n - 1) = {} THEN f[n - 1]
                      ELSE FinishTool(f[n - 1], CHOOSE i \in CallsAt(s, n - 1) : TRUE)
    <3>1. CASE n = 0
      BY <2>1, <3>1
    <3>2. CASE n # 0
      <4>1. n \in 1..m
        BY <1>1, <3>2
      <4> QED
        BY <2>2, <3>2, <4>1 DEF FinishAt
    <3> QED
      BY <3>1, <3>2
  <2> QED
    BY <2>3, <2>4
<1>7. Def(after)
  <2> HIDE DEF Def
  <2> QED
    BY <1>6
<1>8. FinishTools(s) = after[m]
  BY DEF FinishTools, CallsAt
<1> HIDE DEF after
<1>9. after[0] = s /\ \A n \in 1..m : after[n] = FinishAt(s, n, after[n - 1])
  <2>1. after[0] = s
    BY <1>1, <1>7
  <2>2. ASSUME NEW n \in 1..m PROVE after[n] = FinishAt(s, n, after[n - 1])
    <3>1. n \in 0..m /\ n # 0
      BY <1>1
    <3>2. after[n] = IF n = 0 THEN s
                     ELSE IF CallsAt(s, n - 1) = {} THEN after[n - 1]
                     ELSE FinishTool(after[n - 1], CHOOSE i \in CallsAt(s, n - 1) : TRUE)
      BY <1>7, <3>1
    <3> QED
      BY <3>1, <3>2 DEF FinishAt
  <2> QED
    BY <2>1, <2>2
<1> HIDE DEF Def
<1> DEFINE S == {n \in Nat : n <= m => FinishedBelow(P, closed, s, n, after[n])}
<1>10. 0 \in S
  <2>1. {k \in 0 .. 0 - 1 : CallsAt(s, k) # {}} = {}
    OBVIOUS
  <2>2. closed \cup {k \in 0 .. 0 - 1 : CallsAt(s, k) # {}} = closed
    BY <2>1
  <2>3. Keeps(s, s)
    BY DEF Keeps, Others, SameCalls
  <2> QED
    BY <1>9, <2>2, <2>3 DEF FinishedBelow
<1>11. ASSUME NEW n \in Nat, n \in S PROVE n + 1 \in S
  <2> SUFFICES ASSUME n + 1 <= m PROVE FinishedBelow(P, closed, s, n + 1, after[n + 1])
    OBVIOUS
  <2>1. FinishedBelow(P, closed, s, n, after[n])
    BY <1>1, <1>11
  <2>2. n + 1 \in 1..m /\ (n + 1) - 1 = n
    BY <1>1
  <2>3. after[n + 1] = FinishAt(s, n + 1, after[n])
    BY <1>9, <2>2
  <2> QED
    BY <2>1, <2>3, FinishAtSound
<1> HIDE DEF S
<1>12. \A n \in Nat : n \in S
  BY <1>10, <1>11, SetInduction
<1>13. m \in S
  BY <1>1, <1>12
<1> QED
  BY <1>1, <1>8, <1>13 DEF S

-----------------------------------------------------------------------------
(* The response at the end.                                                 *)

(* When all items are closed, by events after P, the output lists them all. *)
LEMMA OutputLists ==
    ASSUME NEW P \in Seq(Events), ClosedIn(P) = {}, NEW o \in Seq(Events),
           NEW next, NEW f, Account(P \o o, 0 .. next - 1, next, TRUE, f)
    PROVE  Lists(P \o o, Output(o)) /\ Output(o) \in Outputs
<1> DEFINE E == P \o o
           m == Len(P)
           done == {k \in DOMAIN o : o[k].type = "item.done"}
           used == {o[k].index : k \in done}
           nth(n) == CHOOSE i \in used : Cardinality({j \in used : j < i}) = n - 1
           closing(i) == CHOOSE k \in done : o[k].index = i
<1>1. /\ m \in Nat /\ DOMAIN P = 1..m /\ DOMAIN o = 1..Len(o) /\ Len(o) \in Nat
      /\ DOMAIN E = 1..(m + Len(o)) /\ E \in Seq(Events)
      /\ \A k \in 1..m : E[k] = P[k]
      /\ \A k \in 1..Len(o) : E[m + k] = o[k]
  BY ConcatProperties
<1> HIDE DEF E
<1>2. next \in Nat /\ ClosedIn(E) = 0 .. next - 1
  BY DEF Account, E
<1>3. ASSUME NEW j \in OfType(E, "item.done") PROVE j - m \in done /\ E[j] = o[j - m]
  <2>1. j \in 1..(m + Len(o)) /\ E[j].type = "item.done"
    BY <1>1 DEF OfType
  <2>2. j \notin 1..m
    <3> SUFFICES ASSUME j \in 1..m PROVE FALSE
      OBVIOUS
    <3>1. j \in OfType(P, "item.done")
      BY <1>1, <2>1 DEF OfType
    <3> QED
      BY <3>1 DEF ClosedIn
  <2>3. j - m \in 1..Len(o) /\ j = m + (j - m)
    BY <1>1, <2>1, <2>2
  <2>4. E[j] = o[j - m]
    BY <1>1, <2>3
  <2> QED
    BY <1>1, <2>1, <2>3, <2>4
<1>4. ASSUME NEW k \in done PROVE m + k \in OfType(E, "item.done") /\ E[m + k] = o[k]
  BY <1>1 DEF OfType
<1>5. used = 0 .. next - 1
  <2>1. \A i \in used : i \in ClosedIn(E)
    BY <1>4 DEF ClosedIn
  <2>2. \A i \in ClosedIn(E) : i \in used
    BY <1>3 DEF ClosedIn
  <2> QED
    BY <1>2, <2>1, <2>2
<1>6. ASSUME NEW i \in used PROVE closing(i) \in done /\ o[closing(i)].index = i
  <2>1. \E k \in done : o[k].index = i
    OBVIOUS
  <2> HIDE DEF done
  <2> QED
    BY <2>1
<1> HIDE DEF done, used
<1>7. Cardinality(used) = next
  BY <1>2, <1>5, FS_Interval
<1>8. ASSUME NEW n \in 1..next PROVE nth(n) = n - 1
  <2>1. ASSUME NEW i \in used PROVE Cardinality({j \in used : j < i}) = i
    <3>1. i \in Nat /\ {j \in used : j < i} = 0 .. i - 1
      BY <1>2, <1>5
    <3>2. Cardinality(0 .. i - 1) = i
      BY <3>1, FS_Interval
    <3> QED
      BY <3>1, <3>2
  <2>2. n - 1 \in used
    BY <1>2, <1>5
  <2> QED
    BY <2>1, <2>2
<1> HIDE DEF nth, closing
<1>9. Output(o) = [n \in 1..next |-> [item |-> o[closing(nth(n))].item, text |-> o[closing(nth(n))].text]]
  BY <1>7 DEF Output, closing, nth, used, done
<1>10. ASSUME NEW n \in 1..next
       PROVE  /\ closing(n - 1) \in done /\ o[closing(n - 1)].index = n - 1
              /\ Output(o)[n] = [item |-> o[closing(n - 1)].item, text |-> o[closing(n - 1)].text]
  <2>1. n - 1 \in used
    BY <1>2, <1>5
  <2> QED
    BY <1>6, <1>8, <1>9, <2>1
<1>11. DOMAIN Output(o) = 1..next
  BY <1>9
<1>12. Output(o) \in Outputs /\ Len(Output(o)) = next
  <2> DEFINE R == [item : Items \cup {None}, text : Texts]
  <2>1. ASSUME NEW n \in 1..next PROVE Output(o)[n] \in R
    <3> DEFINE x == o[closing(n - 1)].item
               y == o[closing(n - 1)].text
    <3>1. closing(n - 1) \in 1..Len(o)
      BY <1>1, <1>10 DEF done
    <3>2. x \in Items \cup {None} /\ y \in Texts
      BY <3>1, EventOf
    <3>3. Output(o)[n] = [item |-> x, text |-> y]
      BY <1>10
    <3> HIDE DEF x, y
    <3>4. [item |-> x, text |-> y] \in R
      BY <3>2
    <3> QED
      BY <3>3, <3>4
  <2>2. Outputs = Seq(R)
    BY DEF Outputs
  <2> HIDE DEF R
  <2>3. Output(o) \in [1..next -> R]
    BY <1>9, <2>1
  <2>4. Output(o) \in Seq(R) /\ Len(Output(o)) = next
    <3> DEFINE w == Output(o)
    <3>1. w \in [1..next -> R] /\ next \in Nat
      BY <1>2, <2>3
    <3> HIDE DEF w
    <3>2. w \in Seq(R) /\ Len(w) = next
      BY <3>1
    <3> QED
      BY <3>2 DEF w
  <2> QED
    BY <2>2, <2>4
<1>13. AnnouncedIn(E) = 0 .. next - 1
  <2>1. \A n \in ClosedIn(E) : n \in AnnouncedIn(E)
    <3>1. WellFormed(E)
      BY DEF Account, E
    <3> SUFFICES ASSUME NEW k \in OfType(E, "item.done") PROVE E[k].index \in AnnouncedIn(E)
      BY DEF ClosedIn
    <3>2. IsAnnounced(E, E[k].index, E[k].item)
      BY <3>1 DEF WellFormed
    <3> QED
      BY <3>2 DEF IsAnnounced, AnnouncedIn
  <2>2. ASSUME NEW j \in OfType(E, "added") PROVE E[j].index \in 0 .. next - 1
    <3>1. j \in DOMAIN E /\ E[j].type # "created"
      BY DEF OfType
    <3> QED
      BY <3>1 DEF Account, E
  <2> QED
    BY <1>2, <2>1, <2>2 DEF AnnouncedIn
<1>14. ASSUME NEW n \in DOMAIN Output(o)
       PROVE  \E j \in OfType(E, "item.done") :
                 E[j].index = n - 1 /\ Output(o)[n] = [item |-> E[j].item, text |-> E[j].text]
  <2> DEFINE k == closing(n - 1)
  <2>1. n \in 1..next
    BY <1>11
  <2>2. m + k \in OfType(E, "item.done") /\ E[m + k] = o[k]
    BY <1>4, <1>10, <2>1
  <2> QED
    BY <1>10, <2>1, <2>2
<1>15. Lists(E, Output(o))
  BY <1>12, <1>13, <1>14 DEF Lists
<1> QED
  BY <1>12, <1>15 DEF E

(* Every index is that of one item.                                         *)
LEMMA IndicesTracked ==
    ASSUME NEW P \in Seq(Events), NEW closed, NEW s, Tracks(P, closed, s)
    PROVE  /\ s.reasoningIndex # None => /\ s.reasoningIndex # s.messageIndex
                                         /\ \A i \in Indices : s.tools[i].out # s.reasoningIndex
           /\ s.messageIndex # None => \A i \in Indices : s.tools[i].out # s.messageIndex
           /\ \A n \in 0 .. s.next - 1 : n = s.reasoningIndex \/ n = s.messageIndex \/ CallsAt(s, n) # {}
           /\ s.reasoningIndex # None => s.reasoningIndex \in 0 .. s.next - 1
           /\ s.messageIndex # None => s.messageIndex \in 0 .. s.next - 1
<1> DEFINE f == SlotsOf(s)
<1>1. s \in Converters
  BY DEF Tracks
<1>2. f[RKey].out = s.reasoningIndex /\ f[MKey].out = s.messageIndex
  <2>1. /\ f[RKey] = Slot(s.reasoningIndex, ReasoningItem, s.reasoning, s.reasoningIndex # None)
        /\ f[MKey] = Slot(s.messageIndex, MessageItem, s.text, s.messageIndex # None)
    BY <1>1, SlotsAt
  <2> QED
    BY <2>1 DEF Slot
<1>3. \A i \in Indices : f[CKey(i)].out = s.tools[i].out
  <2> SUFFICES ASSUME NEW i \in Indices PROVE f[CKey(i)].out = s.tools[i].out
    OBVIOUS
  <2>1. f[CKey(i)] = CallSlot(s.tools[i])
    BY <1>1, SlotsAt
  <2> QED
    BY <2>1 DEF CallSlot, Slot
<1>4. DOMAIN f = Keys
  BY <1>1, SlotsAt
<1>5. /\ {f[p].out : p \in DOMAIN f} \ {None} = 0 .. s.next - 1
      /\ \A p, q \in DOMAIN f : f[p].out = f[q].out /\ f[p].out # None => p = q
  BY DEF Tracks, Account
<1> HIDE DEF f
<1>6. s.reasoningIndex # None => s.reasoningIndex # s.messageIndex
  BY <1>2, <1>4, <1>5, KeysDiffer
<1>7. ASSUME NEW i \in Indices, s.reasoningIndex # None PROVE s.tools[i].out # s.reasoningIndex
  BY <1>2, <1>3, <1>4, <1>5, <1>7, KeysDiffer
<1>8. ASSUME NEW i \in Indices, s.messageIndex # None PROVE s.tools[i].out # s.messageIndex
  BY <1>2, <1>3, <1>4, <1>5, <1>8, KeysDiffer
<1>9. ASSUME NEW n \in 0 .. s.next - 1 PROVE n = s.reasoningIndex \/ n = s.messageIndex \/ CallsAt(s, n) # {}
  <2>1. PICK p \in Keys : f[p].out = n
    BY <1>4, <1>5
  <2>2. CASE \E i \in Indices : p = CKey(i)
    BY <1>3, <2>1, <2>2 DEF CallsAt
  <2> QED
    BY <1>2, <2>1, <2>2, KeysDiffer
<1>10. /\ s.reasoningIndex # None => s.reasoningIndex \in 0 .. s.next - 1
       /\ s.messageIndex # None => s.messageIndex \in 0 .. s.next - 1
  BY <1>2, <1>4, <1>5, KeysDiffer
<1> QED
  BY <1>6, <1>7, <1>8, <1>9, <1>10

(* The calls are as they were.                                              *)
SameTools(r, s) == r.tools = s.tools

(* An item is closed if there is one.                                       *)
LEMMA CloseIfOpen ==
    ASSUME NEW P \in Seq(Events), NEW closed, NEW s, Tracks(P, closed, s), s.created,
           NEW t \in Slots, \E p \in Keys : SlotsOf(s)[p] = t, t.out # None => t.added /\ t.out \notin closed,
           NEW type \in SayTypes, NEW said \in Texts, Says(type, t.item, t.text, said),
           NEW r, r = IF t.out = None THEN s ELSE Emit(s, DoneEvents(type, t.out, t.item, said, t.text))
    PROVE  Tracks(P, closed \cup ({t.out} \ {None}), r) /\ Keeps(r, s) /\ SameTools(r, s)
<1>0. s \in Converters
  BY DEF Tracks
<1>1. CASE t.out = None
  <2>1. closed \cup ({t.out} \ {None}) = closed /\ r = s
    BY <1>1
  <2> QED
    BY <2>1 DEF Keeps, Others, SameCalls, SameTools
<1>2. CASE t.out # None
  <2> DEFINE es == DoneEvents(type, t.out, t.item, said, t.text)
  <2>1. closed \cup ({t.out} \ {None}) = closed \cup {t.out} /\ r = Emit(s, es)
    BY <1>2
  <2>2. es \in Seq(Events)
    <3>1. t.out \in Positions /\ t.item \in Items /\ t.text \in Texts
      BY DEF Slots
    <3> QED
      BY <3>1, DoneEventsType
  <2>3. Tracks(P, closed \cup {t.out}, Emit(s, es))
    BY ONLY P \in Seq(Events), Tracks(P, closed, s), s.created, t \in Slots, \E p \in Keys : SlotsOf(s)[p] = t,
            t.out # None => t.added /\ t.out \notin closed, type \in SayTypes, said \in Texts,
            Says(type, t.item, t.text, said), <1>2, CloseTracks, Zenon
  <2> HIDE DEF es
  <2>4. LET q == Emit(s, es) IN Others(q, s) /\ q.created = s.created /\ q.tools = s.tools /\ q.next = s.next
    BY <1>0, <2>2, Emitted
  <2> QED
    BY <2>1, <2>3, <2>4 DEF Keeps, SameCalls, SameTools
<1> QED
  BY <1>1, <1>2

(* The slots of the reasoning and of the message, by name.                  *)
ReasoningSlot(s) == Slot(s.reasoningIndex, ReasoningItem, s.reasoning, s.reasoningIndex # None)
MessageSlot(s) == Slot(s.messageIndex, MessageItem, s.text, s.messageIndex # None)

(* The slots of the reasoning and of the message.                           *)
LEMMA HeadSlots ==
    ASSUME NEW s \in Converters
    PROVE  /\ ReasoningSlot(s) \in Slots /\ MessageSlot(s) \in Slots
           /\ \E p \in Keys : SlotsOf(s)[p] = ReasoningSlot(s)
           /\ \E p \in Keys : SlotsOf(s)[p] = MessageSlot(s)
           /\ ReasoningSlot(s).out = s.reasoningIndex /\ ReasoningSlot(s).item = ReasoningItem
           /\ ReasoningSlot(s).text = s.reasoning
           /\ s.reasoningIndex # None => ReasoningSlot(s).added
           /\ MessageSlot(s).out = s.messageIndex /\ MessageSlot(s).item = MessageItem
           /\ MessageSlot(s).text = s.text
           /\ s.messageIndex # None => MessageSlot(s).added
<1>1. SlotsOf(s)[RKey] = ReasoningSlot(s) /\ SlotsOf(s)[MKey] = MessageSlot(s) /\ RKey \in Keys /\ MKey \in Keys
  BY SlotsAt, KeysDiffer DEF ReasoningSlot, MessageSlot
<1>2. ReasoningSlot(s) \in Slots /\ MessageSlot(s) \in Slots
  <2>1. /\ s.reasoningIndex \in Positions /\ s.reasoning \in Texts /\ ReasoningItem \in Items
        /\ s.messageIndex \in Positions /\ s.text \in Texts /\ MessageItem \in Items
    BY Fields, OtherItems
  <2> QED
    BY <2>1 DEF ReasoningSlot, MessageSlot, Slot, Slots
<1>3. /\ ReasoningSlot(s).out = s.reasoningIndex /\ ReasoningSlot(s).item = ReasoningItem
      /\ ReasoningSlot(s).text = s.reasoning
      /\ s.reasoningIndex # None => ReasoningSlot(s).added
  BY DEF ReasoningSlot, Slot
<1>4. /\ MessageSlot(s).out = s.messageIndex /\ MessageSlot(s).item = MessageItem
      /\ MessageSlot(s).text = s.text
      /\ s.messageIndex # None => MessageSlot(s).added
  BY DEF MessageSlot, Slot
<1> QED
  BY <1>1, <1>2, <1>3, <1>4

(* The reasoning, the calls and the message are closed, and nothing is left *)
(* open.                                                                    *)
LEMMA AllClosed ==
    ASSUME NEW P \in Seq(Events), NEW a, Tracks(P, {}, a), a.created, Closable(a, {}),
           NEW b, b = IF a.reasoningIndex = None THEN a
                      ELSE Emit(a, DoneEvents("reasoning.done", a.reasoningIndex, ReasoningItem, Joined(a.reasoning), a.reasoning)),
           NEW c, c = FinishTools(b),
           NEW d, d = IF c.messageIndex = None THEN c
                      ELSE Emit(c, DoneEvents("text.done", c.messageIndex, MessageItem, c.text, c.text))
    PROVE  Tracks(P, 0 .. d.next - 1, d) /\ d.created /\ Others(d, a)
<1> DEFINE R == {a.reasoningIndex} \ {None}
           M == {c.messageIndex} \ {None}
           T == {n \in 0 .. b.next - 1 : CallsAt(b, n) # {}}
<1>1. Tracks(P, R, b) /\ Keeps(b, a) /\ b.tools = a.tools
  <2> DEFINE t == ReasoningSlot(a)
             type == "reasoning.done"
             said == Joined(a.reasoning)
             none == {}
  <2>1. a \in Converters
    BY DEF Tracks
  <2>2. /\ t \in Slots /\ t.out = a.reasoningIndex /\ t.item = ReasoningItem /\ t.text = a.reasoning
        /\ a.reasoningIndex # None => t.added
        /\ \E p \in Keys : SlotsOf(a)[p] = t
    BY <2>1, HeadSlots
  <2> HIDE DEF t
  <2>3. type \in SayTypes /\ said \in Texts /\ Says(type, t.item, t.text, said)
    BY <2>1, <2>2, Fields, JoinedType DEF SayTypes, Says
  <2>4. b = IF t.out = None THEN a ELSE Emit(a, DoneEvents(type, t.out, t.item, said, t.text))
    BY <2>2
  <2>5. t.out # None => t.added /\ t.out \notin none
    BY <2>2
  <2>6. none \cup ({t.out} \ {None}) = R
    BY <2>2
  <2>7. Tracks(P, none, a)
    OBVIOUS
  <2> HIDE DEF type, said, none
  <2>8. Tracks(P, none \cup ({t.out} \ {None}), b) /\ Keeps(b, a) /\ SameTools(b, a)
    BY ONLY P \in Seq(Events), a.created, <2>2, <2>3, <2>4, <2>5, <2>7, CloseIfOpen, Zenon
  <2> QED
    BY <2>6, <2>8 DEF SameTools
<1>2. Closable(b, R)
  BY <1>1, IndicesTracked DEF Closable
<1>3. Tracks(P, R \cup T, c) /\ Keeps(c, b)
  <2>1. b.created
    BY <1>1 DEF Keeps
  <2> HIDE DEF R
  <2>2. FinishedBelow(P, R, b, b.next, c)
    BY <1>1, <1>2, <2>1, FinishToolsTrack
  <2> QED
    BY <2>2 DEF FinishedBelow
<1>4. c.messageIndex # None => c.messageIndex \notin R \cup T
  <2>1. c.messageIndex = b.messageIndex /\ b.reasoningIndex = a.reasoningIndex
    BY <1>1, <1>3 DEF Keeps, Others
  <2>2. b.messageIndex # None => /\ b.messageIndex # b.reasoningIndex
                                 /\ \A i \in Indices : b.tools[i].out # b.messageIndex
    BY <1>1, IndicesTracked
  <2> QED
    BY <2>1, <2>2 DEF CallsAt
<1> DEFINE Z == R \cup T
<1>5. Tracks(P, Z \cup M, d) /\ Keeps(d, c)
  <2> DEFINE t == MessageSlot(c)
             type == "text.done"
             said == c.text
  <2>1. c \in Converters /\ c.created
    BY <1>3 DEF Tracks, Keeps
  <2>2. /\ t \in Slots /\ t.out = c.messageIndex /\ t.item = MessageItem /\ t.text = c.text
        /\ c.messageIndex # None => t.added
        /\ \E p \in Keys : SlotsOf(c)[p] = t
    BY <2>1, HeadSlots
  <2> HIDE DEF t
  <2>3. type \in SayTypes /\ said \in Texts /\ Says(type, t.item, t.text, said)
    BY <2>1, <2>2, Fields DEF SayTypes, Says
  <2>4. d = IF t.out = None THEN c ELSE Emit(c, DoneEvents(type, t.out, t.item, said, t.text))
    BY <2>2
  <2>5. t.out # None => t.added /\ t.out \notin Z
    BY <1>4, <2>2
  <2>6. Z \cup ({t.out} \ {None}) = Z \cup M
    BY <2>2
  <2>7. Tracks(P, Z, c)
    BY <1>3
  <2> HIDE DEF type, said, Z
  <2>8. Tracks(P, Z \cup ({t.out} \ {None}), d) /\ Keeps(d, c)
    BY ONLY P \in Seq(Events), <2>1, <2>2, <2>3, <2>4, <2>5, <2>7, CloseIfOpen, Zenon
  <2> QED
    BY <2>6, <2>8
<1> HIDE DEF Z, R, T, M
<1>6. Others(d, a) /\ d.created
  <2>1. Others(b, a) /\ Others(c, b) /\ Others(d, c) /\ d.created
    BY <1>1, <1>3, <1>5 DEF Keeps
  <2> QED
    BY ONLY <2>1 DEF Others
<1>7. SameCalls(d, b) /\ d.next = b.next /\ d.messageIndex = c.messageIndex
  <2>1. SameCalls(c, b) /\ SameCalls(d, c) /\ d.next = c.next /\ c.next = b.next
    BY <1>3, <1>5 DEF Keeps
  <2>2. d.messageIndex = c.messageIndex
    BY <1>5 DEF Keeps, Others
  <2> QED
    BY ONLY <2>1, <2>2 DEF SameCalls
<1>8. Z \cup M = 0 .. d.next - 1
  <2> DEFINE all == Z \cup M
             N == 0 .. d.next - 1
  <2>0. Tracks(P, all, d) /\ d \in Converters /\ d.next \in Nat
    BY <1>5, Fields DEF Tracks
  <2> HIDE DEF all
  <2>1. /\ \A n \in N : n = d.reasoningIndex \/ n = d.messageIndex \/ CallsAt(d, n) # {}
        /\ d.reasoningIndex # None => d.reasoningIndex \in N
        /\ d.messageIndex # None => d.messageIndex \in N
    BY ONLY P \in Seq(Events), <2>0, IndicesTracked
  <2>2. \A n : CallsAt(d, n) = CallsAt(b, n)
    BY <1>7 DEF CallsAt, SameCalls
  <2>3. \A n \in N : n # None
    BY <2>0, NoneAssumption
  <2>4. d.reasoningIndex = a.reasoningIndex
    BY <1>6 DEF Others
  <2>5. T = {n \in N : CallsAt(d, n) # {}}
    BY ONLY <1>7, <2>2 DEF T
  <2>6. R = {d.reasoningIndex} \ {None} /\ M = {d.messageIndex} \ {None}
    BY <1>7, <2>4 DEF R, M
  <2>7. all = R \cup T \cup M
    BY DEF all, Z
  <2> HIDE DEF N
  <2>8. \A n \in N : n \in all
    BY ONLY <2>1, <2>3, <2>5, <2>6, <2>7
  <2>9. \A n \in all : n \in N
    BY ONLY <2>1, <2>5, <2>6, <2>7
  <2> QED
    BY <2>8, <2>9 DEF N, all
<1> QED
  BY <1>5, <1>6, <1>8

(* The terminal event, with the output.                                     *)
Response(status, output) == [Event(status, None, None, <<>>) EXCEPT !.output = output]

(* The terminal event has the status and the output it is made of.          *)
LEMMA ResponseType ==
    ASSUME NEW status \in {"completed", "incomplete"}, NEW output \in Outputs
    PROVE  LET e == Response(status, output) IN
           e \in Events /\ e.type = status /\ e.index = None /\ e.output = output
<1>1. status \in Types /\ None \in Positions /\ None \in Items \cup {None} /\ <<>> \in Texts
  BY DEF Types, Positions, Texts
<1> DEFINE x == <<>>
<1>2. x \in Texts
  BY <1>1
<1> HIDE DEF x
<1>3. LET e == [Event(status, None, None, x) EXCEPT !.output = output] IN
      e \in Events /\ e.type = status /\ e.index = None /\ e.output = output
  BY <1>1, <1>2 DEF Event, Events
<1> QED
  BY <1>3 DEF Response, x

(* The response ends a stream whose items are all closed.                   *)
LEMMA ResponseSound ==
    ASSUME NEW P \in Seq(Events), ClosedIn(P) = {},
           NEW d, Tracks(P, 0 .. d.next - 1, d), d.created, NEW status \in {"completed", "incomplete"},
           NEW r, r = Emit(d, <<Response(status, Output(d.out))>>)
    PROVE  /\ r \in Converters /\ Others(r, d)
           /\ P \o r.out \in Seq(Events) /\ WellFormed(P \o r.out) /\ ~Begun(P \o r.out)
<1> DEFINE o == d.out
           e == Response(status, Output(o))
           E == P \o o
<1>1. d \in Converters /\ o \in Seq(Events) /\ d.next \in Nat /\ d.created = TRUE
  BY Fields DEF Tracks
<1>2. Account(E, 0 .. d.next - 1, d.next, TRUE, SlotsOf(d))
  BY <1>1 DEF Tracks
<1> HIDE DEF o
<1>3. Lists(E, Output(o)) /\ Output(o) \in Outputs
  BY <1>1, <1>2, OutputLists
<1>4. e \in Events /\ e.type = status /\ e.index = None /\ e.output = Output(o)
  BY <1>3, ResponseType
<1>5. E \in Seq(Events) /\ E # <<>> /\ WellFormed(E) /\ Begun(E) /\ ClosedIn(E) = 0 .. d.next - 1
  BY <1>2 DEF Account
<1> HIDE DEF e, E
<1>6. MayFollow(E, e)
  <2>1. None \notin 0 .. d.next - 1
    BY <1>1, NoneAssumption
  <2>2. status \in Terminal /\ status # "created" /\ status # "added" /\ status # "item.done" /\ status \notin SayTypes
    BY DEF Terminal, SayTypes
  <2> QED
    BY <1>3, <1>4, <1>5, <2>1, <2>2 DEF MayFollow
<1>7. WellFormed(Append(E, e))
  BY <1>4, <1>5, <1>6, WellFormedAppend
<1>8. ~Begun(Append(E, e)) /\ Append(E, e) \in Seq(Events)
  <2>1. LET F == Append(E, e) IN
        /\ F \in Seq(Events) /\ DOMAIN F = 1..(Len(E) + 1) /\ Len(E) \in Nat /\ F[Len(E) + 1] = e
    BY <1>4, <1>5, Appended
  <2>2. e.type \in Terminal
    BY <1>4 DEF Terminal
  <2> QED
    BY <2>1, <2>2 DEF Begun
<1>9. /\ r \in Converters /\ r.out = Append(o, e) /\ Others(r, d)
  <2>1. r = Emit(d, <<e>>)
    BY DEF e, o
  <2>2. LET q == Emit(d, <<e>>) IN q \in Converters /\ q.out = d.out \o <<e>> /\ Others(q, d)
    <3>1. <<e>> \in Seq(Events)
      BY <1>4
    <3> QED
      BY <1>1, <3>1, Emitted
  <2>3. o \o <<e>> = Append(o, e)
    BY <1>1, <1>4
  <2> QED
    BY <2>1, <2>2, <2>3 DEF o
<1>10. P \o r.out = Append(E, e)
  <2>1. o \in Seq(Events) /\ e \in Events /\ r.out = Append(o, e)
    BY <1>1, <1>4, <1>9
  <2>2. P \o Append(o, e) = Append(P \o o, e)
    BY ONLY P \in Seq(Events), <2>1, ConcatAppend
  <2> QED
    BY ONLY <2>1, <2>2 DEF E
<1> QED
  BY <1>7, <1>8, <1>9, <1>10

(* The converter has ended its stream, or refused to.                       *)
Ended(P, r) ==
    /\ r \in Converters /\ r.completed
    /\ IF r.refused THEN r.out = <<>>
       ELSE P \o r.out \in Seq(Events) /\ WellFormed(P \o r.out) /\ ~Begun(P \o r.out)

(* _complete_events *)
LEMMA CompleteSound ==
    ASSUME NEW P \in Seq(Events), NEW s, Tracks(P, {}, s), s.out = <<>>, ~s.completed, ~s.refused,
           NEW status \in {"completed", "incomplete"}
    PROVE  Ended(P, CompleteEvents(s, status))
<1> DEFINE w == [s EXCEPT !.completed = TRUE]
           a == Created(w)
           b == IF a.reasoningIndex = None THEN a
                ELSE Emit(a, DoneEvents("reasoning.done", a.reasoningIndex, ReasoningItem, Joined(a.reasoning), a.reasoning))
           c == FinishTools(b)
           d == IF c.messageIndex = None THEN c
                ELSE Emit(c, DoneEvents("text.done", c.messageIndex, MessageItem, c.text, c.text))
           r == Emit(d, <<Response(status, Output(d.out))>>)
           unnamed == \E i \in Indices : s.tools[i].out # None /\ (s.tools[i].id = None \/ s.tools[i].name = None)
<1>1. CompleteEvents(s, status) = IF unnamed THEN Refuse(a) ELSE r
  BY DEF CompleteEvents, Response
<1>2. ClosedIn(P) = {}
  BY DEF Tracks, Account
<1>3. s \in Converters
  BY DEF Tracks
<1>4. /\ w \in Converters /\ w.completed /\ ~w.refused
      /\ w.reasoning = s.reasoning /\ w.reasoningIndex = s.reasoningIndex
      /\ w.text = s.text /\ w.messageIndex = s.messageIndex
      /\ w.tools = s.tools /\ w.next = s.next /\ w.created = s.created /\ w.out = s.out
  BY <1>3 DEF Converters
<1> HIDE DEF w
<1>5. Tracks(P, {}, w)
  BY <1>4, FlagsTrack
<1>6. Tracks(P, {}, a) /\ a.created /\ a \in Converters /\ Others(a, w) /\ a.tools = w.tools
  BY <1>4, <1>5, CreatedTracks, CreatedType
<1> HIDE DEF a
<1>7. a.completed /\ ~a.refused /\ a.tools = s.tools
  BY <1>4, <1>6 DEF Others
<1>8. CASE unnamed
  <2> DEFINE none == <<>>
  <2>1. Refuse(a) \in Converters /\ Refuse(a).refused /\ Refuse(a).completed /\ Refuse(a).out = none
    <3>1. none \in Seq(Events) /\ Refuse(a) = [a EXCEPT !.refused = TRUE, !.out = none]
      BY DEF Refuse
    <3> HIDE DEF none
    <3> QED
      BY <1>6, <1>7, <3>1 DEF Converters
  <2> QED
    BY <1>1, <1>8, <2>1 DEF Ended
<1>9. CASE ~unnamed
  <2>1. Closable(a, {})
    BY <1>7, <1>9 DEF Closable
  <2>2. Tracks(P, 0 .. d.next - 1, d) /\ d.created /\ Others(d, a)
    BY ONLY P \in Seq(Events), <1>6, <2>1, AllClosed
  <2> HIDE DEF d
  <2>3. /\ r \in Converters /\ Others(r, d)
        /\ P \o r.out \in Seq(Events) /\ WellFormed(P \o r.out) /\ ~Begun(P \o r.out)
    BY <1>2, <2>2, ResponseSound
  <2>4. r.completed /\ ~r.refused
    BY <1>7, <2>2, <2>3 DEF Others
  <2> HIDE DEF r
  <2>5. Ended(P, r)
    BY <2>3, <2>4 DEF Ended
  <2>6. CompleteEvents(s, status) = r
    BY <1>1, <1>9
  <2> QED
    BY <2>5, <2>6
<1> QED
  BY <1>8, <1>9

-----------------------------------------------------------------------------
(* The relay.                                                               *)

(* The converter when the events it made were written.                      *)
Flushed(r) == [r EXCEPT !.out = <<>>]

(* What the relay can write after P.                                        *)
Relayable(P, r) ==
    /\ r \in Converters
    /\ P \o r.out \in Seq(Events) /\ WellFormed(P \o r.out)
    /\ ~r.refused => IF r.completed THEN ~Begun(P \o r.out) ELSE Tracks(P \o r.out, {}, Flushed(r))

(* The inductive invariant: while the relay goes on, its converter keeps    *)
(* the account of what the client was sent, or has ended the stream; when   *)
(* it is over the stream has ended.                                         *)
StreamInv ==
    /\ conv \in Converters /\ conv.out = <<>>
    /\ events \in Seq(Events) /\ WellFormed(events)
    /\ upstream = "open" => /\ ~conv.refused
                            /\ IF conv.completed THEN ~Begun(events) ELSE Tracks(events, {}, conv)
    /\ upstream # "open" => HasEnded(events)

(* Sending what the converter made empties its list and changes nothing     *)
(* else.                                                                    *)
LEMMA FlushedFields ==
    ASSUME NEW r \in Converters
    PROVE  LET q == Flushed(r) IN
           /\ q \in Converters /\ q.out = <<>> /\ Others(q, r)
           /\ q.tools = r.tools /\ q.next = r.next /\ q.created = r.created
<1>1. <<>> \in Seq(Events)
  OBVIOUS
<1> DEFINE x == <<>>
<1> HIDE DEF x
<1>2. LET q == [r EXCEPT !.out = x] IN
      /\ q \in Converters /\ q.out = x /\ Others(q, r)
      /\ q.tools = r.tools /\ q.next = r.next /\ q.created = r.created
  <2>1. x \in Seq(Events)
    BY DEF x
  <2> QED
    BY <2>1 DEF Converters, Others
<1> QED
  BY <1>2 DEF Flushed, x

(* Nothing is added to a stream.                                            *)
LEMMA ConcatEmpty == ASSUME NEW E \in Seq(Events) PROVE E \o <<>> = E
OBVIOUS

(* Events of an open stream may be relayed.                                 *)
LEMMA TracksRelayable ==
    ASSUME NEW P \in Seq(Events), NEW r, Tracks(P, {}, r), ~r.completed
    PROVE  Relayable(P, r)
<1> DEFINE E == P \o r.out
           q == Flushed(r)
<1>1. r \in Converters /\ Account(E, {}, r.next, r.created, SlotsOf(r))
  BY DEF Tracks
<1>2. E \in Seq(Events) /\ WellFormed(E)
  BY <1>1 DEF Account
<1>3. /\ q \in Converters /\ q.out = <<>> /\ Others(q, r)
      /\ q.tools = r.tools /\ q.next = r.next /\ q.created = r.created
  BY <1>1, FlushedFields
<1> HIDE DEF E, q
<1>4. E \o q.out = E
  BY <1>2, <1>3, ConcatEmpty
<1>5. SlotsOf(q) = SlotsOf(r) /\ Coherent(q)
  BY <1>3, SameSlots DEF Tracks
<1>6. Tracks(E, {}, q)
  BY <1>1, <1>3, <1>4, <1>5 DEF Tracks
<1> QED
  BY <1>1, <1>2, <1>6 DEF Relayable, E, q

(* An ended stream stays as it is.                                          *)
LEMMA EndedRelayable ==
    ASSUME NEW P \in Seq(Events), WellFormed(P), NEW r, Ended(P, r)
    PROVE  Relayable(P, r)
<1>1. CASE r.refused
  <2>1. P \o r.out = P /\ r \in Converters
    BY <1>1, ConcatEmpty DEF Ended
  <2> QED
    BY <1>1, <2>1 DEF Relayable
<1>2. CASE ~r.refused
  BY <1>2 DEF Ended, Relayable
<1> QED
  BY <1>1, <1>2

(* What the converter makes of a chunk can be sent.                         *)
LEMMA ChunkRelayable ==
    ASSUME StreamInv, upstream = "open", NEW c \in Chunks
    PROVE  Relayable(events, EventsForChunk(conv, c))
<1> DEFINE r == EventsForChunk(conv, c)
<1>1. events \in Seq(Events) /\ WellFormed(events) /\ conv \in Converters /\ ~conv.refused
  BY DEF StreamInv
<1>2. CASE ~conv.completed
  <2>1. Tracks(events, {}, conv)
    BY <1>2 DEF StreamInv
  <2>2. Sound(events, {}, FALSE, r)
    BY <1>1, <1>2, <2>1, ChunkSound
  <2> HIDE DEF r
  <2>3. ASSUME r.refused PROVE Relayable(events, r)
    <3>1. events \o r.out = events /\ r \in Converters
      BY <1>1, <2>2, <2>3, ConcatEmpty DEF Sound
    <3> QED
      BY <1>1, <2>3, <3>1 DEF Relayable
  <2>4. ASSUME ~r.refused PROVE Relayable(events, r)
    <3>1. Tracks(events, {}, r) /\ ~r.completed
      BY <2>2, <2>4 DEF Sound
    <3> QED
      BY <1>1, <3>1, TracksRelayable
  <2>5. Relayable(events, r)
    BY <2>3, <2>4
  <2> QED
    BY <2>5 DEF r
<1>3. CASE conv.completed
  <2>1. r = conv \/ r = Refuse(conv)
    BY <1>3 DEF EventsForChunk
  <2>2. CASE r = conv
    <3>1. Ended(events, conv)
      BY <1>1, <1>3, ConcatEmpty DEF StreamInv, Ended
    <3> QED
      BY <1>1, <2>2, <3>1, EndedRelayable
  <2>3. CASE r = Refuse(conv)
    <3>1. Refuse(conv) \in Converters /\ Refuse(conv).refused /\ Refuse(conv).out = <<>>
      BY <1>1, RefusedSound DEF Sound
    <3>2. events \o Refuse(conv).out = events
      BY <1>1, <3>1, ConcatEmpty
    <3> QED
      BY <1>1, <2>3, <3>1, <3>2 DEF Relayable
  <2> QED
    BY <2>1, <2>2, <2>3
<1> QED
  BY <1>2, <1>3

(* [DONE] ends the stream, or finds it ended.                               *)
LEMMA DoneEnds ==
    ASSUME StreamInv, upstream = "open"
    PROVE  Ended(events, EventsForDone(conv))
<1> DEFINE status == IF conv.pending = "incomplete" THEN "incomplete" ELSE "completed"
<1>1. events \in Seq(Events) /\ conv \in Converters /\ ~conv.refused /\ conv.out = <<>>
  BY DEF StreamInv
<1>2. status \in {"completed", "incomplete"} /\ EventsForDone(conv) = CompleteEvents(conv, status)
  BY DEF EventsForDone
<1> HIDE DEF status
<1>3. CASE ~conv.completed
  <2>1. Tracks(events, {}, conv)
    BY <1>3 DEF StreamInv
  <2> QED
    BY <1>1, <1>2, <1>3, <2>1, CompleteSound
<1>4. CASE conv.completed
  <2>1. CompleteEvents(conv, status) = conv
    BY <1>4 DEF CompleteEvents
  <2>2. Ended(events, conv)
    BY <1>1, <1>4, ConcatEmpty DEF StreamInv, Ended
  <2> QED
    BY <1>2, <2>1, <2>2
<1> QED
  BY <1>3, <1>4

(* The failure is an event.                                                 *)
LEMMA FailureType ==
    LET e == Event("failed", None, None, <<>>) IN e \in Events /\ e.type = "failed" /\ e.index = None
<1> DEFINE type == "failed"
           text == <<>>
<1>1. type \in Types /\ None \in Positions /\ None \in Items \cup {None} /\ text \in Texts /\ type = "failed"
  BY DEF Types, Positions, Texts
<1> HIDE DEF type, text
<1>2. LET e == Event(type, None, None, text) IN e \in Events /\ e.type = type /\ e.index = None
  BY <1>1 DEF Event, Events, Outputs
<1> QED
  BY <1>1, <1>2 DEF type, text

(* A failure ends a well-formed stream, unless it has ended.                *)
LEMMA FailureSound ==
    ASSUME NEW E \in Seq(Events), WellFormed(E)
    PROVE  LET F == WithFailure(E) IN F \in Seq(Events) /\ WellFormed(F) /\ HasEnded(F)
<1>1. CASE HasEnded(E)
  BY <1>1 DEF WithFailure
<1>2. CASE ~HasEnded(E)
  <2> DEFINE e == Event("failed", None, None, <<>>)
  <2>1. Begun(E)
    BY <1>2 DEF HasEnded, Begun
  <2>2. None \notin ClosedIn(E)
    <3>1. \A k \in OfType(E, "item.done") : k \in DOMAIN E /\ E[k].type \notin Terminal \cup {"created"}
      BY DEF OfType, Terminal
    <3>2. ASSUME NEW k \in OfType(E, "item.done") PROVE E[k].index # None
      <4>1. k \in DOMAIN E /\ E[k].type \notin Terminal \cup {"created"}
        BY <3>1
      <4>2. E[k].index = None <=> E[k].type \in Terminal \cup {"created"}
        BY <4>1 DEF WellFormed
      <4> QED
        BY <4>1, <4>2
    <3> QED
      BY <3>2 DEF ClosedIn
  <2>3. e \in Events /\ e.type = "failed" /\ e.index = None
    BY FailureType
  <2>4. WithFailure(E) = Append(E, e)
    BY <1>2 DEF WithFailure
  <2> HIDE DEF e
  <2>5. MayFollow(E, e)
    BY <2>1, <2>2, <2>3 DEF MayFollow, Terminal, SayTypes
  <2>6. WellFormed(Append(E, e)) /\ Append(E, e) \in Seq(Events)
    BY <2>3, <2>5, WellFormedAppend
  <2>7. HasEnded(Append(E, e))
    <3>1. Len(E) + 1 \in DOMAIN Append(E, e) /\ Append(E, e)[Len(E) + 1] = e
      BY <2>3, Appended
    <3>2. e.type \in Terminal
      BY <2>3 DEF Terminal
    <3> QED
      BY <3>1, <3>2 DEF HasEnded
  <2> QED
    BY <2>4, <2>6, <2>7
<1> QED
  BY <1>1, <1>2

(* Sending what can be sent, up to what the ledger rejects, and the failure *)
(* that stands for a refusal, keeps the invariant.                          *)
LEMMA RelaysSound ==
    ASSUME StreamInv, upstream = "open", NEW r, Relayable(events, r),
           NEW fate \in {"open", "end"}, Relays(r, fate)
    PROVE  StreamInv'
<1>0. events \in Seq(Events) /\ r \in Converters /\ r.out \in Seq(Events)
  BY Fields DEF StreamInv, Relayable
<1>1. PICK n \in 0 .. Len(r.out) :
         LET es == events \o SubSeq(r.out, 1, n)
             refused == r.refused \/ n < Len(r.out)
         IN /\ conv' = Flushed(r)
            /\ events' = IF refused \/ (fate = "end" /\ ~r.completed) THEN WithFailure(es) ELSE es
            /\ upstream' = IF refused THEN "refused" ELSE fate
  BY DEF Relays, Flushed
<1> DEFINE es == events \o SubSeq(r.out, 1, n)
<1>2. es \in Seq(Events) /\ WellFormed(es)
  BY <1>0, WellFormedPrefix DEF Relayable
<1>3. /\ conv' \in Converters /\ conv'.out = <<>>
      /\ conv'.refused = r.refused /\ conv'.completed = r.completed
  BY <1>0, <1>1, FlushedFields DEF Others
<1>4. CASE r.refused \/ n < Len(r.out) \/ (fate = "end" /\ ~r.completed)
  <2>1. events' = WithFailure(es) /\ upstream' # "open"
    BY <1>1, <1>4
  <2> HIDE DEF es
  <2>2. events' \in Seq(Events) /\ WellFormed(events') /\ HasEnded(events')
    BY <1>2, <2>1, FailureSound
  <2> QED
    BY <1>3, <2>1, <2>2 DEF StreamInv
<1>5. CASE ~r.refused /\ ~(n < Len(r.out)) /\ ~(fate = "end" /\ ~r.completed)
  <2>1. n = Len(r.out)
    BY <1>0, <1>5
  <2>2. SubSeq(r.out, 1, n) = r.out
    BY <1>0, <2>1
  <2>3. events' = es /\ upstream' = fate /\ es = events \o r.out
    BY <1>1, <1>5, <2>2
  <2>4. IF r.completed THEN ~Begun(events') ELSE Tracks(events', {}, conv')
    BY <1>1, <1>5, <2>3 DEF Relayable
  <2>5. events' \in Seq(Events) /\ WellFormed(events')
    BY <1>2, <2>3
  <2>6. CASE fate = "open"
    BY <1>3, <1>5, <2>3, <2>4, <2>5, <2>6 DEF StreamInv
  <2>7. CASE fate = "end"
    <3>1. HasEnded(events')
      BY <1>5, <2>4, <2>7 DEF Begun, HasEnded
    <3> QED
      BY <1>3, <2>3, <2>5, <2>7, <3>1 DEF StreamInv
  <2> QED
    BY <2>6, <2>7
<1> QED
  BY <1>4, <1>5

(* The stream that has not begun.                                           *)
LEMMA NewSound == Tracks(<<>>, {}, NewConverter)
<1> DEFINE s == NewConverter
           E == <<>>
           f == SlotsOf(s)
<1>1. <<>> \in Texts /\ NoTool \in Tools /\ NoTool.out = None /\ ~NoTool.added
  BY DEF Texts, NoTool, Tools, Positions, Ids, Names
<1>2. /\ s.created = FALSE /\ s.reasoning = <<>> /\ s.reasoningIndex = None
      /\ s.text = <<>> /\ s.messageIndex = None
      /\ s.tools = [i \in Indices |-> NoTool] /\ s.next = 0 /\ s.out = <<>>
  BY DEF NewConverter
<1>3. s \in Converters
  <2>1. <<>> \in Seq(Events) /\ None \in Positions /\ [i \in Indices |-> NoTool] \in [Indices -> Tools]
    BY <1>1 DEF Positions
  <2> QED
    BY <1>1, <2>1 DEF NewConverter, Converters
<1> HIDE DEF s
<1>4. Coherent(s)
  BY <1>1, <1>2 DEF Coherent
<1>5. DOMAIN f = Keys /\ \A p \in Keys : f[p] \in Slots /\ f[p].out = None
  <2>1. ASSUME NEW p \in Keys PROVE f[p] \in Slots /\ f[p].out = None
    <3>1. CASE p = RKey \/ p = MKey
      <4>1. f[RKey] = ReasoningSlot(s) /\ f[MKey] = MessageSlot(s)
        BY <1>3, SlotsAt DEF ReasoningSlot, MessageSlot
      <4>2. /\ ReasoningSlot(s) \in Slots /\ ReasoningSlot(s).out = None
            /\ MessageSlot(s) \in Slots /\ MessageSlot(s).out = None
        BY <1>2, <1>3, HeadSlots
      <4> QED
        BY <3>1, <4>1, <4>2
    <3>2. CASE \E i \in Indices : p = CKey(i)
      <4>1. PICK i \in Indices : p = CKey(i)
        BY <3>2
      <4>2. f[p] = CallSlot(s.tools[i]) /\ s.tools[i] = NoTool
        BY <1>2, <1>3, <4>1, SlotsAt
      <4> QED
        BY <1>1, <4>2, CallSlotFields
    <3> QED
      BY <3>1, <3>2, KeysDiffer
  <2> QED
    BY <1>3, <2>1, SlotsAt
<1> HIDE DEF f
<1>6. E \in Seq(Events) /\ DOMAIN E = {}
  OBVIOUS
<1> HIDE DEF E
<1>7. \A type : OfType(E, type) = {}
  BY <1>6 DEF OfType
<1>8. WellFormed(E) /\ Begun(E) /\ ClosedIn(E) = {}
  BY <1>6, <1>7 DEF WellFormed, Begun, ClosedIn
<1>9. {f[p].out : p \in DOMAIN f} \ {None} = 0 .. 0 - 1
  BY <1>5
<1>10. Account(E, {}, 0, FALSE, f)
  <2>1. E = <<>>
    BY DEF E
  <2> QED
    BY <1>5, <1>6, <1>8, <1>9, <2>1 DEF Account
<1>11. E \o s.out = E
  BY <1>2 DEF E
<1>12. Tracks(E, {}, s)
  BY <1>2, <1>3, <1>4, <1>10, <1>11 DEF Tracks, f
<1> QED
  BY <1>12 DEF E, s

(* The invariant holds before the first chunk.                              *)
LEMMA InitSound == ASSUME Init PROVE StreamInv
<1>1. conv = NewConverter /\ events = <<>>
  BY DEF Init, ChatInit
<1>2. Tracks(<<>>, {}, NewConverter)
  BY NewSound
<1>3. NewConverter.out = <<>> /\ ~NewConverter.refused /\ ~NewConverter.completed /\ NewConverter \in Converters
  BY <1>2 DEF NewConverter, Tracks
<1>4. <<>> \in Seq(Events) /\ WellFormed(<<>>)
  <2>1. <<>> \o NewConverter.out = <<>>
    BY <1>3
  <2> QED
    BY <1>2, <2>1 DEF Tracks, Account
<1>5. upstream = "open"
  BY DEF Init, ChatInit
<1> QED
  BY <1>1, <1>2, <1>3, <1>4, <1>5 DEF StreamInv

(* A chunk, or an error in its place, keeps the invariant.                  *)
LEMMA ChunkArrivesSound == ASSUME StreamInv, ChunkArrives PROVE StreamInv'
<1>1. upstream = "open"
  BY DEF ChunkArrives
<1>2. PICK c \in Chunks : IF c.kind = "error"
                          THEN events' = WithFailure(events) /\ upstream' = "error" /\ UNCHANGED conv
                          ELSE Relays(EventsForChunk(conv, c), "open")
  BY DEF ChunkArrives
<1>3. CASE c.kind = "error"
  BY <1>2, <1>3, FailureSound DEF StreamInv
<1>4. CASE c.kind # "error"
  <2> DEFINE r == EventsForChunk(conv, c)
             fate == "open"
  <2>1. Relayable(events, r) /\ Relays(r, fate) /\ fate \in {"open", "end"}
    BY <1>1, <1>2, <1>4, ChunkRelayable
  <2> HIDE DEF r, fate
  <2> QED
    BY <1>1, <2>1, RelaysSound
<1> QED
  BY <1>3, <1>4

(* [DONE] keeps the invariant.                                              *)
LEMMA DoneArrivesSound == ASSUME StreamInv, DoneArrives PROVE StreamInv'
<1> DEFINE r == EventsForDone(conv)
           fate == "open"
<1>1. upstream = "open" /\ Relays(r, fate) /\ fate \in {"open", "end"}
  BY DEF DoneArrives
<1>2. Relayable(events, r)
  <2>1. events \in Seq(Events) /\ WellFormed(events)
    BY DEF StreamInv
  <2> QED
    BY <1>1, <2>1, DoneEnds, EndedRelayable
<1> HIDE DEF r, fate
<1> QED
  BY <1>1, <1>2, RelaysSound

(* The end of the upstream, with or without a terminal chunk before it,     *)
(* keeps the invariant.                                                     *)
LEMMA StreamEndsSound == ASSUME StreamInv, StreamEnds PROVE StreamInv'
<1> DEFINE r == IF conv.pending = None THEN conv ELSE EventsForDone(conv)
           fate == "end"
<1>1. upstream = "open" /\ Relays(r, fate) /\ fate \in {"open", "end"}
  BY DEF StreamEnds
<1>2. /\ events \in Seq(Events) /\ WellFormed(events)
      /\ conv \in Converters /\ conv.out = <<>> /\ ~conv.refused
  BY <1>1 DEF StreamInv
<1>3. Relayable(events, r)
  <2>1. CASE conv.pending = None /\ conv.completed
    <3>1. Ended(events, conv)
      BY <1>1, <1>2, <2>1, ConcatEmpty DEF StreamInv, Ended
    <3>2. r = conv
      BY <2>1
    <3> QED
      BY <1>2, <3>1, <3>2, EndedRelayable
  <2>2. CASE conv.pending = None /\ ~conv.completed
    <3>1. Tracks(events, {}, conv) /\ r = conv
      BY <1>1, <2>2 DEF StreamInv
    <3> QED
      BY <1>2, <2>2, <3>1, TracksRelayable
  <2>3. CASE conv.pending # None
    <3>1. Ended(events, EventsForDone(conv)) /\ r = EventsForDone(conv)
      BY <1>1, <2>3, DoneEnds
    <3> QED
      BY <1>2, <3>1, EndedRelayable
  <2> QED
    BY <2>1, <2>2, <2>3
<1> HIDE DEF r, fate
<1> QED
  BY <1>1, <1>3, RelaysSound

(* A broken upstream keeps the invariant: the failure is the last event.    *)
LEMMA StreamBreaksSound == ASSUME StreamInv, StreamBreaks PROVE StreamInv'
BY FailureSound DEF StreamInv, StreamBreaks

(* Every step keeps the invariant; those of the reader of the events change *)
(* nothing it is about.                                                     *)
LEMMA NextSound == ASSUME StreamInv, [Next]_vars PROVE StreamInv'
<1>1. CASE FirstGateway
  <2>1. ChunkArrives \/ DoneArrives \/ StreamEnds \/ StreamBreaks
    BY <1>1 DEF FirstGateway, ChatNext
  <2> QED
    BY <2>1, ChunkArrivesSound, DoneArrivesSound, StreamEndsSound, StreamBreaksSound
<1>2. CASE UNCHANGED chatVars
  BY <1>2 DEF chatVars, StreamInv
<1>3. ReadEvent \/ EventsEnd \/ EventsBreak \/ Finished \/ UNCHANGED vars => UNCHANGED chatVars
  BY DEF ReadEvent, EventsEnd, EventsBreak, Finished, vars, chatVars
<1> QED
  BY <1>1, <1>2, <1>3 DEF Next

(* While the relay goes on, the account of the converter is that of the     *)
(* events the client was sent; and what was sent is well formed.            *)
THEOREM StreamInvariant == Spec => []StreamInv
<1>1. Init => StreamInv
  BY InitSound
<1>2. StreamInv /\ [Next]_vars => StreamInv'
  BY NextSound
<1> QED
  BY <1>1, <1>2, PTL DEF Spec

(* In every state of every run the stream that the client was sent is well  *)
(* formed, whatever the ledger rejected, and it has its terminal event when *)
(* the upstream is done with (_relay_chat_sse, ChatToResponsesStreamConver- *)
(* ter and decode_event).                                                   *)
THEOREM StreamStaysWellFormed == Spec => []StreamIsWellFormed
<1>1. StreamInv => StreamIsWellFormed
  BY DEF StreamInv, StreamIsWellFormed, Committed
<1> QED
  BY <1>1, StreamInvariant, PTL
=============================================================================
