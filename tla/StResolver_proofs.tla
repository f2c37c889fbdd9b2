------------------------- MODULE StResolver_proofs -------------------------
(***************************************************************************)
(* Proofs about the single-threaded resolver, for every circuit that is    *)
(* registered in the order of its places: the assertions of invoke_boxed   *)
(* never fire, a place can be read once everything up to it was given, and *)
(* the resolver implements WitnessDag, so that nothing is left to resolve  *)
(* when the client calls wait_till_resolved.                               *)
(***************************************************************************)
EXTENDS StResolver, SequenceTheorems, CommonFacts

-----------------------------------------------------------------------------
(* Values and circuits *)

(* advance_track moves the end of the run up to the first gap, not beyond. *)
LEMMA AdvanceTrackIsRun ==
    ASSUME NEW places, places \subseteq Places, max_tracked \in Places \cup {-1},
           0 .. max_tracked \subseteq places
    PROVE  /\ AdvanceTrack(places) \in Places \cup {-1}
           /\ 0 .. AdvanceTrack(places) \subseteq places
           /\ AdvanceTrack(places) + 1 \notin places
  <1> DEFINE S == {max_tracked} \cup
                  {p \in Places : p > max_tracked /\ max_tracked + 1 .. p \subseteq places}
             m == AdvanceTrack(places)
  <1>1. S \subseteq Int /\ S # {} /\ PlaceCnt \in Int /\ \A s \in S : s <= PlaceCnt
    BY PlaceCntAssumption DEF Places
  <1>2. m \in S /\ \A s \in S : s <= m
    <2>1. m = Max(S)
      BY DEF AdvanceTrack
    <2> HIDE DEF S, m
    <2> QED
      BY <1>1, <2>1, MaxOfBounded
  <1>3. m \in Places \cup {-1}
    BY <1>2
  <1>4. 0 .. m \subseteq places
    <2>1. CASE m = max_tracked
      BY <2>1
    <2>2. CASE m # max_tracked
      <3>1. m > max_tracked /\ max_tracked + 1 .. m \subseteq places
        BY <1>2, <2>2
      <3> HIDE DEF m
      <3>2. \A p \in 0 .. m : p \in 0 .. max_tracked \/ p \in max_tracked + 1 .. m
        BY <1>3 DEF Places
      <3> QED
        BY <3>1, <3>2
    <2> QED
      BY <2>1, <2>2
  <1>5. m + 1 \notin places
    <2> SUFFICES ASSUME m + 1 \in places PROVE FALSE
      OBVIOUS
    <2>1. m \in Int /\ max_tracked \in Int /\ max_tracked <= m
      BY <1>1, <1>2
    <2>2. max_tracked + 1 .. m \subseteq places
      <3>1. CASE m = max_tracked
        BY <2>1, <3>1
      <3>2. CASE m # max_tracked
        BY <1>2, <3>2
      <3> QED
        BY <3>1, <3>2
    <2> HIDE DEF m
    <2>3. \A p \in max_tracked + 1 .. m + 1 : p \in max_tracked + 1 .. m \/ p = m + 1
      BY <2>1
    <2>4. max_tracked + 1 .. m + 1 \subseteq places
      BY <2>2, <2>3
    <2>5. m + 1 \in S
      BY <2>1, <2>4 DEF Places
    <2> QED
      BY <1>2, <2>1, <2>5
  <1> QED
    BY <1>3, <1>4, <1>5

(* The largest of some places, as a resolver is queued under it. *)
LEMMA LargestPlace ==
    ASSUME NEW S, S \subseteq Places, S # {}
    PROVE  Max(S) \in S /\ Max(S) \in Places /\ \A q \in S : q <= Max(S)
  <1>1. S \subseteq Int /\ PlaceCnt \in Int /\ \A q \in S : q <= PlaceCnt
    BY PlaceCntAssumption DEF Places
  <1>2. Max(S) \in S /\ \A q \in S : q <= Max(S)
    BY <1>1, MaxOfBounded
  <1> QED
    BY <1>2

(* What the assumption on the circuits says of the one that is registered. *)
LEMMA CircuitFacts ==
    ASSUME circuit \in Circuits
    PROVE  /\ Len(circuit.resolvers) \in Nat
           /\ DOMAIN circuit.resolvers = 1 .. Len(circuit.resolvers)
           /\ circuit.set \subseteq Places
           /\ \A i \in 1 .. Len(circuit.resolvers) :
                /\ Resolver(i).ins \subseteq Places
                /\ Resolver(i).outs \subseteq Places
                /\ Resolver(i).outs # {}
                /\ Resolver(i).outs \cap circuit.set = {}
                /\ \A p \in Resolver(i).outs, q \in Resolver(i).ins : q < p
           /\ \A i, j \in 1 .. Len(circuit.resolvers) :
                i < j => \A p \in Resolver(i).outs, q \in Resolver(j).outs : p < q
           /\ \A p \in Places :
                p \in circuit.set
                \/ \E i \in 1 .. Len(circuit.resolvers) : p \in Resolver(i).outs
  <1> DEFINE rs == circuit.resolvers
             RS == [ins : SUBSET Places, outs : (SUBSET Places) \ {{}}]
  <1>1. /\ circuit.set \subseteq Places
        /\ rs \in Seq(RS)
        /\ InPlaceOrder(circuit)
        /\ circuit.set \cup UNION {rs[i].outs : i \in DOMAIN rs} = Places
        /\ \A i \in DOMAIN rs : rs[i].outs \cap circuit.set = {}
    BY CircuitsAssumption
  <1>4. /\ \A i \in DOMAIN rs : \A p \in rs[i].outs : \A q \in rs[i].ins : q < p
        /\ \A i, j \in DOMAIN rs : i < j => \A p \in rs[i].outs, q \in rs[j].outs : p < q
    BY <1>1 DEF InPlaceOrder
  <1> HIDE DEF rs, RS
  <1>2. Len(rs) \in Nat /\ DOMAIN rs = 1 .. Len(rs)
    BY <1>1
  <1>3. \A i \in 1 .. Len(rs) : rs[i] \in RS
    BY <1>1, ElementOfSeq
  <1>5. \A p \in Places : p \in circuit.set \/ \E i \in DOMAIN rs : p \in rs[i].outs
    BY <1>1
  <1> QED
    BY <1>1, <1>2, <1>3, <1>4, <1>5 DEF Resolver, rs, RS

(* Two resolvers have no output in common, so they are not the same one. *)
LEMMA OutputsDiffer ==
    ASSUME circuit \in Circuits, NEW i \in 1 .. Len(circuit.resolvers),
           NEW j \in 1 .. Len(circuit.resolvers), i # j
    PROVE  Resolver(i).outs \cap Resolver(j).outs = {} /\ Resolver(i) # Resolver(j)
  <1>1. i < j \/ j < i
    BY CircuitFacts
  <1>2. Resolver(i).outs \cap Resolver(j).outs = {}
    <2> SUFFICES ASSUME NEW p \in Resolver(i).outs, p \in Resolver(j).outs PROVE FALSE
      OBVIOUS
    <2>1. p < p
      BY <1>1, CircuitFacts
    <2>2. p \in Int
      BY CircuitFacts DEF Places
    <2> QED
      BY <2>1, <2>2
  <1>3. Resolver(i).outs # {}
    BY CircuitFacts
  <1> QED
    BY <1>2, <1>3

-----------------------------------------------------------------------------
(* The inductive invariant *)

Running == pc \in {"resolve", "invoke"}

(* A place has a value when it was set or when its resolver ran. *)
ValuesInv ==
    \A p \in Places :
        p \in resolved <=> \/ p \in circuit.set /\ p \notin unset
                           \/ \E i \in applied : p \in Resolver(i).outs

(* max_tracked is the place before the first gap. *)
RunInv == 0 .. max_tracked \subseteq resolved /\ max_tracked + 1 \notin resolved

(* The queue holds resolvers that wait for something, in the order they were added. *)
QueueInv ==
    /\ \A k \in 1 .. Len(deferrer) :
            deferrer[k] \notin applied /\ Resolver(deferrer[k]).ins # {}
    /\ \A k, l \in 1 .. Len(deferrer) : k < l => deferrer[k] < deferrer[l]

(* The resolver whose closure is next is ready and was neither run nor queued. *)
CurInv ==
    Running =>
        /\ cur \in 1 .. added /\ cur \notin applied
        /\ InvokeAsserts(Resolver(cur))
        /\ \A k \in 1 .. Len(deferrer) : deferrer[k] # cur

(* Every resolver that was added has run, is queued or is about to run. *)
NothingForgotten ==
    \A i \in 1 .. added :
        \/ i \in applied
        \/ \E k \in 1 .. Len(deferrer) : deferrer[k] = i
        \/ pc \in {"resolve", "invoke", "panicked"} /\ cur = i

(* Between calls the head of the queue waits for a later place than the run. *)
HeadWaits == pc = "idle" => ~TryTake

IInv ==
    /\ StTypeOK /\ ValuesInv /\ RunInv /\ QueueInv /\ CurInv /\ NothingForgotten
    /\ HeadWaits

LEMMA InitIInv == Init => IInv
  <1> SUFFICES ASSUME Init PROVE IInv
    OBVIOUS
  <1>1. StTypeOK
    BY CircuitFacts DEF Init, StTypeOK, Pcs
  <1> QED
    BY <1>1 DEF Init, IInv, ValuesInv, RunInv, QueueInv, CurInv, Running,
       NothingForgotten, HeadWaits, TryTake, Places

(* The outputs of a resolver that has not run have no values yet. *)
LEMMA OutputsOpen ==
    ASSUME IInv, NEW i \in 1 .. added, i \notin applied
    PROVE  Resolver(i).outs \cap resolved = {}
  <1>1. /\ circuit \in Circuits /\ applied \subseteq 1 .. Len(circuit.resolvers)
        /\ i \in 1 .. Len(circuit.resolvers)
    BY CircuitFacts DEF IInv, StTypeOK
  <1> SUFFICES ASSUME NEW p \in Resolver(i).outs, p \in resolved PROVE FALSE
    OBVIOUS
  <1>2. p \in Places /\ p \notin circuit.set
    BY <1>1, CircuitFacts
  <1>3. PICK j \in applied : p \in Resolver(j).outs
    BY <1>2 DEF IInv, ValuesInv
  <1> QED
    BY <1>1, <1>3, OutputsDiffer

LEMMA SetValueIInv == ASSUME IInv, NEW v \in Places, SetValue(v) PROVE IInv'
  <1>0. /\ UNCHANGED <<circuit, added, deferrer, cur, applied>>
        /\ v \in unset /\ unset' = unset \ {v} /\ resolved' = resolved \cup {v}
        /\ pc' = "advance"
        /\ resolved' \subseteq Places
        /\ max_tracked \in Places \cup {-1} /\ 0 .. max_tracked \subseteq resolved'
        /\ max_tracked' = AdvanceTrack(resolved')
        /\ unset \subseteq circuit.set
    BY DEF SetValue, IInv, StTypeOK, RunInv
  <1>1. /\ max_tracked' \in Places \cup {-1}
        /\ 0 .. max_tracked' \subseteq resolved' /\ max_tracked' + 1 \notin resolved'
    BY <1>0, AdvanceTrackIsRun
  <1>2. StTypeOK'
    BY <1>0, <1>1 DEF IInv, StTypeOK, Pcs
  <1>3. ValuesInv'
    BY <1>0 DEF IInv, ValuesInv, Resolver
  <1>4. QueueInv' /\ CurInv' /\ HeadWaits'
    BY <1>0 DEF IInv, QueueInv, CurInv, HeadWaits, Running, Resolver
  <1>5. NothingForgotten'
    <2>1. pc = "idle"
      BY DEF SetValue
    <2> QED
      BY <1>0, <2>1 DEF IInv, NothingForgotten
  <1> QED
    BY <1>1, <1>2, <1>3, <1>4, <1>5 DEF IInv, RunInv

LEMMA AddResolutionIInv == IInv /\ AddResolution => IInv'
  <1> SUFFICES ASSUME IInv, AddResolution PROVE IInv'
    OBVIOUS
  <1> DEFINE i == added + 1
  <1>0. /\ UNCHANGED <<circuit, unset, resolved, max_tracked, applied>>
        /\ pc = "idle" /\ added' = i /\ added \in Nat
        /\ i \in 1 .. Len(circuit.resolvers) /\ circuit \in Circuits
        /\ deferrer \in Seq(1 .. added) /\ applied \subseteq 1 .. added
        /\ max_tracked \in Int /\ max_tracked >= -1
        /\ 0 .. max_tracked \subseteq resolved
    BY CircuitFacts DEF AddResolution, IInv, StTypeOK, RunInv, Places
  <1>1. deferrer \in Seq(1 .. i)
    BY <1>0, SeqMonotonic
  <1>2. \A k \in 1 .. Len(deferrer) : deferrer[k] \in 1 .. added
    BY <1>0, ElementOfSeq
  <1>3. ValuesInv' /\ RunInv'
    BY <1>0 DEF IInv, ValuesInv, RunInv, Resolver
  <1>4. CASE Resolver(i).ins \subseteq resolved
    <2>0. cur' = i /\ pc' = "resolve" /\ deferrer' = deferrer
      BY <1>4 DEF AddResolution
    <2>1. StTypeOK'
      BY <1>0, <1>1, <2>0 DEF IInv, StTypeOK, Pcs
    <2>2. QueueInv'
      BY <1>0, <2>0 DEF IInv, QueueInv, Resolver
    <2>3. i \notin applied
      BY <1>0
    <2>4. Resolver(i).outs \cap resolved = {}
      <3> SUFFICES ASSUME NEW p \in Resolver(i).outs, p \in resolved PROVE FALSE
        OBVIOUS
      <3>1. p \in Places /\ p \notin circuit.set
        BY <1>0, CircuitFacts
      <3>2. PICK j \in applied : p \in Resolver(j).outs
        BY <3>1 DEF IInv, ValuesInv
      <3> QED
        BY <1>0, <2>3, <3>2, OutputsDiffer
    <2>5. CurInv'
      BY <1>0, <1>2, <1>4, <2>0, <2>3, <2>4 DEF CurInv, InvokeAsserts, Resolver
    <2>6. NothingForgotten'
      BY <1>0, <2>0 DEF IInv, NothingForgotten
    <2> QED
      BY <1>3, <2>0, <2>1, <2>2, <2>5, <2>6 DEF IInv, HeadWaits
  <1>5. CASE ~ (Resolver(i).ins \subseteq resolved)
    <2>0. cur' = cur /\ pc' = pc /\ deferrer' = Append(deferrer, i)
      BY <1>5 DEF AddResolution
    <2>1. /\ deferrer' \in Seq(1 .. i) /\ Len(deferrer') = Len(deferrer) + 1
          /\ \A k \in 1 .. Len(deferrer) : deferrer'[k] = deferrer[k]
          /\ deferrer'[Len(deferrer) + 1] = i
          /\ Head(deferrer') = IF deferrer = << >> THEN i ELSE Head(deferrer)
          /\ Len(deferrer) \in Nat
      BY <1>0, <1>1, <2>0, AppendByPosition
    <2>2. StTypeOK'
      BY <1>0, <2>0, <2>1 DEF IInv, StTypeOK
    <2>3. \A k \in 1 .. Len(deferrer') : k \in 1 .. Len(deferrer) \/ k = Len(deferrer) + 1
      BY <2>1
    <2>4. QueueInv'
      <3>1. Resolver(i).ins # {} /\ i \notin applied
        BY <1>0, <1>5
      <3>2. ASSUME NEW k \in 1 .. Len(deferrer')
            PROVE  deferrer'[k] \notin applied /\ Resolver(deferrer'[k]).ins # {}
        BY <2>1, <2>3, <3>1 DEF IInv, QueueInv
      <3>3. ASSUME NEW k \in 1 .. Len(deferrer'), NEW l \in 1 .. Len(deferrer'), k < l
            PROVE  deferrer'[k] < deferrer'[l]
        <4>1. k \in 1 .. Len(deferrer)
          BY <2>1, <2>3, <3>3
        <4>2. CASE l \in 1 .. Len(deferrer)
          BY <2>1, <3>3, <4>1, <4>2 DEF IInv, QueueInv
        <4>3. CASE l = Len(deferrer) + 1
          <5>1. deferrer'[k] \in 1 .. added /\ deferrer'[l] = added + 1
            BY <1>2, <2>1, <4>1, <4>3
          <5> QED
            BY <1>0, <5>1
        <4> QED
          BY <2>3, <4>2, <4>3
      <3> QED
        BY <1>0, <3>2, <3>3 DEF QueueInv, Resolver
    <2>5. CurInv'
      BY <1>0, <2>0 DEF CurInv, Running
    <2>6. NothingForgotten'
      <3> SUFFICES ASSUME NEW j \in 1 .. i
                   PROVE  j \in applied \/ \E k \in 1 .. Len(deferrer') : deferrer'[k] = j
        BY <1>0 DEF NothingForgotten
      <3>1. CASE j = i
        BY <2>1, <3>1
      <3>2. CASE j # i
        <4>1. j \in 1 .. added
          BY <1>0, <3>2
        <4>2. j \in applied \/ \E k \in 1 .. Len(deferrer) : deferrer[k] = j
          BY <1>0, <4>1 DEF IInv, NothingForgotten
        <4> QED
          BY <2>1, <4>2
      <3> QED
        BY <3>1, <3>2
    <2>7. HeadWaits'
      <3>1. CASE deferrer # << >>
        BY <1>0, <2>0, <2>1, <3>1 DEF IInv, HeadWaits, TryTake, Resolver
      <3>2. CASE deferrer = << >>
        <4>1. Head(deferrer') = i
          BY <2>1, <3>2
        <4>2. PICK q \in Resolver(i).ins : q \notin resolved
          BY <1>5
        <4>3. Resolver(i).ins \subseteq Places
          BY <1>0, CircuitFacts
        <4>4. q <= Max(Resolver(i).ins) /\ Max(Resolver(i).ins) \in Int
          <5>1. q <= Max(Resolver(i).ins) /\ Max(Resolver(i).ins) \in Places
            BY <4>2, <4>3, LargestPlace
          <5> QED
            BY <5>1 DEF Places
        <4>5. q \in Int /\ ~ (q <= max_tracked)
          BY <1>0, <4>2, <4>3 DEF Places
        <4>6. ~ (Max(Resolver(i).ins) <= max_tracked)
          BY <1>0, <4>4, <4>5
        <4> QED
          BY <1>0, <4>1, <4>6 DEF HeadWaits, TryTake, Resolver
      <3> QED
        BY <3>1, <3>2
    <2> QED
      BY <1>3, <2>2, <2>4, <2>5, <2>6, <2>7 DEF IInv
  <1> QED
    BY <1>4, <1>5

(* try_take compares one place with the end of the run, and that is enough. *)
LEMMA TakenHeadIsReady ==
    ASSUME IInv, TryTake
    PROVE  /\ deferrer # << >> /\ Head(deferrer) \in 1 .. added
           /\ Head(deferrer) \notin applied
           /\ InvokeAsserts(Resolver(Head(deferrer)))
  <1> DEFINE h == Head(deferrer)
             ins == Resolver(h).ins
  <1>1. /\ deferrer # << >> /\ Max(ins) <= max_tracked
        /\ circuit \in Circuits /\ added \in 0 .. Len(circuit.resolvers)
        /\ deferrer \in Seq(1 .. added) /\ max_tracked \in Int
        /\ 0 .. max_tracked \subseteq resolved
    BY DEF TryTake, IInv, StTypeOK, RunInv, Places
  <1>2. h \in 1 .. added /\ h = deferrer[1] /\ 1 \in 1 .. Len(deferrer)
    BY <1>1, TailByPosition
  <1>3. h \notin applied /\ ins # {}
    BY <1>2 DEF IInv, QueueInv
  <1>4. h \in 1 .. Len(circuit.resolvers)
    BY <1>1, <1>2, CircuitFacts
  <1>5. ins \subseteq Places
    BY <1>1, <1>4, CircuitFacts
  <1>6. ins \subseteq resolved
    <2>1. Max(ins) \in Places /\ \A q \in ins : q <= Max(ins)
      BY <1>3, <1>5, LargestPlace
    <2> DEFINE m == Max(ins)
    <2>2. m \in Int /\ m <= max_tracked /\ \A q \in ins : q <= m /\ q \in Int /\ 0 <= q
      BY <1>1, <1>5, <2>1 DEF Places
    <2> HIDE DEF m, ins
    <2>3. \A q \in ins : q \in 0 .. max_tracked
      BY <1>1, <2>2
    <2> QED
      BY <1>1, <2>3
  <1>7. Resolver(h).outs \cap resolved = {}
    BY <1>2, <1>3, OutputsOpen
  <1> QED
    BY <1>1, <1>2, <1>3, <1>6, <1>7 DEF InvokeAsserts

LEMMA AdvanceIInv == IInv /\ Advance => IInv'
  <1> SUFFICES ASSUME IInv, Advance PROVE IInv'
    OBVIOUS
  <1>0. /\ UNCHANGED <<circuit, added, unset, resolved, max_tracked, applied>>
        /\ pc = "advance" /\ added \in Nat /\ deferrer \in Seq(1 .. added)
    BY CircuitFacts DEF Advance, IInv, StTypeOK
  <1>1. ValuesInv' /\ RunInv'
    BY <1>0 DEF IInv, ValuesInv, RunInv, Resolver
  <1>2. CASE TryTake
    <2>0. cur' = Head(deferrer) /\ deferrer' = Tail(deferrer) /\ pc' = "invoke"
      BY <1>2 DEF Advance
    <2>1. /\ deferrer # << >> /\ Head(deferrer) \in 1 .. added
          /\ Head(deferrer) \notin applied
          /\ InvokeAsserts(Resolver(Head(deferrer)))
      BY <1>2, TakenHeadIsReady
    <2>2. /\ Head(deferrer) = deferrer[1] /\ 1 \in 1 .. Len(deferrer)
          /\ Tail(deferrer) \in Seq(1 .. added) /\ Len(Tail(deferrer)) = Len(deferrer) - 1
          /\ \A k \in 1 .. Len(Tail(deferrer)) :
                k + 1 \in 1 .. Len(deferrer) /\ Tail(deferrer)[k] = deferrer[k + 1]
          /\ Len(deferrer) \in Nat
      BY <1>0, <2>1, TailByPosition
    <2>3. StTypeOK'
      BY <1>0, <2>0, <2>1, <2>2 DEF IInv, StTypeOK, Pcs
    <2>4. QueueInv'
      <3>1. ASSUME NEW k \in 1 .. Len(deferrer')
            PROVE  deferrer'[k] \notin applied /\ Resolver(deferrer'[k]).ins # {}
        BY <1>0, <2>0, <2>2 DEF IInv, QueueInv, Resolver
      <3>2. ASSUME NEW k \in 1 .. Len(deferrer'), NEW l \in 1 .. Len(deferrer'), k < l
            PROVE  deferrer'[k] < deferrer'[l]
        <4>1. /\ k + 1 \in 1 .. Len(deferrer) /\ deferrer'[k] = deferrer[k + 1]
              /\ l + 1 \in 1 .. Len(deferrer) /\ deferrer'[l] = deferrer[l + 1]
              /\ k + 1 < l + 1
          BY <2>0, <2>2, <3>2
        <4> QED
          BY <4>1 DEF IInv, QueueInv
      <3> QED
        BY <1>0, <3>1, <3>2 DEF QueueInv, Resolver
    <2>5. \A k \in 1 .. Len(deferrer') : deferrer'[k] # cur'
      <3> SUFFICES ASSUME NEW k \in 1 .. Len(deferrer'), deferrer'[k] = cur' PROVE FALSE
        OBVIOUS
      <3>1. deferrer[1] < deferrer[k + 1]
        BY <2>0, <2>2 DEF IInv, QueueInv
      <3>2. deferrer[1] \in Int
        BY <1>0, <2>2
      <3> QED
        BY <2>0, <2>2, <3>1, <3>2
    <2>6. CurInv'
      BY <1>0, <2>0, <2>1, <2>5 DEF CurInv, InvokeAsserts, Resolver
    <2>7. NothingForgotten'
      <3> SUFFICES ASSUME NEW i \in 1 .. added, i \notin applied, i # Head(deferrer)
                   PROVE  \E k \in 1 .. Len(deferrer') : deferrer'[k] = i
        BY <1>0, <2>0 DEF NothingForgotten
      <3>1. PICK k \in 1 .. Len(deferrer) : deferrer[k] = i
        BY <1>0 DEF IInv, NothingForgotten
      <3>2. k # 1
        BY <2>2, <3>1
      <3>3. k - 1 \in 1 .. Len(deferrer') /\ deferrer'[k - 1] = deferrer[k]
        BY <2>0, <2>2, <3>1, <3>2
      <3> QED
        BY <3>1, <3>3
    <2> QED
      BY <1>1, <2>0, <2>3, <2>4, <2>6, <2>7 DEF IInv, HeadWaits
  <1>3. CASE ~TryTake
    <2>0. cur' = 0 /\ deferrer' = deferrer /\ pc' = "idle"
      BY <1>3 DEF Advance
    <2>1. StTypeOK'
      BY <1>0, <2>0 DEF IInv, StTypeOK, Pcs
    <2>2. QueueInv' /\ CurInv' /\ HeadWaits'
      BY <1>0, <1>3, <2>0 DEF IInv, QueueInv, CurInv, Running, HeadWaits, TryTake, Resolver
    <2>3. NothingForgotten'
      BY <1>0, <2>0 DEF IInv, NothingForgotten
    <2> QED
      BY <1>1, <2>1, <2>2, <2>3 DEF IInv
  <1> QED
    BY <1>2, <1>3

LEMMA ApplyIInv == IInv /\ Apply => IInv'
  <1> SUFFICES ASSUME IInv, Apply PROVE IInv'
    OBVIOUS
  <1>0. /\ UNCHANGED <<circuit, added, unset, deferrer, cur>>
        /\ pc \in {"resolve", "invoke"} /\ pc' = "advance"
        /\ resolved' = resolved \cup Resolver(cur).outs
        /\ applied' = applied \cup {cur}
        /\ max_tracked' = AdvanceTrack(resolved')
        /\ max_tracked \in Places \cup {-1}
        /\ cur \in 1 .. added /\ cur \notin applied
        /\ \A k \in 1 .. Len(deferrer) : deferrer[k] # cur
    BY DEF Apply, IInv, StTypeOK, CurInv, Running
  <1>1. Resolver(cur).outs \subseteq Places
    BY <1>0, CircuitFacts DEF IInv, StTypeOK
  <1>2. resolved' \subseteq Places /\ 0 .. max_tracked \subseteq resolved'
    BY <1>0, <1>1 DEF IInv, StTypeOK, RunInv
  <1>3. /\ max_tracked' \in Places \cup {-1}
        /\ 0 .. max_tracked' \subseteq resolved' /\ max_tracked' + 1 \notin resolved'
    BY <1>0, <1>2, AdvanceTrackIsRun
  <1>4. StTypeOK'
    BY <1>0, <1>2, <1>3 DEF IInv, StTypeOK, Pcs
  <1>5. ValuesInv'
    BY <1>0 DEF IInv, ValuesInv, Resolver
  <1>6. QueueInv' /\ CurInv' /\ HeadWaits'
    BY <1>0 DEF IInv, QueueInv, CurInv, HeadWaits, Running, Resolver
  <1>7. NothingForgotten'
    BY <1>0 DEF IInv, NothingForgotten
  <1> QED
    BY <1>3, <1>4, <1>5, <1>6, <1>7 DEF IInv, RunInv

LEMMA NextIInv == IInv /\ [Next]_vars => IInv'
  <1> SUFFICES ASSUME IInv, [Next]_vars PROVE IInv'
    OBVIOUS
  <1>1. ASSUME NEW v \in Places, SetValue(v) PROVE IInv'
    BY <1>1, SetValueIInv
  <1>2. CASE WaitTillResolved
    BY <1>2 DEF WaitTillResolved, IInv, StTypeOK, Pcs, ValuesInv, RunInv, QueueInv,
       CurInv, NothingForgotten, HeadWaits, Running, InvokeAsserts, Resolver, TryTake
  <1>3. CASE ClosurePanics
    BY <1>3 DEF ClosurePanics, IInv, StTypeOK, Pcs, ValuesInv, RunInv, QueueInv,
       CurInv, NothingForgotten, HeadWaits, Running, InvokeAsserts, Resolver, TryTake
  <1>4. CASE UNCHANGED vars
    BY <1>4 DEF vars, IInv, StTypeOK, Pcs, ValuesInv, RunInv, QueueInv,
       CurInv, NothingForgotten, HeadWaits, Running, InvokeAsserts, Resolver, TryTake
  <1> QED
    BY <1>1, <1>2, <1>3, <1>4, AddResolutionIInv, AdvanceIInv, ApplyIInv DEF Next, Ended

LEMMA Invariance == Spec => []IInv
  BY InitIInv, NextIInv, PTL DEF Spec

-----------------------------------------------------------------------------
(* Theorems *)

(* The state keeps its types, the run of tracked places and the queue included. *)
THEOREM StTypeCorrect == Spec => []StTypeOK
  <1>1. IInv => StTypeOK
    BY DEF IInv
  <1> QED
    BY <1>1, Invariance, PTL

(* The assertions of invoke_boxed hold of every resolver that try_take hands out. *)
THEOREM TakenIsAlwaysReady == Spec => []TakenIsReady
  <1>1. IInv => TakenIsReady
    BY DEF IInv, TakenIsReady, CurInv, Running
  <1> QED
    BY <1>1, Invariance, PTL

(* Between calls, everything up to a place has a value once all values up to it are
   set and all resolvers that compute one are added.  The argument looks at the
   smallest place without a value: what computes it is queued, so the head of the
   queue waits for a place that is smaller still. *)
LEMMA IdlePrefixResolved ==
    ASSUME IInv, pc = "idle", NEW p \in Places,
           \A q \in 0 .. p : q \notin unset,
           \A i \in DOMAIN circuit.resolvers : Resolver(i).outs \cap 0 .. p # {} => i <= added
    PROVE  0 .. p \subseteq resolved
  <1>0. /\ circuit \in Circuits /\ added \in 0 .. Len(circuit.resolvers)
        /\ deferrer \in Seq(1 .. added) /\ max_tracked \in Places \cup {-1}
        /\ resolved \subseteq Places
        /\ ~TryTake
    BY DEF IInv, StTypeOK, HeadWaits
  <1>1. p \in Nat /\ p <= PlaceCnt - 1 /\ PlaceCnt \in Nat
    BY PlaceCntAssumption DEF Places
  <1> DEFINE T == (0 .. p) \ resolved
  <1> SUFFICES ASSUME T # {} PROVE FALSE
    OBVIOUS
  <1>2. PICK q \in T : \A y \in T : q <= y
    <2>1. T \subseteq Nat
      OBVIOUS
    <2> HIDE DEF T
    <2> QED
      BY <2>1, LeastNatural
  <1>3. q \in 0 .. p /\ q \notin resolved /\ q \in Places
    BY <1>1, <1>2 DEF Places
  <1>4. PICK i \in 1 .. Len(circuit.resolvers) : q \in Resolver(i).outs
    BY <1>0, <1>3, CircuitFacts DEF IInv, ValuesInv
  <1>5. i <= added /\ i \in 1 .. added /\ i \notin applied
    <2>1. i \in DOMAIN circuit.resolvers
      BY <1>0, <1>4, CircuitFacts
    <2>2. i <= added
      BY <1>3, <1>4, <2>1
    <2>3. i \notin applied
      BY <1>3, <1>4 DEF IInv, ValuesInv
    <2> QED
      BY <1>0, <1>4, <2>2, <2>3, CircuitFacts
  <1>6. PICK k \in 1 .. Len(deferrer) : deferrer[k] = i
    BY <1>5 DEF IInv, NothingForgotten
  <1> DEFINE h == Head(deferrer)
             ins == Resolver(h).ins
  <1>7. deferrer # << >> /\ h = deferrer[1] /\ h \in 1 .. added /\ 1 \in 1 .. Len(deferrer)
    <2>1. deferrer # << >>
      BY <1>0, <1>6
    <2> QED
      BY <1>0, <2>1, TailByPosition
  <1>8. h \in 1 .. Len(circuit.resolvers) /\ ins \subseteq Places /\ ins # {}
    <2>1. h \in 1 .. Len(circuit.resolvers)
      BY <1>0, <1>7, CircuitFacts
    <2> QED
      BY <1>0, <1>7, <2>1, CircuitFacts DEF IInv, QueueInv
  <1>9. h <= i
    <2>1. CASE k = 1
      BY <1>6, <1>7, <2>1
    <2>2. CASE k # 1
      <3>1. deferrer[1] < deferrer[k]
        BY <1>0, <1>6, <1>7, <2>2 DEF IInv, QueueInv
      <3> QED
        BY <1>6, <1>7, <3>1
    <2> QED
      BY <2>1, <2>2
  <1>10. \A x \in ins : x < q
    <2>1. CASE h = i
      <3>1. \A x \in Resolver(i).ins : x < q
        BY <1>0, <1>4, CircuitFacts
      <3> QED
        BY <2>1, <3>1
    <2>2. CASE h # i
      <3>1. PICK o \in Resolver(h).outs : TRUE
        BY <1>0, <1>8, CircuitFacts
      <3>2. h < i /\ h \in 1 .. Len(circuit.resolvers)
        <4> HIDE DEF h
        <4> QED
          BY <1>0, <1>4, <1>8, <1>9, <2>2, CircuitFacts
      <3>3. o \in Places
        BY <1>0, <1>8, CircuitFacts
      <3>4. o < q
        BY <1>0, <1>4, <3>2, CircuitFacts
      <3>5. \A x \in ins : x < o
        BY <1>0, <1>8, <3>1, CircuitFacts
      <3> QED
        BY <1>3, <1>8, <3>3, <3>4, <3>5 DEF Places
    <2> QED
      BY <2>1, <2>2
  <1>11. Max(ins) \in ins /\ Max(ins) \in Int
    <2>1. Max(ins) \in ins /\ Max(ins) \in Places
      BY <1>8, LargestPlace
    <2> QED
      BY <2>1 DEF Places
  <1>12. ~ (Max(ins) <= max_tracked)
    BY <1>0, <1>7 DEF TryTake
  <1>13. max_tracked + 1 < q
    <2>1. Max(ins) < q
      BY <1>10, <1>11
    <2> HIDE DEF ins
    <2> QED
      BY <1>0, <1>3, <1>11, <1>12, <2>1 DEF Places
  <1>14. max_tracked + 1 \in T
    <2>1. max_tracked + 1 \notin resolved
      BY DEF IInv, RunInv
    <2> QED
      BY <1>0, <1>1, <1>3, <1>13, <2>1 DEF Places
  <1> QED
    BY <1>0, <1>2, <1>3, <1>13, <1>14 DEF Places

THEOREM PrefixIsResolved == Spec => []PrefixResolved
  <1>1. IInv => PrefixResolved
    BY IdlePrefixResolved DEF PrefixResolved
  <1> QED
    BY <1>1, Invariance, PTL

-----------------------------------------------------------------------------
(* The resolver implements WitnessDag *)

(* When the client has given everything, nothing waits in the queue. *)
LEMMA NothingLeft ==
    ASSUME IInv, pc = "idle", unset = {}, added = Len(circuit.resolvers)
    PROVE  applied = 1 .. added
  <1>0. /\ circuit \in Circuits /\ added \in Nat
        /\ deferrer \in Seq(1 .. added) /\ max_tracked \in Places \cup {-1}
        /\ applied \subseteq 1 .. added /\ ~TryTake
        /\ DOMAIN circuit.resolvers = 1 .. added
    BY CircuitFacts DEF IInv, StTypeOK, HeadWaits
  <1>1. \A p \in Places : p \in resolved
    <2> TAKE p \in Places
    <2>1. 0 .. p \subseteq resolved
      BY <1>0, IdlePrefixResolved
    <2> QED
      BY <2>1 DEF Places
  <1>2. deferrer = << >>
    <2> SUFFICES ASSUME deferrer # << >> PROVE FALSE
      OBVIOUS
    <2> DEFINE h == Head(deferrer)
               m == Max(Resolver(h).ins)
    <2>1. h \in 1 .. added /\ h = deferrer[1] /\ 1 \in 1 .. Len(deferrer)
      BY <1>0, TailByPosition
    <2>2. Resolver(h).ins \subseteq Places /\ Resolver(h).ins # {}
      BY <1>0, <2>1, CircuitFacts DEF IInv, QueueInv
    <2>3. m \in Places
      BY <2>2, LargestPlace
    <2>4. ~ (m <= max_tracked)
      BY <1>0 DEF TryTake
    <2> HIDE DEF m
    <2>5. max_tracked + 1 \in Places
      BY <1>0, <2>3, <2>4, PlaceCntAssumption DEF Places
    <2> QED
      BY <1>1, <2>5 DEF IInv, RunInv
  <1>3. \A i \in 1 .. added : i \in applied
    BY <1>2 DEF IInv, NothingForgotten
  <1> QED
    BY <1>0, <1>3

(* The indices that ran name resolvers that are known, and no two name the same. *)
LEMMA IndicesNameResolvers ==
    ASSUME IInv, NEW i \in 1 .. added, i \notin applied
    PROVE  Resolver(i) \in {Resolver(j) : j \in 1 .. added}
           /\ Resolver(i) \notin {Resolver(j) : j \in applied}
  <1>1. /\ circuit \in Circuits /\ added \in 0 .. Len(circuit.resolvers)
        /\ applied \subseteq 1 .. added
    BY DEF IInv, StTypeOK
  <1>2. i \in 1 .. Len(circuit.resolvers) /\ applied \subseteq 1 .. Len(circuit.resolvers)
    BY <1>1, CircuitFacts
  <1>3. \A j \in applied : Resolver(i) # Resolver(j)
    BY <1>1, <1>2, OutputsDiffer
  <1>4. Resolver(i) \in {Resolver(j) : j \in 1 .. added}
    OBVIOUS
  <1> QED
    BY <1>3, <1>4

(* Every step of the resolver is a step of WitnessDag or leaves what a client can
   see as it is. *)
LEMMA StepImplements == IInv /\ [Next]_vars => [Dag!Next]_(Dag!vars)
  <1> SUFFICES ASSUME IInv, [Next]_vars PROVE [Dag!Next]_(Dag!vars)
    OBVIOUS
  <1> USE DEF Dag!vars
  <1>0. /\ circuit \in Circuits /\ added \in Nat /\ added <= Len(circuit.resolvers)
        /\ DOMAIN circuit.resolvers = 1 .. Len(circuit.resolvers)
        /\ applied \subseteq 1 .. added /\ unset \subseteq circuit.set
        /\ Len(circuit.resolvers) \in Nat
    BY CircuitFacts DEF IInv, StTypeOK
  <1>1. ASSUME NEW v \in Places, SetValue(v) PROVE Dag!SetValue(v)
    <2>1. v \notin resolved
      <3> SUFFICES ASSUME v \in resolved PROVE FALSE
        OBVIOUS
      <3>1. v \in unset /\ v \in circuit.set
        BY <1>0, <1>1 DEF SetValue
      <3>2. PICK i \in applied : v \in Resolver(i).outs
        BY <3>1 DEF IInv, ValuesInv
      <3>3. i \in 1 .. Len(circuit.resolvers)
        BY <1>0
      <3> QED
        BY <1>0, <3>1, <3>2, <3>3, CircuitFacts
    <2> QED
      BY <1>1, <2>1 DEF SetValue, Dag!SetValue, Resolver
  <1>2. CASE AddResolution
    <2> DEFINE i == added + 1
    <2>1. /\ i \in 1 .. Len(circuit.resolvers) /\ added' = i /\ pc = "idle"
          /\ pc' \in {"idle", "resolve"}
          /\ UNCHANGED <<circuit, applied, resolved>>
      BY <1>0, <1>2 DEF AddResolution
    <2>2. 1 .. i = (1 .. added) \cup {i}
      BY <1>0
    <2>3. Resolver(i) \notin {Resolver(j) : j \in 1 .. added}
      <3>1. \A j \in 1 .. added : j \in 1 .. Len(circuit.resolvers) /\ j # i
        BY <1>0
      <3> QED
        BY <1>0, <2>1, <3>1, OutputsDiffer
    <2>4. Resolver(i) \in UNION {{c.resolvers[j] : j \in DOMAIN c.resolvers} : c \in Circuits}
      BY <1>0, <2>1 DEF Resolver
    <2>5. {Resolver(j) : j \in 1 .. added}' = {Resolver(j) : j \in 1 .. added} \cup {Resolver(i)}
      <3>1. {Resolver(j) : j \in 1 .. added}' = {Resolver(j) : j \in 1 .. i}
        BY <2>1 DEF Resolver
      <3> QED
        BY <2>2, <3>1
    <2>6. {Resolver(j) : j \in applied}' = {Resolver(j) : j \in applied}
      BY <2>1 DEF Resolver
    <2>7. Dag!Register(Resolver(i))
      BY <2>1, <2>3, <2>5, <2>6 DEF Dag!Register
    <2> QED
      BY <2>4, <2>7 DEF Dag!Next
  <1>3. CASE WaitTillResolved
    <2>1. applied = 1 .. added
      BY <1>3, NothingLeft DEF WaitTillResolved
    <2>2. Dag!Done
      BY <1>3, <2>1 DEF WaitTillResolved, Dag!Done, Resolver
    <2> QED
      BY <2>2 DEF Dag!Next
  <1>4. CASE Advance
    <2>1. /\ UNCHANGED <<circuit, added, applied, resolved>> /\ pc = "advance"
          /\ pc' \in {"idle", "invoke"}
      BY <1>4 DEF Advance
    <2> QED
      BY <2>1 DEF Resolver
  <1>5. CASE Apply \/ ClosurePanics
    <2>1. /\ cur \in 1 .. added /\ cur \notin applied
          /\ Resolver(cur).ins \subseteq resolved
          /\ Resolver(cur).outs \cap resolved = {}
      BY <1>5 DEF Apply, ClosurePanics, IInv, CurInv, Running, InvokeAsserts
    <2>2. /\ Resolver(cur) \in {Resolver(j) : j \in 1 .. added}
          /\ Resolver(cur) \notin {Resolver(j) : j \in applied}
      BY <2>1, IndicesNameResolvers
    <2>3. CASE Apply
      <3>1. /\ UNCHANGED <<circuit, added>> /\ applied' = applied \cup {cur}
            /\ resolved' = resolved \cup Resolver(cur).outs /\ pc' = "advance"
            /\ pc \in {"resolve", "invoke"}
        BY <2>3 DEF Apply
      <3>2. {Resolver(j) : j \in applied}' = {Resolver(j) : j \in applied} \cup {Resolver(cur)}
        BY <3>1 DEF Resolver
      <3>3. {Resolver(j) : j \in 1 .. added}' = {Resolver(j) : j \in 1 .. added}
        BY <3>1 DEF Resolver
      <3>4. Dag!Apply(Resolver(cur))
        BY <2>1, <3>1, <3>2, <3>3 DEF Dag!Apply, Dag!Ready
      <3> QED
        BY <2>2, <3>4 DEF Dag!Next
    <2>4. CASE ClosurePanics
      <3>1. Dag!Fail(Resolver(cur))
        BY <2>1, <2>4 DEF ClosurePanics, Dag!Fail, Dag!Ready, Resolver
      <3> QED
        BY <2>2, <3>1 DEF Dag!Next
    <2> QED
      BY <1>5, <2>3, <2>4
  <1>6. CASE UNCHANGED vars
    BY <1>6 DEF vars, Resolver
  <1> QED
    BY <1>1, <1>2, <1>3, <1>4, <1>5, <1>6 DEF Next, Ended, Dag!Next

(* The single-threaded resolver keeps the promises of CircuitResolver for every
   circuit registered in place order: a resolver runs once, after its inputs, and
   wait_till_resolved, which does nothing, finds nothing left to do. *)
THEOREM StRefinesWitnessDag == Spec => StImplementsWitnessDag
  <1>1. Init => Dag!Init
    BY DEF Init, Dag!Init
  <1> QED
    BY <1>1, StepImplements, Invariance, PTL DEF Spec, StImplementsWitnessDag, Dag!Spec
=============================================================================
