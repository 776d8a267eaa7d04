--------------------------- MODULE ValueFlowProofs ---------------------------
(***************************************************************************)
(* For every function, any variables and any return domain: the states of  *)
(* the value-flow analysis accumulate under join, neither the aliases nor  *)
(* the verdict are read before the work list of their search has run dry   *)
(* at a fixpoint, and so what the searches say is true of every run: an    *)
(* alias holds the result, and no unchecked use is accepted as handled.    *)
(* The invariant relates the run to what each search says where it stands: *)
(* one lemma for the expressions, one for each kind of statement, one for  *)
(* each way the run moves.                                                 *)
(***************************************************************************)
EXTENDS ValueFlow, WorklistProofs, FiniteSetTheorems

\* State::join keeps a state a state.
LEMMA JoinedFlowIsTyped ==
  ASSUME NEW s \in ValueFlowStates, NEW t \in ValueFlowStates
  PROVE  JoinedFlow(s, t) \in ValueFlowStates
<1>1. \A v \in Ints : JoinOrigin(s.values[v], t.values[v]) \in Origins
  BY DEF JoinOrigin, Origins, ValueFlowStates
<1>2. \A p \in Pointers : JoinTargets(s.pointers[p], t.pointers[p]) \in Targets
  BY DEF JoinTargets, Targets, ValueFlowStates
<1>3. (s.uncheckedUse \/ t.uncheckedUse) \in BOOLEAN
  OBVIOUS
<1>4. QED
  BY <1>1, <1>2, <1>3 DEF JoinedFlow, ValueFlowStates

\* What t may add to s is in s already.
Subsumes(s, t) ==
  /\ \A v \in Ints : s.values[v] = "Maybe" \/ s.values[v] = t.values[v]
  /\ \A p \in Pointers : /\ t.pointers[p].targets \subseteq s.pointers[p].targets
                         /\ t.pointers[p].unknown => s.pointers[p].unknown
  /\ t.uncheckedUse => s.uncheckedUse

\* Joining pointers changes nothing exactly when nothing is new.
LEMMA JoinTargetsChangesNothing ==
  ASSUME NEW a \in Targets, NEW b \in Targets
  PROVE  JoinTargets(a, b) = a <=> b.targets \subseteq a.targets /\ (b.unknown => a.unknown)
<1>1. /\ JoinTargets(a, b).targets = a.targets \cup b.targets
      /\ JoinTargets(a, b).unknown = (a.unknown \/ b.unknown)
  BY DEF JoinTargets
<1>2. a.unknown \in BOOLEAN /\ b.unknown \in BOOLEAN
  BY DEF Targets
<1>3. ASSUME JoinTargets(a, b) = a
      PROVE  b.targets \subseteq a.targets /\ (b.unknown => a.unknown)
  <2>1. a.targets = a.targets \cup b.targets /\ a.unknown = (a.unknown \/ b.unknown)
    BY <1>1, <1>3
  <2>2. b.targets \subseteq a.targets
    BY <2>1
  <2>3. b.unknown => a.unknown
    BY <2>1, <1>2
  <2>4. QED
    BY <2>2, <2>3
<1>4. ASSUME b.targets \subseteq a.targets, b.unknown => a.unknown
      PROVE  JoinTargets(a, b) = a
  <2>1. a.targets \cup b.targets = a.targets
    BY <1>4
  <2>2. (a.unknown \/ b.unknown) = a.unknown
    BY <1>2, <1>4
  <2>3. a = [targets |-> a.targets, unknown |-> a.unknown]
    BY DEF Targets
  <2>4. QED
    BY <2>1, <2>2, <2>3 DEF JoinTargets
<1>5. QED
  BY <1>3, <1>4

LEMMA JoinedChangesNothing ==
  ASSUME NEW s \in ValueFlowStates, NEW t \in ValueFlowStates
  PROVE  JoinedFlow(s, t) = s <=> Subsumes(s, t)
<1> DEFINE values == [v \in Ints |-> JoinOrigin(s.values[v], t.values[v])]
           pointers == [p \in Pointers |-> JoinTargets(s.pointers[p], t.pointers[p])]
           use == s.uncheckedUse \/ t.uncheckedUse
<1>1. /\ JoinedFlow(s, t).values = values /\ JoinedFlow(s, t).pointers = pointers
      /\ JoinedFlow(s, t).uncheckedUse = use
      /\ JoinedFlow(s, t) = [values |-> values, pointers |-> pointers, uncheckedUse |-> use]
  BY DEF JoinedFlow
<1>2. /\ s.values \in [Ints -> Origins] /\ s.pointers \in [Pointers -> Targets]
      /\ s.uncheckedUse \in BOOLEAN /\ t.uncheckedUse \in BOOLEAN
      /\ t.pointers \in [Pointers -> Targets]
      /\ s = [values |-> s.values, pointers |-> s.pointers, uncheckedUse |-> s.uncheckedUse]
  BY DEF ValueFlowStates
<1>3. values = s.values <=> \A v \in Ints : s.values[v] = "Maybe" \/ s.values[v] = t.values[v]
  <2>1. \A v \in Ints : JoinOrigin(s.values[v], t.values[v]) = s.values[v]
                        <=> s.values[v] = "Maybe" \/ s.values[v] = t.values[v]
    BY DEF JoinOrigin
  <2>2. values = s.values <=> \A v \in Ints : values[v] = s.values[v]
    BY <1>2
  <2>3. QED
    BY <2>1, <2>2
<1>4. pointers = s.pointers <=>
        \A p \in Pointers : /\ t.pointers[p].targets \subseteq s.pointers[p].targets
                            /\ t.pointers[p].unknown => s.pointers[p].unknown
  <2>1. \A p \in Pointers : s.pointers[p] \in Targets /\ t.pointers[p] \in Targets
    BY <1>2
  <2>2. pointers = s.pointers <=> \A p \in Pointers : pointers[p] = s.pointers[p]
    BY <1>2
  <2>3. \A p \in Pointers : pointers[p] = s.pointers[p] <=>
          /\ t.pointers[p].targets \subseteq s.pointers[p].targets
          /\ t.pointers[p].unknown => s.pointers[p].unknown
    BY <2>1, JoinTargetsChangesNothing
  <2>4. QED
    BY <2>2, <2>3
<1>5. use = s.uncheckedUse <=> (t.uncheckedUse => s.uncheckedUse)
  BY <1>2
<1> HIDE DEF values, pointers, use
<1>6. JoinedFlow(s, t) = s <=> values = s.values /\ pointers = s.pointers /\ use = s.uncheckedUse
  <2>1. ASSUME JoinedFlow(s, t) = s
        PROVE  values = s.values /\ pointers = s.pointers /\ use = s.uncheckedUse
    BY <1>1, <2>1
  <2>2. ASSUME values = s.values, pointers = s.pointers, use = s.uncheckedUse
        PROVE  JoinedFlow(s, t) = s
    BY <1>1, <1>2, <2>2
  <2>3. QED
    BY <2>1, <2>2
<1>7. QED
  BY <1>3, <1>4, <1>5, <1>6 DEF Subsumes

\* A joined state has what was joined into it, and all that the state had.
LEMMA JoinedSubsumesMore ==
  ASSUME NEW s \in ValueFlowStates, NEW t \in ValueFlowStates, NEW e \in ValueFlowStates
  PROVE  /\ Subsumes(s, s)
         /\ Subsumes(JoinedFlow(s, t), t)
         /\ Subsumes(s, e) => Subsumes(JoinedFlow(s, t), e)
<1>1. /\ \A v \in Ints : JoinedFlow(s, t).values[v] = JoinOrigin(s.values[v], t.values[v])
      /\ \A p \in Pointers : JoinedFlow(s, t).pointers[p] = JoinTargets(s.pointers[p], t.pointers[p])
      /\ JoinedFlow(s, t).uncheckedUse = (s.uncheckedUse \/ t.uncheckedUse)
  BY DEF JoinedFlow
<1>2. \A p \in Pointers :
        /\ JoinedFlow(s, t).pointers[p].targets = s.pointers[p].targets \cup t.pointers[p].targets
        /\ JoinedFlow(s, t).pointers[p].unknown = (s.pointers[p].unknown \/ t.pointers[p].unknown)
  <2>1. \A a, b : /\ JoinTargets(a, b).targets = a.targets \cup b.targets
                  /\ JoinTargets(a, b).unknown = (a.unknown \/ b.unknown)
    BY DEF JoinTargets
  <2>2. QED
    BY <1>1, <2>1
<1>3. \A v \in Ints : JoinedFlow(s, t).values[v] \in {"Maybe", s.values[v]}
                      /\ JoinedFlow(s, t).values[v] \in {"Maybe", t.values[v]}
  BY <1>1 DEF JoinOrigin
<1>4. Subsumes(s, s)
  BY DEF Subsumes
<1>5. Subsumes(JoinedFlow(s, t), t)
  <2>1. \A p \in Pointers : /\ t.pointers[p].targets \subseteq JoinedFlow(s, t).pointers[p].targets
                            /\ t.pointers[p].unknown => JoinedFlow(s, t).pointers[p].unknown
    BY <1>2
  <2>2. t.uncheckedUse => JoinedFlow(s, t).uncheckedUse
    BY <1>1
  <2>3. QED
    BY <1>3, <2>1, <2>2 DEF Subsumes
<1>6. ASSUME Subsumes(s, e) PROVE Subsumes(JoinedFlow(s, t), e)
  <2>1. \A v \in Ints : \/ JoinedFlow(s, t).values[v] = "Maybe"
                        \/ JoinedFlow(s, t).values[v] = e.values[v]
    BY <1>3, <1>6 DEF Subsumes
  <2>2. \A p \in Pointers : e.pointers[p].targets \subseteq JoinedFlow(s, t).pointers[p].targets
    BY <1>2, <1>6 DEF Subsumes
  <2>3. \A p \in Pointers : e.pointers[p].unknown => JoinedFlow(s, t).pointers[p].unknown
    BY <1>2, <1>6 DEF Subsumes
  <2>4. e.uncheckedUse => JoinedFlow(s, t).uncheckedUse
    BY <1>1, <1>6 DEF Subsumes
  <2>5. QED
    BY <2>1, <2>2, <2>3, <2>4 DEF Subsumes
<1>7. QED
  BY <1>4, <1>5, <1>6

\* One input covers another state exactly if it subsumes it.
LEMMA CoversMeans ==
  ASSUME \A s, t \in ValueFlowStates : JoinOutcomes(s, t) = Join(s, t),
         NEW s \in ValueFlowStates, NEW t \in ValueFlowStates
  PROVE  Covers(s, t) <=> Subsumes(s, t)
<1> DEFINE result == [merged |-> JoinedFlow(s, t), changed |-> JoinedFlow(s, t) # s]
<1>1. JoinOutcomes(s, t) = {result} /\ result.changed = (JoinedFlow(s, t) # s)
  BY DEF Join
<1> HIDE DEF result
<1>2. QED
  BY <1>1, JoinedChangesNothing DEF Covers

\* The laws of the work list hold of State::join, whatever the variables: it
\* reports a change exactly when there is one, keeps what it joined, and forgets
\* nothing, so that neither search can lose a path.
THEOREM ValueFlowStatesAccumulate ==
  ASSUME \A s, t \in ValueFlowStates : JoinOutcomes(s, t) = Join(s, t)
  PROVE  JoinAccumulates(ValueFlowStates)
<1> DEFINE result(s, t) == [merged |-> JoinedFlow(s, t), changed |-> JoinedFlow(s, t) # s]
<1>outcome. \A s, t \in ValueFlowStates : JoinOutcomes(s, t) = {result(s, t)}
  BY DEF Join
<1>fields. \A s, t : /\ result(s, t).merged = JoinedFlow(s, t)
                     /\ result(s, t).changed = (JoinedFlow(s, t) # s)
  OBVIOUS
<1> HIDE DEF result
<1>1. ASSUME NEW s \in ValueFlowStates, NEW t \in ValueFlowStates
      PROVE  Covers(s, t) <=> Subsumes(s, t)
  BY CoversMeans
<1>2. ASSUME NEW s \in ValueFlowStates, NEW t \in ValueFlowStates
      PROVE  /\ Covers(s, s)
             /\ \A joined \in JoinOutcomes(s, t) :
                  /\ joined.merged \in ValueFlowStates
                  /\ joined.changed \in BOOLEAN
                  /\ ~joined.changed => Covers(s, t)
                  /\ Covers(joined.merged, t)
                  /\ \A e \in ValueFlowStates : Covers(s, e) => Covers(joined.merged, e)
  <2>1. Covers(s, s)
    BY <1>1, JoinedSubsumesMore
  <2>2. JoinedFlow(s, t) \in ValueFlowStates
    BY JoinedFlowIsTyped
  <2>3. /\ JoinOutcomes(s, t) = {result(s, t)}
        /\ result(s, t).merged = JoinedFlow(s, t)
        /\ result(s, t).changed = (JoinedFlow(s, t) # s)
    BY <1>outcome, <1>fields
  <2>4. JoinedFlow(s, t) = s => Covers(s, t)
    BY <1>1, JoinedChangesNothing
  <2>5. Covers(JoinedFlow(s, t), t)
    BY <1>1, <2>2, JoinedSubsumesMore
  <2>6. \A e \in ValueFlowStates : Covers(s, e) => Covers(JoinedFlow(s, t), e)
    BY <1>1, <2>2, JoinedSubsumesMore
  <2>7. ~result(s, t).changed => Covers(s, t)
    BY <2>3, <2>4
  <2>8. result(s, t).changed \in BOOLEAN
    BY <2>3
  <2>9. \A joined \in JoinOutcomes(s, t) : joined = result(s, t)
    BY <2>3
  <2>10. QED
    BY <2>1, <2>2, <2>3, <2>5, <2>6, <2>7, <2>8, <2>9
<1>3. QED
  BY <1>2 DEF JoinAccumulates

-----------------------------------------------------------------------------
\* The statements of a block take states to states.

LEMMA ElementForms ==
  ASSUME NEW stmt \in Elements
  PROVE  /\ stmt.op \in {"set", "choose", "step", "use", "return", "pass"}
         /\ stmt.op \in {"set", "choose"} =>
              /\ stmt.to \in Places \cup PointerPlaces
              /\ stmt.to \in Places => Sources(stmt) \subseteq Values
              /\ stmt.to \in PointerPlaces => Sources(stmt) \subseteq PointerValues
              /\ stmt.from \in Sources(stmt)
              /\ stmt.op = "choose" => Sources(stmt) = {stmt.from, stmt.other}
              /\ stmt.op = "set" => Sources(stmt) = {stmt.from}
         /\ stmt.op = "step" => stmt.of \in Places \cup PointerPlaces
         /\ stmt.op \in {"use", "return", "pass"} => stmt.of \in Operands
<1>1. Places \cap PointerPlaces = {}
  <2> SUFFICES ASSUME NEW e \in Places, e \in PointerPlaces PROVE FALSE
    OBVIOUS
  <2>1. e.as = "var" /\ e.of \in Pointers
    BY DEF PointerPlaces
  <2>2. e.of \in Ints
    BY <2>1 DEF Places
  <2>3. QED
    BY <2>1, <2>2, ValueFlowAssumption
<1>2. CASE stmt \in [op : {"set"}, to : Places, from : Values]
  BY <1>1, <1>2 DEF Sources
<1>3. CASE stmt \in [op : {"set"}, to : PointerPlaces, from : PointerValues]
  BY <1>1, <1>3 DEF Sources
<1>4. CASE stmt \in [op : {"choose"}, to : Places, from : Values, other : Values]
  BY <1>1, <1>4 DEF Sources
<1>5. CASE stmt \in [op : {"choose"}, to : PointerPlaces, from : PointerValues, other : PointerValues]
  BY <1>1, <1>5 DEF Sources
<1>6. CASE stmt \in [op : {"step"}, of : Places \cup PointerPlaces]
  BY <1>6
<1>7. CASE stmt \in [op : {"use", "return"}, of : Operands]
  BY <1>7
<1>8. CASE stmt \in [op : {"pass"}, of : Operands, checked : BOOLEAN]
  BY <1>8
<1>9. QED
  BY <1>2, <1>3, <1>4, <1>5, <1>6, <1>7, <1>8 DEF Elements

\* What an operand is, by its form.
LEMMA OperandForms ==
  ASSUME NEW e \in Operands
  PROVE  /\ e.as \in {"var", "deref", "address", "call", "other"}
         /\ e.as = "var" => e.of \in Ints \cup Pointers
         /\ e.as = "deref" => e.of \in Pointers
         /\ e.as = "address" => e.of \in Ints
         /\ e \in Values /\ e.as = "var" => e.of \in Ints
         /\ e \in Values => e.as # "address"
         /\ e \in PointerValues => e.as \in {"var", "address", "other"}
         /\ e \in PointerValues /\ e.as = "var" => e.of \in Pointers
  BY DEF Operands, Values, PointerValues, Places, PointerPlaces

LEMMA JoinOriginIsTyped ==
  \A a, b \in Origins : JoinOrigin(a, b) \in Origins
  BY DEF JoinOrigin, Origins

\* Reading gives an origin and targets, and says where it read.
LEMMA ReadingIsTyped ==
  ASSUME NEW s \in ValueFlowStates, NEW e \in Operands
  PROVE  /\ OriginOf(s, e) \in Origins /\ PointerOf(s, e) \in Targets
         /\ Locations(s, e) \subseteq Ints \cup Pointers
<1>1. Locations(s, e) \subseteq Ints \cup Pointers
  BY OperandForms DEF Locations, ValueFlowStates, Targets
<1>2. PointerOf(s, e) \in Targets
  BY OperandForms DEF PointerOf, NoTarget, ValueFlowStates, Targets
<1>3. ASSUME NEW places \in SUBSET Ints PROVE ReadOrigin(s, places) \in Origins
  <2> DEFINE read == {s.values[v] : v \in places}
  <2>1. read \subseteq Origins
    BY DEF ValueFlowStates
  <2>2. ReadOrigin(s, places) = IF read = {} THEN "No"
                                ELSE IF Cardinality(read) = 1 THEN CHOOSE o \in read : TRUE ELSE "Maybe"
    BY DEF ReadOrigin
  <2>3. read # {} => (CHOOSE o \in read : TRUE) \in read
    <3> HIDE DEF read
    <3> QED OBVIOUS
  <2> HIDE DEF read
  <2>4. QED
    BY <2>1, <2>2, <2>3 DEF Origins
<1>4. ReadOrigin(s, Locations(s, e) \cap Ints) \in Origins
  BY <1>3
<1>5. QED
  BY <1>1, <1>2, <1>4 DEF OriginOf, Origins

\* Writing keeps a state a state, and changes the places written only.
LEMMA WriteIsTyped ==
  ASSUME NEW s \in ValueFlowStates, NEW places, NEW origin \in Origins, NEW pointer \in Targets
  PROVE  /\ Write(s, places, origin, pointer) \in ValueFlowStates
         /\ \A v \in Ints : Write(s, places, origin, pointer).values[v] =
                              IF v \in places THEN origin ELSE s.values[v]
         /\ \A p \in Pointers : Write(s, places, origin, pointer).pointers[p] =
                                  IF p \in places THEN pointer ELSE s.pointers[p]
         /\ Write(s, places, origin, pointer).uncheckedUse = s.uncheckedUse
<1> DEFINE values == [v \in Ints |-> IF v \in places THEN origin ELSE s.values[v]]
           pointers == [p \in Pointers |-> IF p \in places THEN pointer ELSE s.pointers[p]]
<1>1. values \in [Ints -> Origins] /\ pointers \in [Pointers -> Targets]
  BY DEF ValueFlowStates
<1>2. /\ \A v \in Ints : values[v] = IF v \in places THEN origin ELSE s.values[v]
      /\ \A p \in Pointers : pointers[p] = IF p \in places THEN pointer ELSE s.pointers[p]
  OBVIOUS
<1>3. Write(s, places, origin, pointer) =
        [values |-> values, pointers |-> pointers, uncheckedUse |-> s.uncheckedUse]
  <2> HIDE DEF values, pointers
  <2>1. PICK use \in BOOLEAN, held \in [Ints -> Origins], pointing \in [Pointers -> Targets] :
          s = [values |-> held, pointers |-> pointing, uncheckedUse |-> use]
    BY DEF ValueFlowStates
  <2>2. Write(s, places, origin, pointer) = [s EXCEPT !.values = values, !.pointers = pointers]
    BY DEF Write, values, pointers
  <2>3. QED
    BY <2>1, <2>2
<1> HIDE DEF values, pointers
<1>4. QED
  BY <1>1, <1>2, <1>3 DEF ValueFlowStates

\* A block is over for what it has cleared: nothing holds the result.
LEMMA ClearIsTyped ==
  ASSUME NEW s \in ValueFlowStates
  PROVE  /\ ClearTrackedOrigins(s) \in ValueFlowStates
         /\ \A v \in Ints : ClearTrackedOrigins(s).values[v] = "No"
         /\ ClearTrackedOrigins(s).pointers = s.pointers
         /\ ClearTrackedOrigins(s).uncheckedUse = s.uncheckedUse
  BY DEF ClearTrackedOrigins, ValueFlowStates, Origins

LEMMA ApplyIsTyped ==
  ASSUME NEW which \in Searches
  PROVE  \A s \in ValueFlowStates, stmt \in Elements : Apply(which, s, stmt) \in ValueFlowStates
<1> TAKE s \in ValueFlowStates, stmt \in Elements
<1>1. stmt.op \in {"set", "choose", "step", "use", "return", "pass"}
  BY ElementForms
<1>2. CASE stmt.op \in {"set", "choose"}
  <2>1. Sources(stmt) \subseteq Operands /\ stmt.from \in Sources(stmt)
    BY <1>2, ElementForms DEF Operands
  <2>2. \A e \in Sources(stmt) : OriginOf(s, e) \in Origins /\ PointerOf(s, e) \in Targets
    BY <2>1, ReadingIsTyped
  <2>3. CASE stmt.op = "set"
    <3>1. Apply(which, s, stmt) =
            Write(s, Locations(s, stmt.to), OriginOf(s, stmt.from), PointerOf(s, stmt.from))
      BY <2>3 DEF Apply
    <3>2. PICK origin \in Origins, pointer \in Targets :
            origin = OriginOf(s, stmt.from) /\ pointer = PointerOf(s, stmt.from)
      BY <2>1, <2>2
    <3>3. Write(s, Locations(s, stmt.to), origin, pointer) \in ValueFlowStates
      BY WriteIsTyped
    <3>4. QED
      BY <3>1, <3>2, <3>3
  <2>4. CASE stmt.op = "choose"
    <3>1. stmt.from \in Sources(stmt) /\ stmt.other \in Sources(stmt)
      BY <2>4, ElementForms
    <3>2. JoinOrigin(OriginOf(s, stmt.from), OriginOf(s, stmt.other)) \in Origins
      BY <2>2, <3>1, JoinOriginIsTyped
    <3>3. JoinTargets(PointerOf(s, stmt.from), PointerOf(s, stmt.other)) \in Targets
      <4>1. \A a, b \in Targets : JoinTargets(a, b) \in Targets
        BY DEF JoinTargets, Targets
      <4>2. QED
        BY <2>2, <3>1, <4>1
    <3>4. Apply(which, s, stmt) =
            Write(s, Locations(s, stmt.to),
                  JoinOrigin(OriginOf(s, stmt.from), OriginOf(s, stmt.other)),
                  JoinTargets(PointerOf(s, stmt.from), PointerOf(s, stmt.other)))
      BY <2>4 DEF Apply
    <3>5. QED
      BY <3>2, <3>3, <3>4, WriteIsTyped
  <2>5. QED
    BY <1>2, <2>3, <2>4
<1>3. CASE stmt.op = "step"
  <2>1. NoTarget \in Targets /\ "No" \in Origins
    BY DEF NoTarget, Targets, Origins
  <2>2. QED
    BY <1>3, <2>1, WriteIsTyped DEF Apply
<1>4. CASE stmt.op = "use"
  BY <1>4 DEF Apply, ValueFlowStates
<1>5. CASE stmt.op = "return"
  BY <1>5, ClearIsTyped DEF Apply
<1>6. CASE stmt.op = "pass"
  BY <1>6 DEF Apply
<1>7. QED
  BY <1>1, <1>2, <1>3, <1>4, <1>5, <1>6

\* What the statements q make of a state, in the search which.
Folded(which, s, q) == FoldLeft(LAMBDA acc, stmt : Apply(which, acc, stmt), s, q)

\* A block is applied one statement after the other, from state to state.
LEMMA FoldLeftComputes ==
  ASSUME NEW which \in Searches, NEW s \in ValueFlowStates, NEW q \in Seq(Elements)
  PROVE  \E g \in [0..Len(q) -> ValueFlowStates] :
           /\ g[0] = s
           /\ \A k \in 1..Len(q) : g[k] = Apply(which, g[k - 1], q[k])
           /\ Folded(which, s, q) = g[Len(q)]
<1> DEFINE n == Len(q)
           step == [k \in 1..n |-> [v \in ValueFlowStates |-> Apply(which, v, q[k])]]
           IsFold(it) == it = [r \in SUBSET (DOMAIN q) |->
                                 IF r = {} THEN s ELSE Apply(which, it[r \ {Max(r)}], q[Max(r)])]
<1>1. n \in Nat /\ DOMAIN q = 1..n /\ \A k \in 1..n : q[k] \in Elements
  OBVIOUS
<1>2. step \in [1..n -> [ValueFlowStates -> ValueFlowStates]]
  BY <1>1, ApplyIsTyped
<1>3. \E it : IsFold(it)
  <2> HIDE DEF step, n
  <2>1. PICK it \in [SUBSET (1..n) -> ValueFlowStates] :
          Iterates(it, s, n, step)
    BY <1>1, <1>2, FoldExists
  <2>2. ASSUME NEW r \in SUBSET (1..n), r # {}
        PROVE  step[Max(r)][it[r \ {Max(r)}]] = Apply(which, it[r \ {Max(r)}], q[Max(r)])
    <3>1. Max(r) \in 1..n
      BY <1>1, <2>2, MaxOfNumbers
    <3>2. it[r \ {Max(r)}] \in ValueFlowStates
      OBVIOUS
    <3>3. QED
      BY <3>1, <3>2 DEF step
  <2>3. IsFold(it)
    BY <1>1, <2>1, <2>2 DEF Iterates
  <2>4. QED
    BY <2>3
<1>4. PICK it : IsFold(it) /\ Folded(which, s, q) = it[DOMAIN q]
  <2>1. Folded(which, s, q) = (CHOOSE it : IsFold(it))[DOMAIN q]
    BY DEF Folded, FoldLeft, MapThenFoldSet
  <2>2. IsFold(CHOOSE it : IsFold(it))
    <3> HIDE DEF IsFold
    <3> QED BY <1>3
  <2>3. QED
    BY <2>1, <2>2
<1> DEFINE g == [k \in 0..n |-> it[1..k]]
<1>5. g[0] = s
  <2>1. 1..0 = {}
    OBVIOUS
  <2>2. QED
    BY <1>1, <1>4, <2>1
<1>6. ASSUME NEW k \in 1..n PROVE g[k] = Apply(which, g[k - 1], q[k])
  <2>0. k \in Nat /\ k \in 1..k /\ (1..k) \ {k} = 1..(k - 1) /\ \A i \in 1..k : i \in 1..n
    BY <1>1
  <2>1. 1..k \in SUBSET (DOMAIN q) /\ 1..k # {} /\ (1..k) \ {k} = 1..(k - 1) /\ k \in 1..k /\ k \in Nat
    <3> HIDE DEF n
    <3> QED BY <1>1, <2>0
  <2>2. Max(1..k) = k
    BY <2>1, MaxOfInterval
  <2>3. it[1..k] = Apply(which, it[1..(k - 1)], q[k])
    BY <1>4, <2>1, <2>2
  <2>4. QED
    BY <1>1, <2>3
<1>7. \A k \in 0..n : g[k] \in ValueFlowStates
  <2> DEFINE T == {k \in 0..n : g[k] \in ValueFlowStates}
  <2> HIDE DEF g, n
  <2>1. 0 \in T
    BY <1>1, <1>5
  <2>2. ASSUME NEW k \in 1..n, k - 1 \in T PROVE k \in T
    BY <1>1, <1>6, <2>2, ApplyIsTyped
  <2>3. T = 0..n
    <3>1. T \in SUBSET (0..n)
      BY DEF T
    <3> HIDE DEF T
    <3>2. QED
      BY <1>1, <2>1, <2>2, <3>1, IntervalInduction
  <2>4. QED
    BY <2>3
<1>8. g \in [0..n -> ValueFlowStates]
  BY <1>7
<1>9. Folded(which, s, q) = g[n]
  BY <1>1, <1>4
<1>10. QED
  BY <1>5, <1>6, <1>8, <1>9

\* So is every beginning of it.
LEMMA FoldLeftSteps ==
  ASSUME NEW which \in Searches, NEW s \in ValueFlowStates, NEW q \in Seq(Elements)
  PROVE  /\ Folded(which, s, SubSeq(q, 1, 0)) = s
         /\ \A i \in 0..Len(q) : Folded(which, s, SubSeq(q, 1, i)) \in ValueFlowStates
         /\ \A i \in 1..Len(q) :
              Folded(which, s, SubSeq(q, 1, i)) = Apply(which, Folded(which, s, SubSeq(q, 1, i - 1)), q[i])
<1>1. PICK g \in [0..Len(q) -> ValueFlowStates] :
         /\ g[0] = s
         /\ \A k \in 1..Len(q) : g[k] = Apply(which, g[k - 1], q[k])
         /\ Folded(which, s, q) = g[Len(q)]
  BY FoldLeftComputes
<1>2. ASSUME NEW i \in 0..Len(q) PROVE Folded(which, s, SubSeq(q, 1, i)) = g[i]
  <2> DEFINE p == SubSeq(q, 1, i)
  <2>1. p \in Seq(Elements) /\ Len(p) = i /\ \A k \in 1..i : p[k] = q[k]
    OBVIOUS
  <2> HIDE DEF p
  <2>2. PICK h \in [0..Len(p) -> ValueFlowStates] :
         /\ h[0] = s
         /\ \A k \in 1..Len(p) : h[k] = Apply(which, h[k - 1], p[k])
         /\ Folded(which, s, p) = h[Len(p)]
    BY <2>1, FoldLeftComputes
  <2>3. \A k \in 1..i : h[k - 1] = g[k - 1] => h[k] = g[k]
    <3> SUFFICES ASSUME NEW k \in 1..i, h[k - 1] = g[k - 1] PROVE h[k] = g[k]
      OBVIOUS
    <3>1. k \in 1..Len(q) /\ k \in 1..Len(p)
      BY <2>1
    <3>2. h[k] = Apply(which, h[k - 1], p[k]) /\ g[k] = Apply(which, g[k - 1], q[k])
      BY <1>1, <2>2, <3>1
    <3>3. p[k] = q[k]
      BY <2>1
    <3>4. QED
      BY <3>2, <3>3
  <2>4. i \in Nat /\ h[0] = g[0]
    BY <1>1, <2>2
  <2>5. \A k \in 0..i : h[k] = g[k]
    <3> DEFINE T == {k \in 0..i : h[k] = g[k]}
    <3>1. T \in SUBSET (0..i) /\ 0 \in T
      BY <2>4
    <3>2. \A k \in 1..i : k - 1 \in T => k \in T
      BY <2>3, <2>4
    <3>3. T = 0..i
      <4> HIDE DEF T
      <4> QED BY <2>4, <3>1, <3>2, IntervalInduction
    <3>4. QED
      BY <3>3
  <2>6. QED
    BY <2>1, <2>2, <2>4, <2>5 DEF p
<1>3. Len(q) \in Nat
  OBVIOUS
<1>4. QED
  BY <1>1, <1>2, <1>3

\* The state before each statement of a block, from its input on.
LEMMA StatesInTurn ==
  ASSUME NEW b \in Blocks, NEW s \in ValueFlowStates
  PROVE  /\ StateBefore(b, 1, s) = s
         /\ \A i \in 1..(Len(Body[b]) + 1) : StateBefore(b, i, s) \in ValueFlowStates
         /\ \A i \in 1..Len(Body[b]) : StateBefore(b, i + 1, s) = Apply(Search[b], StateBefore(b, i, s), Body[b][i])
<1>0. Search[b] \in Searches
  BY ValueFlowAssumption
<1>1. PICK q \in Seq(Elements) : q = Body[b]
  BY ValueFlowAssumption
<1>2. Len(q) \in Nat
  OBVIOUS
<1>3. ASSUME NEW i \in 1..(Len(q) + 1)
      PROVE  StateBefore(b, i, s) = Folded(Search[b], s, SubSeq(q, 1, i - 1)) /\ i - 1 \in 0..Len(q)
  BY <1>1, <1>2 DEF StateBefore, Folded
<1>4. \A i \in 1..Len(q) : i \in 1..(Len(q) + 1) /\ i + 1 \in 1..(Len(q) + 1) /\ (i + 1) - 1 = i
  BY <1>2
<1>5. 1 \in 1..(Len(q) + 1) /\ 1 - 1 = 0
  BY <1>2
<1>6. /\ Folded(Search[b], s, SubSeq(q, 1, 0)) = s
      /\ \A i \in 0..Len(q) : Folded(Search[b], s, SubSeq(q, 1, i)) \in ValueFlowStates
      /\ \A i \in 1..Len(q) :
           Folded(Search[b], s, SubSeq(q, 1, i)) = Apply(Search[b], Folded(Search[b], s, SubSeq(q, 1, i - 1)), q[i])
  BY <1>0, FoldLeftSteps
<1>7. \A i \in 1..Len(q) : StateBefore(b, i + 1, s) = Apply(Search[b], StateBefore(b, i, s), q[i])
  BY <1>3, <1>4, <1>6
<1>8. \A i \in 1..(Len(q) + 1) : StateBefore(b, i, s) \in ValueFlowStates
  BY <1>3, <1>6
<1>9. QED
  BY <1>1, <1>3, <1>5, <1>6, <1>7, <1>8

\* A block, its terminator included, takes states to states.
LEMMA TransferIsTyped ==
  ASSUME NEW b \in Blocks, NEW s \in ValueFlowStates
  PROVE  /\ StateAtEnd(b, s) \in ValueFlowStates
         /\ TransferBlock(b, s) \in ValueFlowStates
<1>1. Len(Body[b]) + 1 \in 1..(Len(Body[b]) + 1)
  <2>1. Body[b] \in Seq(Elements)
    BY ValueFlowAssumption
  <2>2. QED
    BY <2>1
<1>2. StateAtEnd(b, s) \in ValueFlowStates
  BY <1>1, StatesInTurn DEF StateAtEnd
<1>3. TransferBlock(b, s) \in {StateAtEnd(b, s), ClearTrackedOrigins(StateAtEnd(b, s))}
  BY DEF TransferBlock
<1>4. QED
  BY <1>2, <1>3, ClearIsTyped

-----------------------------------------------------------------------------
\* Expressions: what a state true of the variables says of a value it is read.

\* Only from variables that all hold the result is it read.
LEMMA ReadOriginMeans ==
  ASSUME NEW s \in ValueFlowStates, NEW locations \in SUBSET Ints, NEW v \in locations,
         ReadOrigin(s, locations) # "Maybe"
  PROVE  s.values[v] = ReadOrigin(s, locations)
<1> DEFINE read == {s.values[w] : w \in locations}
<1>1. s.values[v] \in read /\ read \subseteq Origins
  BY DEF ValueFlowStates
<1>2. ReadOrigin(s, locations) = IF read = {} THEN "No"
                                 ELSE IF Cardinality(read) = 1 THEN CHOOSE o \in read : TRUE ELSE "Maybe"
  BY DEF ReadOrigin
<1> HIDE DEF read
<1>3. read # {} /\ Cardinality(read) = 1
  BY <1>1, <1>2
<1>4. IsFiniteSet(read)
  <2>1. IsFiniteSet(Origins)
    <3>1. Origins = (({} \cup {"No"}) \cup {"Yes"}) \cup {"Maybe"}
      BY DEF Origins
    <3>2. QED
      BY <3>1, FS_EmptySet, FS_AddElement
  <2>2. QED
    BY <1>1, <2>1, FS_Subset
<1>5. PICK o : read = {o}
  BY <1>3, <1>4, FS_Singleton
<1>6. s.values[v] = o /\ ReadOrigin(s, locations) = o
  BY <1>1, <1>2, <1>3, <1>5
<1>7. QED
  BY <1>6

\* A pointer with a known target has it among its targets.
LEMMA PointerIsFollowed ==
  ASSUME RunTypeOK, NEW s \in ValueFlowStates, True(s, store),
         NEW p \in Pointers, ~s.pointers[p].unknown
  PROVE  store[p] \in Ints /\ store[p] # Outside /\ store[p] \in s.pointers[p].targets
<1>1. store[p] \in s.pointers[p].targets
  BY DEF True
<1>2. s.pointers[p].targets \subseteq Ints
  BY DEF ValueFlowStates, Targets
<1>3. QED
  BY <1>1, <1>2, ValueFlowAssumption

\* What is an alias holds the result; what certainly is none does not hold a
\* result unchecked, if the state misses none.
LEMMA OriginMeans ==
  ASSUME RunTypeOK, NEW s \in ValueFlowStates, True(s, store), NEW e \in Operands
  PROVE  /\ OriginOf(s, e) = "Yes" => HoldsResult(e)
         /\ OriginOf(s, e) = "No" /\ ~Misses(s, store, used) => ValueOf(e) # "result"
<1>0. /\ e.as \in {"var", "deref", "address", "call", "other"}
      /\ e.as = "var" => e.of \in Ints \cup Pointers
      /\ e.as = "deref" => e.of \in Pointers
      /\ e.as = "address" => e.of \in Ints
  BY OperandForms
<1>1. CASE e.as = "call"
  BY <1>1 DEF OriginOf, HoldsResult, ValueOf
<1>2. CASE e.as = "other"
  BY <1>2 DEF OriginOf, UnknownLocation, ReadOrigin, Locations, ValueOf
<1>3. CASE e.as = "address"
  BY <1>0, <1>3, ValueFlowAssumption DEF OriginOf, UnknownLocation, ReadOrigin, Locations, ValueOf
<1>4. CASE e.as = "var" /\ e.of \in Pointers
  <2>1. Locations(s, e) \cap Ints = {} /\ ~UnknownLocation(s, e)
    BY <1>4, ValueFlowAssumption DEF Locations, UnknownLocation
  <2>2. OriginOf(s, e) = "No"
    BY <1>4, <2>1 DEF OriginOf, ReadOrigin
  <2>3. ValueOf(e) \in {"other", store[e.of]}
    BY <1>4 DEF ValueOf, Place
  <2>4. store[e.of] \in Ints \cup {Outside}
    BY <1>4 DEF RunTypeOK
  <2>5. ValueOf(e) # "result"
    BY <2>3, <2>4, ValueFlowAssumption DEF Outside
  <2>6. QED
    BY <2>2, <2>5
<1>5. ASSUME NEW v \in Ints, v \in Locations(s, e) \cap Ints, ~UnknownLocation(s, e),
             e.as # "call", ValueOf(e) = store[v]
      PROVE  /\ OriginOf(s, e) = "Yes" => HoldsResult(e)
             /\ OriginOf(s, e) = "No" /\ ~Misses(s, store, used) => ValueOf(e) # "result"
  <2>1. OriginOf(s, e) = ReadOrigin(s, Locations(s, e) \cap Ints)
    BY <1>5 DEF OriginOf
  <2>2. OriginOf(s, e) # "Maybe" => s.values[v] = OriginOf(s, e)
    BY <1>5, <2>1, ReadOriginMeans
  <2>3. s.values[v] = "Yes" => store[v] \in {"result", "checked"}
    BY DEF True
  <2>4. s.values[v] = "No" /\ ~Misses(s, store, used) => store[v] # "result"
    BY DEF Misses
  <2>5. QED
    BY <1>5, <2>2, <2>3, <2>4 DEF HoldsResult
<1>6. CASE e.as = "var" /\ e.of \in Ints
  <2>1. e.of \in Locations(s, e) \cap Ints /\ ~UnknownLocation(s, e) /\ e.as # "call"
    BY <1>6 DEF Locations, UnknownLocation
  <2>2. ValueOf(e) = store[e.of]
    BY <1>6, ValueFlowAssumption DEF ValueOf, Place
  <2>3. QED
    BY <1>5, <1>6, <2>1, <2>2
<1>7. CASE e.as = "deref" /\ ~UnknownLocation(s, e)
  <2>1. e.of \in Pointers /\ ~s.pointers[e.of].unknown
    BY <1>0, <1>7 DEF UnknownLocation
  <2>2. /\ store[e.of] \in Ints /\ store[e.of] # Outside
        /\ store[e.of] \in s.pointers[e.of].targets
    BY <2>1, PointerIsFollowed
  <2>3. store[e.of] \in Locations(s, e) \cap Ints /\ ValueOf(e) = store[store[e.of]]
    BY <1>7, <2>2 DEF Locations, ValueOf, Place
  <2>4. QED
    BY <1>5, <1>7, <2>2, <2>3
<1>8. CASE UnknownLocation(s, e)
  <2>1. OriginOf(s, e) = "Maybe"
    BY <1>8 DEF OriginOf, UnknownLocation
  <2>2. QED
    BY <2>1
<1>9. QED
  BY <1>0, <1>1, <1>2, <1>3, <1>4, <1>6, <1>7, <1>8

\* What an expression may point to is among its targets.
LEMMA PointerMeans ==
  ASSUME RunTypeOK, NEW s \in ValueFlowStates, True(s, store), NEW e \in PointerValues, e.as # "other"
  PROVE  PointerOf(s, e).unknown \/ (ValueOf(e) \in Ints /\ ValueOf(e) \in PointerOf(s, e).targets)
<1>0. /\ e.as \in {"var", "address"}
      /\ e.as = "var" => e.of \in Pointers
      /\ e.as = "address" => e.of \in Ints
  BY OperandForms DEF Operands
<1>1. CASE e.as = "address"
  BY <1>0, <1>1 DEF PointerOf, ValueOf
<1>2. CASE e.as = "var"
  <2>1. PointerOf(s, e) = s.pointers[e.of]
    BY <1>0, <1>2 DEF PointerOf
  <2>2. ValueOf(e) = store[e.of]
    BY <1>0, <1>2, ValueFlowAssumption DEF ValueOf, Place
  <2>3. QED
    BY <1>0, <1>2, <2>1, <2>2, PointerIsFollowed
<1>3. QED
  BY <1>0, <1>1, <1>2

-----------------------------------------------------------------------------
\* Statements: what a state true of the variables becomes is true of what they
\* become, and it goes on missing nothing.

\* A write reaches the one place it may be of, where the analysis knows it.
LEMMA WrittenPlace ==
  ASSUME RunTypeOK, NEW s \in ValueFlowStates, True(s, store), NEW to \in Places \cup PointerPlaces,
         to.as = "deref" => Cardinality(Locations(s, to)) <= 1 /\ ~UnknownLocation(s, to)
  PROVE  /\ Locations(s, to) = {Place(to)} /\ Place(to) # Outside
         /\ to \in Places => Place(to) \in Ints
         /\ to \in PointerPlaces => Place(to) \in Pointers
<1>1. CASE to \in PointerPlaces
  <2>1. to.as = "var" /\ to.of \in Pointers /\ to.of # Outside
    BY <1>1, ValueFlowAssumption DEF PointerPlaces
  <2>2. to \notin Places
    BY <2>1, ValueFlowAssumption DEF Places
  <2>3. QED
    BY <2>1, <2>2 DEF Locations, Place
<1>2. CASE to \in Places
  <2>1. \/ to.as = "var" /\ to.of \in Ints /\ to.of # Outside
        \/ to.as = "deref" /\ to.of \in Pointers
    BY <1>2, ValueFlowAssumption DEF Places
  <2>2. to \notin PointerPlaces
    BY <2>1, ValueFlowAssumption DEF PointerPlaces
  <2>3. CASE to.as = "var"
    BY <2>1, <2>2, <2>3 DEF Locations, Place
  <2>4. CASE to.as = "deref"
    <3>1. ~s.pointers[to.of].unknown /\ Cardinality(Locations(s, to)) <= 1 /\ to.of \in Pointers
      BY <2>1, <2>4 DEF UnknownLocation
    <3>2. /\ store[to.of] \in Ints /\ store[to.of] # Outside
          /\ store[to.of] \in s.pointers[to.of].targets
      BY <3>1, PointerIsFollowed
    <3>3. Locations(s, to) = s.pointers[to.of].targets /\ Place(to) = store[to.of]
      BY <2>4 DEF Locations, Place
    <3>4. Locations(s, to) \subseteq Ints
      BY <3>1, <3>3 DEF ValueFlowStates, Targets
    <3>5. IsFiniteSet(Locations(s, to))
      BY <3>4, ValueFlowAssumption, FS_Subset
    <3>6. Cardinality(Locations(s, to)) = 1
      <4>1. Cardinality(Locations(s, to)) # 0 /\ Cardinality(Locations(s, to)) \in Nat
        BY <3>2, <3>3, <3>5, FS_EmptySet, FS_CardinalityType
      <4>2. QED
        BY <3>1, <4>1
    <3>7. PICK x : Locations(s, to) = {x}
      BY <3>5, <3>6, FS_Singleton
    <3>8. Locations(s, to) = {Place(to)}
      BY <3>2, <3>3, <3>7
    <3>9. QED
      BY <2>2, <3>2, <3>3, <3>8
  <2>5. QED
    BY <2>1, <2>3, <2>4
<1>3. QED
  BY <1>1, <1>2

\* Writing a value, and what is known of it, to one place.
LEMMA WriteMeans ==
  ASSUME RunTypeOK, NEW s \in ValueFlowStates, True(s, store),
         NEW place \in Ints \cup Pointers, NEW v, NEW origin \in Origins, NEW pointer \in Targets,
         NEW written, \A w \in Ints \cup Pointers : written[w] = IF w = place THEN v ELSE store[w],
         place \in Ints /\ origin = "Yes" => v \in {"result", "checked"},
         place \in Pointers => pointer.unknown \/ v \in pointer.targets
  PROVE  /\ True(Write(s, {place}, origin, pointer), written)
         /\ ~Misses(s, store, used) /\ (place \in Ints /\ origin = "No" => v # "result")
              => ~Misses(Write(s, {place}, origin, pointer), written, used)
<1>0. PICK places : places = {place}
  OBVIOUS
<1> PICK w : w = Write(s, places, origin, pointer)
  OBVIOUS
<1>1. /\ \A x \in Ints : w.values[x] = IF x \in places THEN origin ELSE s.values[x]
      /\ \A p \in Pointers : w.pointers[p] = IF p \in places THEN pointer ELSE s.pointers[p]
      /\ w.uncheckedUse = s.uncheckedUse
  BY DEF Write, ValueFlowStates
<1>2. True(w, written)
  BY <1>0, <1>1 DEF True
<1>3. ~Misses(s, store, used) /\ (place \in Ints /\ origin = "No" => v # "result")
        => ~Misses(w, written, used)
  BY <1>0, <1>1 DEF Misses
<1>4. QED
  BY <1>0, <1>2, <1>3

\* The statement writes to a place the analysis knows.
Unambiguous(s, stmt) ==
  Written(stmt).as = "deref" =>
    Cardinality(Locations(s, Written(stmt))) <= 1 /\ ~UnknownLocation(s, Written(stmt))

\* No pointer receives what the analysis cannot follow.
Followed(stmt) ==
  Written(stmt) \in PointerPlaces => stmt.op # "step" /\ \A e \in Sources(stmt) : e.as # "other"

LEMMA AssignMeans ==
  ASSUME RunTypeOK, NEW s \in ValueFlowStates, True(s, store), NEW which \in Searches,
         Statement \in Elements, Assign, Unambiguous(s, Statement), Followed(Statement)
  PROVE  /\ True(Apply(which, s, Statement), store')
         /\ ~Misses(s, store, used) => ~Misses(Apply(which, s, Statement), store', used')
<1>1. PICK stmt \in Elements : stmt = Statement
  OBVIOUS
<1> DEFINE to == Written(stmt)
<1>2. stmt.op \in {"set", "choose", "step"} /\ used' = used
  BY <1>1 DEF Assign
<1>3. to \in Places \cup PointerPlaces
  BY <1>2, ElementForms DEF Written
<1>4. PICK place : place = Place(to)
  OBVIOUS
<1>5. /\ Locations(s, to) = {place} /\ place # Outside
      /\ to \in Places => place \in Ints
      /\ to \in PointerPlaces => place \in Pointers
  BY <1>1, <1>3, <1>4, WrittenPlace DEF Unambiguous
<1>6. PICK v \in IF stmt.op = "step" THEN {"other"} ELSE {ValueOf(e) : e \in Sources(stmt)} :
        store' = [store EXCEPT ![place] = Stored(place, v)]
  BY <1>1, <1>4, <1>5 DEF Assign, Written
<1>7. place \in Ints \cup Pointers /\ DOMAIN store = Ints \cup Pointers
  BY <1>3, <1>5 DEF RunTypeOK
<1>8. \A w \in Ints \cup Pointers : store'[w] = IF w = place THEN Stored(place, v) ELSE store[w]
  BY <1>6, <1>7
<1> DEFINE after == Apply(which, s, stmt)
<1>9. ASSUME NEW origin \in Origins, NEW pointer \in Targets,
             after = Write(s, {place}, origin, pointer),
             place \in Ints /\ origin = "Yes" => v \in {"result", "checked"},
             place \in Ints /\ origin = "No" /\ ~Misses(s, store, used) => v # "result",
             place \in Pointers => pointer.unknown \/ (v \in Ints /\ v \in pointer.targets)
      PROVE  True(after, store') /\ (~Misses(s, store, used) => ~Misses(after, store', used))
  <2>1. PICK x : x = Stored(place, v)
    OBVIOUS
  <2>2. place \in Ints => x = v
    BY <2>1, ValueFlowAssumption DEF Stored
  <2>3. place \in Pointers => pointer.unknown \/ x \in pointer.targets
    BY <1>9, <2>1 DEF Stored
  <2>4. PICK written : written = store'
    OBVIOUS
  <2>5. \A w \in Ints \cup Pointers : written[w] = IF w = place THEN x ELSE store[w]
    BY <1>8, <2>1, <2>4
  <2>6. /\ True(Write(s, {place}, origin, pointer), written)
        /\ ~Misses(s, store, used) /\ (place \in Ints /\ origin = "No" => x # "result")
             => ~Misses(Write(s, {place}, origin, pointer), written, used)
    BY <1>7, <1>9, <2>2, <2>3, <2>5, WriteMeans
  <2>7. QED
    BY <1>9, <2>2, <2>4, <2>6
<1>10. CASE stmt.op = "step"
  <2>1. to = stmt.of /\ to \notin PointerPlaces
    BY <1>1, <1>10 DEF Written, Followed
  <2>2. place \in Ints /\ place \notin Pointers
    BY <1>3, <1>5, <2>1, ValueFlowAssumption
  <2>3. Locations(s, to) \cap Ints = {place}
    BY <1>5, <2>2
  <2>4. after = Write(s, Locations(s, to) \cap Ints, "No", NoTarget)
    BY <1>10, <2>1 DEF Apply
  <2>5. "No" \in Origins /\ NoTarget \in Targets /\ v = "other"
    BY <1>6, <1>10 DEF Origins, NoTarget, Targets
  <2>6. QED
    BY <1>1, <1>2, <1>9, <2>2, <2>3, <2>4, <2>5
<1>11. ASSUME NEW e \in Sources(stmt), stmt.op # "step"
       PROVE  /\ OriginOf(s, e) \in Origins /\ PointerOf(s, e) \in Targets
              /\ place \in Ints /\ OriginOf(s, e) = "Yes" => ValueOf(e) \in {"result", "checked"}
              /\ place \in Ints /\ OriginOf(s, e) = "No" /\ ~Misses(s, store, used) => ValueOf(e) # "result"
              /\ place \in Pointers => PointerOf(s, e).unknown \/ (ValueOf(e) \in Ints /\ ValueOf(e) \in PointerOf(s, e).targets)
  <2>1. e \in Operands /\ (to \in PointerPlaces => e \in PointerValues) /\ to = stmt.to
    BY <1>2, <1>11, ElementForms DEF Written, Operands
  <2>2. place \in Pointers => e \in PointerValues /\ e.as # "other"
    <3>1. place \in Pointers => to \in PointerPlaces
      BY <1>3, <1>5, ValueFlowAssumption
    <3>2. QED
      BY <1>1, <1>11, <2>1, <3>1 DEF Followed
  <2>3. QED
    BY <2>1, <2>2, ReadingIsTyped, OriginMeans, PointerMeans DEF HoldsResult
<1>12. CASE stmt.op = "set"
  <2>1. PICK e \in Sources(stmt) : e = stmt.from /\ v = ValueOf(e) /\ to = stmt.to
    BY <1>6, <1>12, ElementForms DEF Written
  <2>2. after = Write(s, {place}, OriginOf(s, e), PointerOf(s, e))
    BY <1>5, <1>12, <2>1 DEF Apply
  <2>3. PICK origin \in Origins, pointer \in Targets : origin = OriginOf(s, e) /\ pointer = PointerOf(s, e)
    BY <1>11, <1>12
  <2>4. QED
    BY <1>1, <1>2, <1>9, <1>11, <1>12, <2>1, <2>2, <2>3
<1>13. CASE stmt.op = "choose"
  <2>1. PICK e \in Sources(stmt), f \in Sources(stmt) :
          e = stmt.from /\ f = stmt.other /\ v \in {ValueOf(e), ValueOf(f)} /\ to = stmt.to
    BY <1>6, <1>13, ElementForms DEF Written
  <2>2. after = Write(s, {place}, JoinOrigin(OriginOf(s, e), OriginOf(s, f)),
                      JoinTargets(PointerOf(s, e), PointerOf(s, f)))
    BY <1>5, <1>13, <2>1 DEF Apply
  <2>3. PICK origin \in Origins, pointer \in Targets :
          /\ origin = JoinOrigin(OriginOf(s, e), OriginOf(s, f))
          /\ pointer = JoinTargets(PointerOf(s, e), PointerOf(s, f))
    <3>1. \A a, b \in Targets : JoinTargets(a, b) \in Targets
      BY DEF JoinTargets, Targets
    <3>2. OriginOf(s, e) \in Origins /\ OriginOf(s, f) \in Origins
          /\ PointerOf(s, e) \in Targets /\ PointerOf(s, f) \in Targets
      BY <1>11, <1>13
    <3>3. QED
      BY <3>1, <3>2, JoinOriginIsTyped
  <2>4. /\ origin = "Yes" => OriginOf(s, e) = "Yes" /\ OriginOf(s, f) = "Yes"
        /\ origin = "No" => OriginOf(s, e) = "No" /\ OriginOf(s, f) = "No"
    BY <2>3 DEF JoinOrigin
  <2>5. /\ pointer.targets = PointerOf(s, e).targets \cup PointerOf(s, f).targets
        /\ pointer.unknown = (PointerOf(s, e).unknown \/ PointerOf(s, f).unknown)
    BY <2>3 DEF JoinTargets
  <2>6. /\ place \in Ints /\ origin = "Yes" => v \in {"result", "checked"}
        /\ place \in Ints /\ origin = "No" /\ ~Misses(s, store, used) => v # "result"
        /\ place \in Pointers => pointer.unknown \/ (v \in Ints /\ v \in pointer.targets)
    <3>1. PICK g \in {e, f} : v = ValueOf(g)
      BY <2>1
    <3>2. /\ place \in Ints /\ OriginOf(s, g) = "Yes" => v \in {"result", "checked"}
          /\ place \in Ints /\ OriginOf(s, g) = "No" /\ ~Misses(s, store, used) => v # "result"
          /\ place \in Pointers => PointerOf(s, g).unknown \/ (v \in Ints /\ v \in PointerOf(s, g).targets)
      BY <1>11, <1>13, <2>1, <3>1
    <3>3. QED
      BY <2>4, <2>5, <3>1, <3>2
  <2>7. after = Write(s, {place}, origin, pointer)
    BY <2>2, <2>3
  <2>8. QED
    BY <1>1, <1>2, <1>9, <2>6, <2>7
<1>14. QED
  BY <1>2, <1>10, <1>12, <1>13

\* A check of all results takes none away from what a state says holds one.
LEMMA CheckingMeans ==
  ASSUME RunTypeOK, NEW s \in ValueFlowStates, True(s, store)
  PROVE  /\ True(s, AllChecked) /\ \A v \in Ints : AllChecked[v] # "result"
         /\ ~Misses(s, store, used) => ~Misses(s, AllChecked, used)
<1>1. \A v \in Ints \cup Pointers : AllChecked[v] = IF store[v] = "result" THEN "checked" ELSE store[v]
  BY DEF AllChecked, RunTypeOK
<1>2. \A p \in Pointers : store[p] # "result"
  BY ValueFlowAssumption DEF RunTypeOK, Outside
<1>3. QED
  BY <1>1, <1>2 DEF True, Misses

\* Nothing is known to hold the result once its origins are cleared.
LEMMA ClearingMeans ==
  ASSUME NEW s \in ValueFlowStates, NEW variables, True(s, variables)
  PROVE  /\ True(ClearTrackedOrigins(s), variables)
         /\ (\A v \in Ints : variables[v] # "result") /\ ~Misses(s, variables, used)
              => ~Misses(ClearTrackedOrigins(s), variables, used)
  BY ClearIsTyped DEF True, Misses

LEMMA ReadMeans ==
  ASSUME RunTypeOK, NEW s \in ValueFlowStates, True(s, store), NEW which \in Searches,
         Statement \in Elements, Read
  PROVE  /\ True(Apply(which, s, Statement), store')
         /\ which = "live" /\ ~Misses(s, store, used)
              /\ ~(Statement.op = "return" /\ OriginOf(s, Statement.of) = "Maybe")
              => ~Misses(Apply(which, s, Statement), store', used')
<1>1. PICK stmt \in Elements : stmt = Statement
  OBVIOUS
<1>2. /\ stmt.op \in {"use", "pass", "return"}
      /\ used' = (used \/ (stmt.op = "use" /\ ValueOf(stmt.of) = "result"))
      /\ store' = IF stmt.op = "return" /\ HoldsResult(stmt.of) THEN AllChecked ELSE store
  BY <1>1 DEF Read, Examining
<1>3. stmt.of \in Operands
  BY <1>2, ElementForms
<1>4. /\ OriginOf(s, stmt.of) \in Origins
      /\ OriginOf(s, stmt.of) = "Yes" => HoldsResult(stmt.of)
      /\ OriginOf(s, stmt.of) = "No" /\ ~Misses(s, store, used) => ValueOf(stmt.of) # "result"
  BY <1>3, OriginMeans, ReadingIsTyped
<1>5. PICK after, variables, use :
        after = Apply(which, s, stmt) /\ variables = store' /\ use = used'
  OBVIOUS
<1> DEFINE doubtful == stmt.op = "return" /\ OriginOf(s, stmt.of) = "Maybe"
           Kept == /\ True(after, variables)
                   /\ which = "live" /\ ~Misses(s, store, used) /\ ~doubtful => ~Misses(after, variables, use)
<1>6. ASSUME stmt.op = "pass" PROVE Kept
  <2>1. after = s /\ variables = store /\ (use => used)
    BY <1>2, <1>5, <1>6 DEF Apply
  <2>2. QED
    BY <2>1 DEF Misses
<1>7. ASSUME stmt.op = "use" PROVE Kept
  <2>1. variables = store
    BY <1>2, <1>5, <1>7
  <2>2. CASE which = "live" /\ OriginOf(s, stmt.of) # "No"
    <3>1. after = [s EXCEPT !.uncheckedUse = TRUE]
      BY <1>5, <1>7, <2>2 DEF Apply
    <3>2. after.values = s.values /\ after.pointers = s.pointers /\ after.uncheckedUse
      BY <3>1 DEF ValueFlowStates
    <3>3. True(after, variables)
      BY <2>1, <3>2 DEF True
    <3>4. ~Misses(s, store, used) => ~Misses(after, variables, use)
      BY <2>1, <3>2 DEF Misses
    <3>5. QED
      BY <3>3, <3>4
  <2>3. CASE ~(which = "live" /\ OriginOf(s, stmt.of) # "No")
    <3>1. after = s
      BY <1>5, <1>7, <2>3 DEF Apply
    <3>2. which = "live" /\ ~Misses(s, store, used) => (use => used)
      BY <1>2, <1>4, <1>5, <2>3
    <3>3. QED
      BY <2>1, <3>1, <3>2 DEF Misses
  <2>4. QED
    BY <2>2, <2>3
<1>8. ASSUME stmt.op = "return" PROVE Kept
  <2>1. use => used
    BY <1>2, <1>5, <1>8
  <2>2. /\ True(s, variables)
        /\ ~Misses(s, store, used) => ~Misses(s, variables, used)
        /\ HoldsResult(stmt.of) => \A v \in Ints : variables[v] # "result"
    <3>1. variables = IF HoldsResult(stmt.of) THEN AllChecked ELSE store
      BY <1>2, <1>5, <1>8
    <3>2. CASE HoldsResult(stmt.of)
      BY <3>1, <3>2, CheckingMeans
    <3>3. CASE ~HoldsResult(stmt.of)
      BY <3>1, <3>3
    <3>4. QED
      BY <3>2, <3>3
  <2>3. CASE OriginOf(s, stmt.of) = "No"
    <3>1. after = s
      BY <1>5, <1>8, <2>3 DEF Apply
    <3>2. QED
      BY <2>1, <2>2, <3>1 DEF Misses
  <2>4. CASE OriginOf(s, stmt.of) # "No"
    <3>1. after = ClearTrackedOrigins(s)
      BY <1>5, <1>8, <2>4 DEF Apply
    <3>2. ~doubtful => HoldsResult(stmt.of)
      BY <1>4, <1>8, <2>4 DEF Origins
    <3>3. /\ True(after, variables)
          /\ ~doubtful /\ ~Misses(s, store, used) => ~Misses(after, variables, used)
      BY <2>2, <3>1, <3>2, ClearingMeans
    <3>4. ~Misses(after, variables, used) => ~Misses(after, variables, use)
      BY <2>1 DEF Misses
    <3>5. QED
      BY <3>3, <3>4
  <2>5. QED
    BY <2>3, <2>4
<1>9. Kept
  BY <1>2, <1>6, <1>7, <1>8
<1>10. QED
  BY <1>1, <1>5, <1>9

\* Every state that subsumes it is true of the same variables.
LEMMA SubsumingMeans ==
  ASSUME NEW s \in ValueFlowStates, NEW t \in ValueFlowStates, Subsumes(t, s), NEW variables, NEW use
  PROVE  /\ True(s, variables) => True(t, variables)
         /\ ~Misses(s, variables, use) => ~Misses(t, variables, use)
  BY DEF Subsumes, True, Misses

\* Nothing is said of the variables of a function that is entered.
LEMMA NothingHeldMeans ==
  ASSUME NEW variables
  PROVE  NothingHeld \in ValueFlowStates /\ True(NothingHeld, variables)
<1>1. /\ \A v \in Ints : NothingHeld.values[v] = "No"
      /\ \A p \in Pointers : NothingHeld.pointers[p].unknown
  BY DEF NothingHeld, Anywhere
<1>2. NothingHeld \in ValueFlowStates
  BY DEF NothingHeld, Anywhere, ValueFlowStates, Origins, Targets
<1>3. QED
  BY <1>1, <1>2 DEF True

-----------------------------------------------------------------------------
\* The work list drives both searches (ValueFlowMC substitutes these operators
\* for the parameters of Worklist).
DrivesValueFlow ==
  /\ States = ValueFlowStates
  /\ EntryState = NothingHeld
  /\ \A b \in Blocks, s \in ValueFlowStates :
       /\ Transfer(b, s) = TransferBlock(b, s)
       /\ \A i \in 1..Len(Successors[b]) : OnEdge(b, i, s) = AlongEdge(b, i, s)
  /\ \A s, t \in ValueFlowStates : JoinOutcomes(s, t) = Join(s, t)

LEMMA ValueFlowLaws ==
  ASSUME DrivesValueFlow
  PROVE  FlowIsTyped(States) /\ JoinAccumulates(States)
<1>1. JoinAccumulates(ValueFlowStates)
  BY ValueFlowStatesAccumulate DEF DrivesValueFlow
<1>2. FlowIsTyped(ValueFlowStates)
  BY TransferIsTyped DEF FlowIsTyped, DrivesValueFlow, AlongEdge
<1>3. QED
  BY <1>1, <1>2 DEF DrivesValueFlow

-----------------------------------------------------------------------------
\* The places of the run in the two searches.

\* The first search is of the first blocks only.
LEMMA BeginningStep ==
  ASSUME FlowTypeOK, BeginningInv, search = "aliases", [FlowStep]_flowVars
  PROVE  Reached' \subseteq FirstBlocks /\ EntryInv' /\ \A c, d \in (Entries \cap Reached)' : c = d
<1>1. Reached \subseteq FirstBlocks /\ EntryInv /\ \A c, d \in Entries \cap Reached : c = d
  BY DEF BeginningInv
<1>2. EntryInv'
  BY <1>1, EntryStep
<1>3. \A c \in Reached' \ Reached : c \in FirstBlocks /\ c \notin Entries
  <2> SUFFICES ASSUME NEW c \in Reached' \ Reached PROVE c \in FirstBlocks /\ c \notin Entries
    OBVIOUS
  <2>1. PICK b \in Reached : \E i \in 1..Len(Successors[b]) : Successors[b][i] = c
    BY ReachedStep
  <2>2. PICK i \in 1..Len(Successors[b]) : Successors[b][i] = c /\ c # NoBlock
    BY <2>1, ReachedStep
  <2>3. b \in Blocks /\ Search[b] = "aliases"
    BY <1>1 DEF FirstBlocks
  <2>4. Successors[b] \in Seq(Blocks \cup {NoBlock})
    BY <2>3, WorklistAssumption
  <2>5. c \in Blocks /\ Search[c] = "aliases" /\ c \notin Entries
    BY <2>2, <2>3, <2>4, ValueFlowAssumption, EntryAssumption
  <2>6. QED
    BY <2>5 DEF FirstBlocks
<1>4. QED
  BY <1>1, <1>2, <1>3

\* A first block, and the same block in the second search.
LEMMA BothBlocks ==
  ASSUME NEW b \in FirstBlocks
  PROVE  /\ b \in Blocks /\ Search[b] = "aliases" /\ Body[b] \in Seq(Elements) /\ Len(Body[b]) \in Nat
         /\ Live[b] \in Blocks /\ Search[Live[b]] = "live" /\ Body[Live[b]] = Body[b]
         /\ \A i \in 1..Len(Successors[b]) : Successors[b][i] # NoBlock =>
              /\ Successors[b][i] \in FirstBlocks
              /\ i \in 1..Len(Successors[Live[b]])
              /\ Successors[Live[b]][i] = Live[Successors[b][i]] /\ Successors[Live[b]][i] # NoBlock
<1>1. b \in Blocks /\ Search[b] = "aliases" /\ Body[b] \in Seq(Elements)
  BY ValueFlowAssumption DEF FirstBlocks
<1>2. Live[b] \in Blocks /\ Search[Live[b]] = "live" /\ Body[Live[b]] = Body[b]
  BY LiveAssumption, ValueFlowAssumption DEF FirstBlocks, Searches
<1>3. ASSUME NEW i \in 1..Len(Successors[b]), Successors[b][i] # NoBlock
      PROVE  /\ Successors[b][i] \in FirstBlocks
             /\ i \in 1..Len(Successors[Live[b]])
             /\ Successors[Live[b]][i] = Live[Successors[b][i]] /\ Successors[Live[b]][i] # NoBlock
  <2>1. Successors[b] \in Seq(Blocks \cup {NoBlock})
    BY <1>1, WorklistAssumption
  <2>2. Successors[b][i] \in Blocks /\ Search[Successors[b][i]] = "aliases"
    BY <1>1, <1>3, <2>1, ValueFlowAssumption
  <2>3. Successors[b][i] \in FirstBlocks
    BY <2>2 DEF FirstBlocks
  <2>4. Live[Successors[b][i]] \in Blocks
    BY <2>3, LiveAssumption
  <2>5. QED
    BY <1>3, <2>3, <2>4, LiveAssumption, WorklistAssumption
<1>4. QED
  BY <1>1, <1>2, <1>3

\* Where the run is, and what the searches say there.
LEMMA Running ==
  ASSUME FirstInv, PlaceInv, at # NoRun
  PROVE  /\ search = "done" /\ at[1] \in FirstBlocks /\ at[1] \in DOMAIN first
         /\ first[at[1]] \in ValueFlowStates /\ at[2] \in 1..(Len(Body[at[1]]) + 1)
         /\ FirstNow = StateBefore(at[1], at[2], first[at[1]]) /\ FirstNow \in ValueFlowStates
<1>1. search = "done" /\ at[1] \in DOMAIN first /\ at[2] \in 1..(Len(Body[at[1]]) + 1)
  BY DEF PlaceInv
<1>2. at[1] \in FirstBlocks /\ first[at[1]] \in ValueFlowStates
  BY <1>1 DEF FirstInv
<1>3. StateBefore(at[1], at[2], first[at[1]]) \in ValueFlowStates
  BY <1>1, <1>2, BothBlocks, StatesInTurn
<1>4. QED
  BY <1>1, <1>2, <1>3 DEF FirstNow

LEMMA RunningLive ==
  ASSUME DrivesValueFlow, FlowTypeOK, FirstInv, PlaceInv, at # NoRun, verdict \in Accepted
  PROVE  /\ Live[at[1]] \in Reached /\ input[Live[at[1]]] \in ValueFlowStates
         /\ LiveNow = StateBefore(Live[at[1]], at[2], input[Live[at[1]]]) /\ LiveNow \in ValueFlowStates
<1>1. /\ at[1] \in FirstBlocks /\ at[2] \in 1..(Len(Body[at[1]]) + 1)
  BY Running
<1>2. Live[at[1]] \in Reached
  BY DEF PlaceInv
<1>3. input[Live[at[1]]] \in ValueFlowStates
  BY <1>2 DEF FlowTypeOK, DrivesValueFlow
<1>4. Live[at[1]] \in Blocks /\ at[2] \in 1..(Len(Body[Live[at[1]]]) + 1)
  BY <1>1, BothBlocks
<1>5. StateBefore(Live[at[1]], at[2], input[Live[at[1]]]) \in ValueFlowStates
  BY <1>3, <1>4, StatesInTurn
<1>6. QED
  BY <1>2, <1>3, <1>5 DEF LiveNow

\* A run starts at the entry that the searches started from.
LEMMA StartMoves ==
  ASSUME DrivesValueFlow, FlowTypeOK, FirstInv, SecondInv, StartRun
  PROVE  /\ PlaceInv' /\ at = NoRun /\ at' # NoRun
         /\ FirstNow = NothingHeld /\ LiveNow = NothingHeld /\ FirstNow' = NothingHeld
         /\ verdict \in Accepted => LiveNow' \in ValueFlowStates /\ Subsumes(LiveNow', NothingHeld)
         /\ UNCHANGED <<flowVars, searchVars, store, used>>
<1>1. PICK entry \in Entries \cap DOMAIN first : at' = <<entry, 1>>
  BY DEF StartRun
<1>2. search = "done" /\ at = NoRun /\ UNCHANGED <<flowVars, searchVars, store, used>>
  BY DEF StartRun
<1>3. entry \in FirstBlocks /\ first[entry] = NothingHeld /\ first[entry] \in ValueFlowStates
  BY <1>2 DEF FirstInv, DrivesValueFlow
<1>4. /\ entry \in Blocks /\ Live[entry] \in Blocks /\ Len(Body[entry]) \in Nat
      /\ Body[Live[entry]] = Body[entry]
  BY <1>3, BothBlocks
<1>5. at'[1] = entry /\ at'[2] = 1 /\ at' # NoRun /\ 1 \in 1..(Len(Body[entry]) + 1)
  BY <1>1, <1>4, WorklistAssumption DEF NoRun
<1>6. search' = search /\ verdict' = verdict /\ first' = first /\ input' = input /\ Reached' = Reached
  BY <1>2 DEF searchVars, flowVars, Reached
<1>7. StateBefore(entry, 1, first[entry]) = NothingHeld
  BY <1>3, <1>4, StatesInTurn
<1>8. ASSUME verdict \in Accepted
      PROVE  /\ Live[entry] \in Reached /\ input[Live[entry]] \in ValueFlowStates
             /\ Subsumes(input[Live[entry]], NothingHeld)
             /\ StateBefore(Live[entry], 1, input[Live[entry]]) = input[Live[entry]]
  <2>1. Live[entry] \in Reached /\ Covers(input[Live[entry]], NothingHeld)
    BY <1>2, <1>8 DEF SecondInv, DrivesValueFlow
  <2>2. input[Live[entry]] \in ValueFlowStates
    BY <2>1 DEF FlowTypeOK, DrivesValueFlow
  <2>3. Subsumes(input[Live[entry]], NothingHeld)
    BY <1>3, <2>1, <2>2, CoversMeans DEF DrivesValueFlow
  <2>4. QED
    BY <1>4, <2>1, <2>2, <2>3, StatesInTurn
<1>9. PlaceInv'
  BY <1>1, <1>2, <1>5, <1>6, <1>8 DEF PlaceInv
<1>10. FirstNow = NothingHeld /\ LiveNow = NothingHeld
  BY <1>2 DEF FirstNow, LiveNow
<1>11. FirstNow' = NothingHeld
  BY <1>5, <1>6, <1>7 DEF FirstNow, NoRun
<1>12. verdict \in Accepted => LiveNow' \in ValueFlowStates /\ Subsumes(LiveNow', NothingHeld)
  <2>1. LiveNow' = StateBefore(Live[entry], 1, input[Live[entry]])
    BY <1>5, <1>6 DEF LiveNow, NoRun
  <2>2. QED
    BY <1>8, <2>1
<1>13. QED
  BY <1>2, <1>5, <1>9, <1>10, <1>11, <1>12

\* A statement takes the run to what the statement does to either state.
LEMMA StatementMoves ==
  ASSUME DrivesValueFlow, FlowTypeOK, RunTypeOK, FirstInv, PlaceInv, Assign \/ Read
  PROVE  /\ PlaceInv' /\ at # NoRun /\ at' # NoRun /\ Statement \in Elements
         /\ FirstNow \in ValueFlowStates /\ FirstNow' = Apply("aliases", FirstNow, Statement)
         /\ verdict \in Accepted =>
              LiveNow \in ValueFlowStates /\ LiveNow' = Apply("live", LiveNow, Statement)
         /\ Assign => /\ ~AmbiguousWrite(first) => Unambiguous(FirstNow, Statement)
                      /\ ~StrayPointer => Followed(Statement)
                      /\ verdict \in Accepted /\ ~AmbiguousWrite(input) => Unambiguous(LiveNow, Statement)
         /\ verdict \in Accepted /\ ~DoubtfulReturn(input) =>
              ~(Statement.op = "return" /\ OriginOf(LiveNow, Statement.of) = "Maybe")
         /\ UNCHANGED <<flowVars, searchVars>>
<1>1. InBlock /\ at # NoRun /\ UNCHANGED <<flowVars, searchVars>> /\ at' = [at EXCEPT ![2] = @ + 1]
  BY DEF Assign, Read, InBlock
<1>2. PICK b \in FirstBlocks, i \in Nat :
        /\ at = <<b, i>> /\ i \in 1..Len(Body[b]) /\ b \in DOMAIN first /\ first[b] \in ValueFlowStates
        /\ FirstNow = StateBefore(b, i, first[b]) /\ FirstNow \in ValueFlowStates /\ search = "done"
  <2>1. /\ search = "done" /\ at[1] \in FirstBlocks /\ at[1] \in DOMAIN first
        /\ first[at[1]] \in ValueFlowStates /\ at[2] \in 1..(Len(Body[at[1]]) + 1)
        /\ FirstNow = StateBefore(at[1], at[2], first[at[1]]) /\ FirstNow \in ValueFlowStates
    BY <1>1, Running
  <2>2. at[2] \in 1..Len(Body[at[1]])
    BY <1>1, <2>1, BothBlocks DEF InBlock
  <2>3. at = <<at[1], at[2]>>
    BY <1>1 DEF RunTypeOK
  <2>4. QED
    BY <2>1, <2>2, <2>3
<1>3. /\ b \in Blocks /\ Search[b] = "aliases" /\ Body[b] \in Seq(Elements) /\ Len(Body[b]) \in Nat
      /\ Live[b] \in Blocks /\ Search[Live[b]] = "live" /\ Body[Live[b]] = Body[b]
  BY BothBlocks
<1>4. Statement = Body[b][i] /\ Statement \in Elements
  BY <1>2, <1>3 DEF Statement
<1>5. at' = <<b, i + 1>> /\ at'[1] = b /\ at'[2] = i + 1 /\ at' # NoRun /\ i + 1 \in 1..(Len(Body[b]) + 1)
  BY <1>1, <1>2, <1>3, WorklistAssumption DEF NoRun
<1>6. search' = search /\ verdict' = verdict /\ first' = first /\ input' = input /\ Reached' = Reached
  BY <1>1 DEF searchVars, flowVars, Reached
<1>7. FirstNow' = Apply("aliases", FirstNow, Statement)
  <2>1. StateBefore(b, i + 1, first[b]) = Apply("aliases", FirstNow, Statement)
    BY <1>2, <1>3, <1>4, StatesInTurn
  <2>2. FirstNow' = StateBefore(b, i + 1, first[b])
    BY <1>5, <1>6 DEF FirstNow, NoRun
  <2>3. QED
    BY <2>1, <2>2
<1>8. ASSUME verdict \in Accepted
      PROVE  /\ Live[b] \in Reached /\ LiveNow \in ValueFlowStates
             /\ LiveNow = StateBefore(Live[b], i, input[Live[b]])
             /\ LiveNow' = Apply("live", LiveNow, Statement)
  <2>1. /\ Live[b] \in Reached /\ input[Live[b]] \in ValueFlowStates
        /\ LiveNow = StateBefore(Live[b], i, input[Live[b]]) /\ LiveNow \in ValueFlowStates
    BY <1>1, <1>2, <1>8, RunningLive
  <2>2. StateBefore(Live[b], i + 1, input[Live[b]]) = Apply("live", LiveNow, Statement)
    <3>1. PICK c \in Blocks : c = Live[b]
      BY <1>3
    <3>2. i \in 1..Len(Body[c]) /\ input[c] \in ValueFlowStates
      BY <1>2, <1>3, <2>1, <3>1
    <3>3. StateBefore(c, i + 1, input[c]) = Apply(Search[c], StateBefore(c, i, input[c]), Body[c][i])
      BY <3>2, StatesInTurn
    <3>4. QED
      BY <1>3, <1>4, <2>1, <3>1, <3>3
  <2>3. LiveNow' = StateBefore(Live[b], i + 1, input[Live[b]])
    BY <1>5, <1>6 DEF LiveNow, NoRun
  <2>4. QED
    BY <2>1, <2>2, <2>3
<1>9. PlaceInv'
  BY <1>2, <1>5, <1>6, <1>8 DEF PlaceInv
<1>10. ASSUME Assign
       PROVE  /\ ~AmbiguousWrite(first) => Unambiguous(FirstNow, Statement)
              /\ ~StrayPointer => Followed(Statement)
              /\ verdict \in Accepted /\ ~AmbiguousWrite(input) => Unambiguous(LiveNow, Statement)
  <2>1. Statement.op \in {"set", "choose", "step"}
    BY <1>10 DEF Assign
  <2>2. ASSUME NEW inputs, NEW c \in DOMAIN inputs, c \in Blocks, Body[c] = Body[b],
               ~AmbiguousWrite(inputs), inputs[c] \in ValueFlowStates
        PROVE  Unambiguous(StateBefore(c, i, inputs[c]), Statement)
    <3>1. PICK s : s = StateBefore(c, i, inputs[c])
      OBVIOUS
    <3>2. Written(Statement).as = "deref" =>
            ~(Cardinality(Locations(s, Written(Statement))) > 1 \/ UnknownLocation(s, Written(Statement)))
      BY <1>2, <1>4, <2>1, <2>2, <3>1 DEF AmbiguousWrite
    <3>3. s \in ValueFlowStates
      BY <1>2, <1>3, <2>2, <3>1, StatesInTurn
    <3>4. Written(Statement).as = "deref" => Cardinality(Locations(s, Written(Statement))) \in Nat
      <4>1. Written(Statement) \in Operands
        BY <1>4, <2>1, ElementForms DEF Written, Operands, Values, PointerValues
      <4>2. Written(Statement).as = "deref" => Locations(s, Written(Statement)) \subseteq Ints
        BY <3>3, <4>1, OperandForms DEF Locations, ValueFlowStates, Targets
      <4>3. QED
        BY <4>2, ValueFlowAssumption, FS_Subset, FS_CardinalityType
    <3>5. QED
      BY <3>1, <3>2, <3>4 DEF Unambiguous
  <2>3. ~StrayPointer => Followed(Statement)
    BY <1>2, <1>4, <2>1 DEF StrayPointer, Followed
  <2>4. ~AmbiguousWrite(first) => Unambiguous(FirstNow, Statement)
    BY <1>2, <1>3, <2>2
  <2>5. verdict \in Accepted => Live[b] \in DOMAIN input /\ input[Live[b]] \in ValueFlowStates
    BY <1>8 DEF FlowTypeOK, DrivesValueFlow, Reached
  <2>6. verdict \in Accepted /\ ~AmbiguousWrite(input) => Unambiguous(LiveNow, Statement)
    BY <1>3, <1>8, <2>2, <2>5
  <2>7. QED
    BY <2>3, <2>4, <2>6
<1>11. verdict \in Accepted /\ ~DoubtfulReturn(input) =>
         ~(Statement.op = "return" /\ OriginOf(LiveNow, Statement.of) = "Maybe")
  BY <1>2, <1>3, <1>4, <1>8 DEF DoubtfulReturn, Reached
<1>12. QED
  BY <1>1, <1>2, <1>4, <1>5, <1>7, <1>8, <1>9, <1>10, <1>11

\* Where a branch takes the run, the first search's input covers what the block
\* leaves, and so does the second's, for all that a check of the result clears.
LEMMA BranchMoves ==
  ASSUME DrivesValueFlow, FlowInv, RunTypeOK, FirstInv, SecondInv, PlaceInv, Branch
  PROVE  /\ PlaceInv' /\ at # NoRun /\ at' # NoRun /\ Terminator[at[1]].tests \in Operands
         /\ FirstNow \in ValueFlowStates /\ FirstNow' \in ValueFlowStates /\ Subsumes(FirstNow', FirstNow)
         /\ verdict \in Accepted =>
              /\ LiveNow \in ValueFlowStates /\ LiveNow' \in ValueFlowStates
              /\ \E out \in ValueFlowStates :
                   /\ Subsumes(LiveNow', out)
                   /\ out = IF /\ Terminator[at[1]].kind # "none"
                               /\ IsAlias(OriginOf(LiveNow, Terminator[at[1]].tests)) /\ HandlesHere(at[1])
                            THEN ClearTrackedOrigins(LiveNow) ELSE LiveNow
         /\ UNCHANGED <<flowVars, searchVars, used>>
<1>0. FlowTypeOK /\ FixpointReached
  BY FlowInvFixpoint DEF FlowInv
<1>1. AtEnd /\ at # NoRun /\ UNCHANGED <<flowVars, searchVars, used>>
  BY DEF Branch, AtEnd
<1>2. PICK b \in FirstBlocks : b = at[1] /\ b \in DOMAIN first /\ search = "done"
  BY <1>1, Running
<1>3. /\ b \in Blocks /\ Search[b] = "aliases" /\ Body[b] \in Seq(Elements) /\ Len(Body[b]) \in Nat
      /\ Live[b] \in Blocks /\ Search[Live[b]] = "live" /\ Body[Live[b]] = Body[b]
  BY BothBlocks
<1>4. /\ first[b] \in ValueFlowStates /\ at[2] = Len(Body[b]) + 1
      /\ FirstNow = StateBefore(b, at[2], first[b]) /\ FirstNow \in ValueFlowStates
  <2>1. /\ first[b] \in ValueFlowStates /\ at[2] \in 1..(Len(Body[b]) + 1)
        /\ FirstNow = StateBefore(b, at[2], first[b]) /\ FirstNow \in ValueFlowStates
    BY <1>1, <1>2, Running
  <2>2. QED
    BY <1>1, <1>2, <1>3, <2>1 DEF AtEnd
<1>5. PICK i \in 1..Len(Successors[b]) : Successors[b][i] # NoBlock /\ at' = <<Successors[b][i], 1>>
  BY <1>2 DEF Branch
<1>6. PICK c \in FirstBlocks :
        /\ c = Successors[b][i] /\ at' = <<c, 1>>
        /\ i \in 1..Len(Successors[Live[b]]) /\ Successors[Live[b]][i] = Live[c] /\ Live[c] # NoBlock
  BY <1>5, BothBlocks
<1>7. /\ c \in Blocks /\ Len(Body[c]) \in Nat /\ Live[c] \in Blocks /\ Body[Live[c]] = Body[c]
  BY BothBlocks
<1>8. at'[1] = c /\ at'[2] = 1 /\ at' # NoRun /\ 1 \in 1..(Len(Body[c]) + 1)
  BY <1>6, <1>7, WorklistAssumption DEF NoRun
<1>9. search' = search /\ verdict' = verdict /\ first' = first /\ input' = input /\ Reached' = Reached
  BY <1>1 DEF searchVars, flowVars, Reached
<1>10. /\ c \in DOMAIN first /\ first[c] \in ValueFlowStates /\ Subsumes(first[c], FirstNow)
  <2>1. TransferBlock(b, first[b]) = FirstNow
    BY <1>3, <1>4 DEF TransferBlock, StateAtEnd
  <2>2. OnEdge(b, i, Transfer(b, first[b])) = FirstNow
    BY <1>3, <1>4, <1>5, <2>1 DEF DrivesValueFlow, AlongEdge
  <2>3. c \in DOMAIN first /\ Covers(first[c], FirstNow)
    BY <1>2, <1>5, <1>6, <2>2 DEF FirstInv
  <2>4. first[c] \in ValueFlowStates
    BY <1>2, <2>3 DEF FirstInv
  <2>5. Subsumes(first[c], FirstNow)
    BY <1>4, <2>3, <2>4, CoversMeans DEF DrivesValueFlow
  <2>6. QED
    BY <2>3, <2>4, <2>5
<1>11. FirstNow' = first[c]
  <2>1. StateBefore(c, 1, first[c]) = first[c]
    BY <1>7, <1>10, StatesInTurn
  <2>2. QED
    BY <1>8, <1>9, <2>1 DEF FirstNow, NoRun
<1> DEFINE left == IF /\ Terminator[b].kind # "none"
                      /\ IsAlias(OriginOf(LiveNow, Terminator[b].tests)) /\ HandlesHere(b)
                   THEN ClearTrackedOrigins(LiveNow) ELSE LiveNow
<1>12. ASSUME verdict \in Accepted
       PROVE  /\ Live[c] \in Reached /\ LiveNow \in ValueFlowStates /\ LiveNow' \in ValueFlowStates
              /\ left \in ValueFlowStates /\ Subsumes(LiveNow', left)
  <2>1. PICK d \in Blocks, s \in ValueFlowStates :
          /\ d = Live[b] /\ d \in Reached /\ s = input[d]
          /\ LiveNow = StateBefore(d, at[2], s) /\ LiveNow \in ValueFlowStates
    BY <1>0, <1>1, <1>2, <1>3, <1>12, RunningLive
  <2>2. left \in ValueFlowStates
    BY <2>1, ClearIsTyped
  <2>3. TransferBlock(d, s) = left
    <3>1. StateAtEnd(d, s) = LiveNow
      BY <1>3, <1>4, <2>1 DEF StateAtEnd
    <3>2. /\ Terminator[d].kind = Terminator[b].kind /\ Terminator[d].tests = Terminator[b].tests
          /\ Terminator[d].covers = Terminator[b].covers /\ Terminator[d].settles = Terminator[b].settles
      BY <2>1, LiveAssumption
    <3>3. HandlesHere(d) <=> HandlesHere(b)
      BY <3>2 DEF HandlesHere
    <3>4. Search[d] = "live"
      BY <1>3, <2>1
    <3>5. QED
      BY <3>1, <3>2, <3>3, <3>4 DEF TransferBlock
  <2>4. OnEdge(d, i, Transfer(d, s)) = left
    BY <1>6, <2>1, <2>2, <2>3 DEF DrivesValueFlow, AlongEdge
  <2>5. Done
    BY <1>2 DEF SecondInv
  <2>6. Delivered(d, i, Transfer(d, s))
    BY <1>0, <1>6, <2>1, <2>5 DEF FixpointReached
  <2>7. Live[c] \in Reached /\ Covers(input[Live[c]], left)
    BY <1>6, <2>1, <2>4, <2>6 DEF Delivered
  <2>8. input[Live[c]] \in ValueFlowStates
    BY <1>0, <2>7 DEF FlowTypeOK, DrivesValueFlow
  <2>9. Subsumes(input[Live[c]], left)
    BY <2>2, <2>7, <2>8, CoversMeans DEF DrivesValueFlow
  <2>10. LiveNow' = input[Live[c]]
    <3>1. StateBefore(Live[c], 1, input[Live[c]]) = input[Live[c]]
      BY <1>7, <2>8, StatesInTurn
    <3>2. QED
      BY <1>8, <1>9, <3>1 DEF LiveNow, NoRun
  <2>11. QED
    BY <2>1, <2>2, <2>7, <2>8, <2>9, <2>10
<1>13. PlaceInv'
  BY <1>2, <1>8, <1>9, <1>10, <1>12 DEF PlaceInv
<1>14. Terminator[b].tests \in Operands
  BY <1>3, ValueFlowAssumption
<1>15. left = IF /\ Terminator[at[1]].kind # "none"
                 /\ IsAlias(OriginOf(LiveNow, Terminator[at[1]].tests)) /\ HandlesHere(at[1])
              THEN ClearTrackedOrigins(LiveNow) ELSE LiveNow
  BY <1>2
<1> HIDE DEF left
<1>16. QED
  BY <1>1, <1>2, <1>4, <1>8, <1>10, <1>11, <1>12, <1>13, <1>14, <1>15

\* Until both searches are over there is no run, and then they are over.
LEMMA FlowMoves ==
  ASSUME SecondInv, PlaceInv, (FlowStep /\ UNCHANGED <<searchVars, runVars>>) \/ SearchText \/ Judge
  PROVE  /\ at = NoRun /\ at' = NoRun /\ store' = store /\ used' = used /\ PlaceInv'
         /\ FirstNow = NothingHeld /\ FirstNow' = NothingHeld
         /\ LiveNow = NothingHeld /\ LiveNow' = NothingHeld
<1>1. at = NoRun
  BY DoneIsFinal DEF SecondInv, PlaceInv, SearchText, Judge
<1>2. at' = at /\ store' = store /\ used' = used
  BY DEF SearchText, Judge, runVars
<1>3. QED
  BY <1>1, <1>2 DEF PlaceInv, FirstNow, LiveNow

\* What both searches say goes on being true of the run.
LEMMA TrueStep ==
  ASSUME DrivesValueFlow, FlowInv, RunTypeOK, FirstInv, SecondInv, PlaceInv, FirstTrueInv, LiveTrueInv,
         [Next]_vars
  PROVE  PlaceInv' /\ FirstTrueInv' /\ LiveTrueInv'
<1>0. FlowTypeOK
  BY DEF FlowInv
<1> DEFINE Firstly == ~AmbiguousWrite(first) /\ ~StrayPointer
           Secondly == /\ verdict \in Accepted
                       /\ ~AmbiguousWrite(input) /\ ~DoubtfulReturn(input) /\ ~StrayPointer
<1>1. CASE (FlowStep /\ UNCHANGED <<searchVars, runVars>>) \/ SearchText \/ Judge
  <2>1. /\ at = NoRun /\ at' = NoRun /\ store' = store /\ used' = used /\ PlaceInv'
        /\ FirstNow = NothingHeld /\ FirstNow' = NothingHeld
        /\ LiveNow = NothingHeld /\ LiveNow' = NothingHeld
    BY <1>1, FlowMoves
  <2>2. True(NothingHeld, store) /\ ~Misses(NothingHeld, store, used)
    BY <2>1 DEF LiveTrueInv
  <2>3. QED
    BY <2>1, <2>2 DEF FirstTrueInv, LiveTrueInv
<1>2. ASSUME UNCHANGED <<flowVars, searchVars>>
      PROVE  (Firstly' <=> Firstly) /\ (Secondly' <=> Secondly) /\ verdict' = verdict
  <2>1. first' = first /\ input' = input /\ verdict' = verdict
    BY <1>2 DEF flowVars, searchVars
  <2>2. /\ AmbiguousWrite(first)' <=> AmbiguousWrite(first)
        /\ AmbiguousWrite(input)' <=> AmbiguousWrite(input)
        /\ DoubtfulReturn(input)' <=> DoubtfulReturn(input)
        /\ StrayPointer' <=> StrayPointer
    BY <2>1 DEF StrayPointer
  <2>3. QED
    BY <2>1, <2>2
<1>3. CASE UNCHANGED vars
  <2>1. UNCHANGED <<flowVars, searchVars>> /\ at' = at /\ store' = store /\ used' = used
    BY <1>3 DEF vars, runVars
  <2>2. /\ FirstNow' = FirstNow /\ LiveNow' = LiveNow /\ search' = search /\ first' = first
        /\ verdict' = verdict /\ Reached' = Reached
    BY <2>1 DEF FirstNow, LiveNow, flowVars, searchVars, Reached
  <2>3. PlaceInv'
    BY <2>1, <2>2 DEF PlaceInv
  <2>4. True(FirstNow', store') <=> True(FirstNow, store)
    BY <2>1, <2>2
  <2>5. /\ True(LiveNow', store') <=> True(LiveNow, store)
        /\ Misses(LiveNow', store', used') <=> Misses(LiveNow, store, used)
    BY <2>1, <2>2
  <2>6. QED
    BY <1>2, <2>1, <2>3, <2>4, <2>5 DEF FirstTrueInv, LiveTrueInv
<1>4. ASSUME at # NoRun, at' # NoRun, UNCHANGED <<flowVars, searchVars>>,
             True(FirstNow, store) /\ Firstly => True(FirstNow', store'),
             True(LiveNow, store) /\ ~Misses(LiveNow, store, used) /\ Secondly =>
               True(LiveNow', store') /\ ~Misses(LiveNow', store', used')
      PROVE  FirstTrueInv' /\ LiveTrueInv'
  <2>1. (Firstly' <=> Firstly) /\ (Secondly' <=> Secondly)
    BY <1>2, <1>4
  <2>2. FirstTrueInv'
    BY <1>4, <2>1 DEF FirstTrueInv
  <2>3. LiveTrueInv'
    BY <1>4, <2>1 DEF LiveTrueInv
  <2>4. QED
    BY <2>2, <2>3
<1>5. CASE StartRun
  <2>1. /\ PlaceInv' /\ at = NoRun /\ at' # NoRun
        /\ FirstNow = NothingHeld /\ LiveNow = NothingHeld /\ FirstNow' = NothingHeld
        /\ verdict \in Accepted => LiveNow' \in ValueFlowStates /\ Subsumes(LiveNow', NothingHeld)
        /\ UNCHANGED <<flowVars, searchVars, store, used>>
    BY <1>0, <1>5, StartMoves
  <2>2. True(NothingHeld, store) /\ ~Misses(NothingHeld, store, used) /\ NothingHeld \in ValueFlowStates
    BY <2>1, NothingHeldMeans DEF LiveTrueInv
  <2>3. FirstTrueInv'
    <3>1. True(FirstNow', store')
      BY <2>1, <2>2
    <3>2. QED
      BY <3>1 DEF FirstTrueInv
  <2>4. ASSUME verdict \in Accepted
        PROVE  True(LiveNow', store') /\ ~Misses(LiveNow', store', used')
    <3>1. PICK t \in ValueFlowStates : t = LiveNow' /\ Subsumes(t, NothingHeld)
      BY <2>1, <2>4
    <3>2. True(t, store) /\ ~Misses(t, store, used)
      BY <2>2, <3>1, SubsumingMeans
    <3>3. QED
      BY <2>1, <3>1, <3>2
  <2>5. LiveTrueInv'
    BY <1>2, <2>1, <2>4 DEF LiveTrueInv
  <2>6. QED
    BY <2>1, <2>3, <2>5
<1>6. CASE Assign \/ Read
  <2>1. /\ PlaceInv' /\ at # NoRun /\ at' # NoRun /\ Statement \in Elements
        /\ FirstNow \in ValueFlowStates /\ FirstNow' = Apply("aliases", FirstNow, Statement)
        /\ verdict \in Accepted =>
             LiveNow \in ValueFlowStates /\ LiveNow' = Apply("live", LiveNow, Statement)
        /\ Assign => /\ ~AmbiguousWrite(first) => Unambiguous(FirstNow, Statement)
                     /\ ~StrayPointer => Followed(Statement)
                     /\ verdict \in Accepted /\ ~AmbiguousWrite(input) => Unambiguous(LiveNow, Statement)
        /\ verdict \in Accepted /\ ~DoubtfulReturn(input) =>
             ~(Statement.op = "return" /\ OriginOf(LiveNow, Statement.of) = "Maybe")
        /\ UNCHANGED <<flowVars, searchVars>>
    BY <1>0, <1>6, StatementMoves
  <2>2. "aliases" \in Searches /\ "live" \in Searches
    BY DEF Searches
  <2>3. ASSUME True(FirstNow, store), Firstly PROVE True(FirstNow', store')
    <3>1. PICK s \in ValueFlowStates : s = FirstNow
      BY <2>1
    <3>2. True(Apply("aliases", s, Statement), store')
      <4>1. CASE Assign
        BY <2>1, <2>2, <2>3, <3>1, <4>1, AssignMeans
      <4>2. CASE Read
        BY <2>1, <2>2, <2>3, <3>1, <4>2, ReadMeans
      <4>3. QED
        BY <1>6, <4>1, <4>2
    <3>3. QED
      BY <2>1, <3>1, <3>2
  <2>4. ASSUME True(LiveNow, store), ~Misses(LiveNow, store, used), Secondly
        PROVE  True(LiveNow', store') /\ ~Misses(LiveNow', store', used')
    <3>1. PICK s \in ValueFlowStates : s = LiveNow
      BY <2>1, <2>4
    <3>2. True(s, store) /\ ~Misses(s, store, used)
      BY <2>4, <3>1
    <3>3. True(Apply("live", s, Statement), store') /\ ~Misses(Apply("live", s, Statement), store', used')
      <4>1. CASE Assign
        <5>1. Unambiguous(s, Statement) /\ Followed(Statement)
          BY <2>1, <2>4, <3>1, <4>1
        <5>2. QED
          BY <2>1, <2>2, <3>2, <4>1, <5>1, AssignMeans
      <4>2. CASE Read
        <5>1. ~(Statement.op = "return" /\ OriginOf(s, Statement.of) = "Maybe")
          BY <2>1, <2>4, <3>1
        <5>2. QED
          BY <2>1, <2>2, <3>2, <4>2, <5>1, ReadMeans
      <4>3. QED
        BY <1>6, <4>1, <4>2
    <3>4. LiveNow' = Apply("live", s, Statement)
      BY <2>1, <2>4, <3>1
    <3>5. QED
      BY <3>3, <3>4
  <2> HIDE DEF Firstly, Secondly
  <2>5. QED
    BY <1>4, <2>1, <2>3, <2>4 DEF Firstly, Secondly
<1>7. CASE Branch
  <2> DEFINE left == IF /\ Terminator[at[1]].kind # "none"
                        /\ IsAlias(OriginOf(LiveNow, Terminator[at[1]].tests)) /\ HandlesHere(at[1])
                     THEN ClearTrackedOrigins(LiveNow) ELSE LiveNow
  <2>1. /\ PlaceInv' /\ at # NoRun /\ at' # NoRun /\ Terminator[at[1]].tests \in Operands
        /\ FirstNow \in ValueFlowStates /\ FirstNow' \in ValueFlowStates /\ Subsumes(FirstNow', FirstNow)
        /\ verdict \in Accepted =>
             /\ LiveNow \in ValueFlowStates /\ LiveNow' \in ValueFlowStates
             /\ \E out \in ValueFlowStates : Subsumes(LiveNow', out) /\ out = left
        /\ UNCHANGED <<flowVars, searchVars, used>>
    BY <1>7, BranchMoves
  <2>2. PICK variables : variables = store'
    OBVIOUS
  <2>3. variables = IF /\ Terminator[at[1]].kind # "none"
                       /\ HoldsResult(Terminator[at[1]].tests) /\ HandlesHere(at[1])
                    THEN AllChecked ELSE store
    BY <1>7, <2>2 DEF Branch
  <2>4. ASSUME True(FirstNow, store) PROVE True(FirstNow', store')
    <3>1. PICK s \in ValueFlowStates, t \in ValueFlowStates : s = FirstNow /\ t = FirstNow'
      BY <2>1
    <3>2. True(s, variables)
      BY <2>3, <2>4, <3>1, CheckingMeans
    <3>3. True(t, variables)
      BY <2>1, <3>1, <3>2, SubsumingMeans
    <3>4. QED
      BY <2>2, <3>1, <3>3
  <2>5. ASSUME True(LiveNow, store), ~Misses(LiveNow, store, used), verdict \in Accepted
        PROVE  True(LiveNow', store') /\ ~Misses(LiveNow', store', used')
    <3>1. PICK s \in ValueFlowStates, t \in ValueFlowStates, out \in ValueFlowStates :
            s = LiveNow /\ t = LiveNow' /\ Subsumes(t, out) /\ out = left
      BY <2>1, <2>5
    <3>2. True(s, store) /\ ~Misses(s, store, used)
      BY <2>5, <3>1
    <3>3. True(s, variables) /\ ~Misses(s, variables, used)
      BY <2>3, <3>2, CheckingMeans
    <3>4. True(out, variables) /\ ~Misses(out, variables, used)
      <4>1. CASE out = s
        BY <3>3, <4>1
      <4>2. CASE out # s
        <5>1. /\ out = ClearTrackedOrigins(s) /\ Terminator[at[1]].kind # "none"
              /\ OriginOf(s, Terminator[at[1]].tests) = "Yes" /\ HandlesHere(at[1])
          BY <3>1, <4>2 DEF IsAlias
        <5>2. HoldsResult(Terminator[at[1]].tests)
          BY <2>1, <3>2, <5>1, OriginMeans
        <5>3. \A v \in Ints : variables[v] # "result"
          BY <2>3, <3>2, <5>1, <5>2, CheckingMeans
        <5>4. QED
          BY <3>3, <5>1, <5>3, ClearingMeans
      <4>3. QED
        BY <4>1, <4>2
    <3>5. True(t, variables) /\ ~Misses(t, variables, used)
      BY <3>1, <3>4, SubsumingMeans
    <3>6. used' = used
      BY <2>1
    <3>7. QED
      BY <2>2, <3>1, <3>5, <3>6
  <2>6. QED
    BY <1>4, <2>1, <2>4, <2>5
<1>8. QED
  BY <1>1, <1>3, <1>5, <1>6, <1>7 DEF Next

-----------------------------------------------------------------------------
\* The second search starts like a first one.
LEMMA SearchTextStep ==
  ASSUME FlowInv, SearchText
  PROVE  FlowInv'
<1>1. CASE UNCHANGED flowVars
  BY <1>1 DEF flowVars, FlowInv, FlowTypeOK, VisitedInv, ActiveInv, Queued, Reached, Delivered, Covers
<1>2. CASE \E entry \in Entries \cap Reached :
             /\ input' = [b \in {Live[entry]} |-> EntryState]
             /\ queue' = <<Live[entry]>>
             /\ active' = NoBlock /\ output' = EntryState /\ edge' = 1
  <2>1. PICK entry \in Entries :
          /\ input' = [b \in {Live[entry]} |-> EntryState]
          /\ queue' = <<Live[entry]>>
          /\ active' = NoBlock /\ output' = EntryState /\ edge' = 1
    BY <1>2
  <2>2. Live[entry] \in Blocks /\ EntryState \in States
    BY ValueFlowAssumption, LiveAssumption, WorklistAssumption
  <2>3. Reached' = {Live[entry]}
    BY <2>1 DEF Reached
  <2>4. FlowTypeOK'
    BY <2>1, <2>2, <2>3 DEF FlowTypeOK
  <2>5. \A b \in Reached' : Queued(b)'
    <3>1. Len(queue') = 1 /\ queue'[1] = Live[entry]
      BY <2>1
    <3>2. QED
      BY <2>3, <3>1 DEF Queued
  <2>6. QED
    BY <2>1, <2>4, <2>5 DEF FlowInv, VisitedInv, ActiveInv
<1>3. QED
  BY <1>1, <1>2 DEF SearchText

\* A check leaves the variables what they may be.
LEMMA AllCheckedIsTyped ==
  ASSUME RunTypeOK
  PROVE  /\ DOMAIN AllChecked = Ints \cup Pointers
         /\ \A v \in Ints : AllChecked[v] \in {"other", "result", "checked"}
         /\ \A p \in Pointers : AllChecked[p] \in Ints \cup {Outside}
  BY ValueFlowAssumption DEF AllChecked, RunTypeOK, Outside

LEMMA FlowInvStep ==
  ASSUME DrivesValueFlow, FlowInv, [Next]_vars
  PROVE  FlowInv'
<1>1. CASE SearchText
  BY <1>1, SearchTextStep
<1>2. CASE [FlowStep]_flowVars
  <2>1. FlowIsTyped(States) /\ JoinAccumulates(States)
    BY ValueFlowLaws
  <2>2. FlowTypeOK'
    BY <1>2, <2>1, FlowTypeStep DEF FlowInv
  <2>3. QED
    BY <1>2, <2>1, <2>2, VisitStep DEF FlowInv
<1>3. QED
  BY <1>1, <1>2 DEF Next, vars, flowVars, Judge, StartRun, Assign, Read, Branch

\* The variables of the run, and its place.
LEMMA RunTypeStep ==
  ASSUME RunTypeOK, FirstInv, PlaceInv, [Next]_vars
  PROVE  RunTypeOK'
<1>1. CASE UNCHANGED runVars
  BY <1>1 DEF runVars, RunTypeOK
<1>2. CASE StartRun
  <2>1. PICK entry \in Entries : at' = <<entry, 1>>
    BY <1>2 DEF StartRun
  <2>2. store' = store /\ used' = used
    BY <1>2 DEF StartRun
  <2>3. QED
    BY <2>1, <2>2, ValueFlowAssumption DEF RunTypeOK
<1>3. ASSUME Assign \/ Read
      PROVE  at' \in FirstBlocks \X Nat /\ Statement \in Elements
  <2>1. InBlock /\ at # NoRun /\ at' = [at EXCEPT ![2] = @ + 1]
    BY <1>3 DEF Assign, Read, InBlock
  <2>2. PICK b \in FirstBlocks, i \in Nat : at = <<b, i>>
    BY <2>1 DEF RunTypeOK
  <2>3. i \in 1..Len(Body[b])
    BY <2>1, <2>2, BothBlocks, Running DEF InBlock
  <2>4. QED
    BY <2>1, <2>2, <2>3, BothBlocks DEF Statement
<1>4. CASE Read
  <2>1. used' \in BOOLEAN /\ store' \in {store, AllChecked}
    BY <1>4 DEF Read, RunTypeOK
  <2>2. QED
    BY <1>3, <1>4, <2>1, AllCheckedIsTyped DEF RunTypeOK
<1>5. CASE Branch
  <2>1. used' = used /\ store' \in {store, AllChecked} /\ at # NoRun
    BY <1>5 DEF Branch, AtEnd
  <2>2. PICK i \in 1..Len(Successors[at[1]]) :
          Successors[at[1]][i] # NoBlock /\ at' = <<Successors[at[1]][i], 1>>
    BY <1>5 DEF Branch
  <2>3. Successors[at[1]][i] \in FirstBlocks
    BY <2>1, <2>2, Running, BothBlocks
  <2>4. QED
    BY <2>1, <2>2, <2>3, AllCheckedIsTyped DEF RunTypeOK
<1>6. CASE Assign
  <2>1. PICK stmt \in Elements : stmt = Statement
    BY <1>3, <1>6
  <2>2. stmt.op \in {"set", "choose", "step"} /\ used' = used
    BY <1>6, <2>1 DEF Assign
  <2>3. PICK to : to = Written(stmt) /\ to \in Places \cup PointerPlaces
    BY <2>2, ElementForms DEF Written
  <2>4. PICK v \in IF stmt.op = "step" THEN {"other"} ELSE {ValueOf(e) : e \in Sources(stmt)} :
          store' = IF Place(to) = Outside THEN store ELSE [store EXCEPT ![Place(to)] = Stored(Place(to), v)]
    BY <1>6, <2>1, <2>3 DEF Assign, Written
  <2>5. to \in Places => v \in {"other", "result", "checked"}
    <3>1. CASE stmt.op = "step"
      BY <2>4, <3>1
    <3>2. CASE stmt.op # "step"
      <4>1. PICK e \in Sources(stmt) : v = ValueOf(e)
        BY <2>4, <3>2
      <4>2. to \in Places => e \in Values
        BY <2>2, <2>3, <3>2, ElementForms DEF Written
      <4>3. ASSUME e \in Values PROVE ValueOf(e) \in {"other", "result", "checked"}
        <5>1. e \in Operands
          BY <4>3 DEF Operands
        <5>2. /\ e.as \in {"var", "deref", "call", "other"}
              /\ e.as = "var" => e.of \in Ints
              /\ e.as = "deref" => e.of \in Pointers
          BY <4>3, <5>1, OperandForms
        <5>3. QED
          BY <5>2 DEF ValueOf, Place, RunTypeOK
      <4>4. QED
        BY <4>1, <4>2, <4>3
    <3>3. QED
      BY <3>1, <3>2
  <2>6. /\ to \in Places => Place(to) \in Ints \cup {Outside}
        /\ to \in PointerPlaces => Place(to) \in Pointers
    <3>1. to \in Places => (to.as = "var" /\ to.of \in Ints) \/ (to.as = "deref" /\ to.of \in Pointers)
      BY DEF Places
    <3>2. to \in PointerPlaces => to.as = "var" /\ to.of \in Pointers
      BY DEF PointerPlaces
    <3>3. QED
      BY <3>1, <3>2 DEF Place, RunTypeOK
  <2>7. PICK place : place = Place(to)
    OBVIOUS
  <2>8. place \in Pointers => Stored(place, v) \in Ints \cup {Outside}
    BY DEF Stored
  <2>9. place \in Ints => Stored(place, v) \in {"other", "result", "checked"}
    BY <2>3, <2>5, <2>6, <2>7, ValueFlowAssumption DEF Stored
  <2>10. /\ DOMAIN store' = Ints \cup Pointers
         /\ \A w \in Ints : store'[w] \in {"other", "result", "checked"}
         /\ \A p \in Pointers : store'[p] \in Ints \cup {Outside}
    BY <2>4, <2>7, <2>8, <2>9 DEF RunTypeOK
  <2>11. QED
    BY <1>3, <1>6, <2>2, <2>10 DEF RunTypeOK
<1>7. QED
  BY <1>1, <1>2, <1>4, <1>5, <1>6 DEF Next, vars, SearchText, Judge

\* Each search leaves to the next what it relies on.
LEMMA SearchesStep ==
  ASSUME DrivesValueFlow, FlowInv, BeginningInv, FirstInv, SecondInv, [Next]_vars
  PROVE  BeginningInv' /\ FirstInv' /\ SecondInv'
<1>0. FlowTypeOK /\ FixpointReached /\ FlowIsTyped(States) /\ JoinAccumulates(States)
  BY FlowInvFixpoint, ValueFlowLaws DEF FlowInv
<1>1. ASSUME UNCHANGED searchVars PROVE FirstInv'
  BY <1>1 DEF searchVars, FirstInv
<1>2. CASE UNCHANGED <<flowVars, searchVars>>
  <2>1. /\ search' = search /\ verdict' = verdict /\ first' = first /\ input' = input
        /\ Reached' = Reached /\ queue' = queue /\ active' = active
    BY <1>2 DEF flowVars, searchVars, Reached
  <2>2. BeginningInv'
    BY <2>1 DEF BeginningInv, EntryInv
  <2>3. (UnhandledLivePath' <=> UnhandledLivePath) /\ (Done' <=> Done)
    BY <2>1 DEF UnhandledLivePath, Exits, Done
  <2>4. SecondInv'
    BY <2>1, <2>3 DEF SecondInv
  <2>5. FirstInv'
    BY <1>1, <1>2
  <2>6. QED
    BY <2>2, <2>4, <2>5
<1>3. CASE FlowStep /\ UNCHANGED <<searchVars, runVars>>
  <2>1. FirstInv' /\ search' = search /\ verdict' = verdict /\ first' = first
    BY <1>1, <1>3 DEF searchVars
  <2>2. BeginningInv'
    <3>1. CASE search = "aliases"
      BY <1>0, <1>3, <3>1, BeginningStep DEF BeginningInv
    <3>2. CASE search # "aliases"
      BY <2>1, <3>2 DEF BeginningInv
    <3>3. QED
      BY <3>1, <3>2
  <2>3. search # "done"
    BY <1>3, DoneIsFinal DEF SecondInv
  <2>4. ASSUME search = "live", NEW entry \in Entries \cap DOMAIN first
        PROVE  Live[entry] \in Reached' /\ Covers(input'[Live[entry]], EntryState)
    <3>1. PICK b \in Reached : b = Live[entry] /\ Covers(input[b], EntryState)
      BY <2>4 DEF SecondInv
    <3>2. b \in Reached'
      BY <1>0, <1>3, ReachedStep
    <3>3. Covers(input'[b], EntryState)
      BY <1>0, <1>3, <3>1, CoversStep, WorklistAssumption
    <3>4. QED
      BY <3>1, <3>2, <3>3
  <2>5. SecondInv'
    <3>1. ASSUME search = "live", NEW entry \in Entries \cap DOMAIN first
          PROVE  Live[entry] \in Reached' /\ Covers(input[Live[entry]], EntryState)'
      BY <2>4, <3>1 DEF Covers
    <3>2. QED
      BY <2>1, <2>3, <3>1 DEF SecondInv
  <2>6. QED
    BY <2>1, <2>2, <2>5
<1>4. CASE SearchText
  <2>1. /\ search = "aliases" /\ Done /\ search' \in {"live", "done"} /\ first' = input
        /\ aliases' = AliasesFor(first')
    BY <1>4 DEF SearchText
  <2>2. /\ DOMAIN first' = Reached /\ Reached \subseteq FirstBlocks
        /\ \A b \in Reached : input[b] \in ValueFlowStates /\ (b \in Entries => input[b] = EntryState)
        /\ \A c, d \in Entries \cap Reached : c = d
    BY <1>0, <2>1 DEF BeginningInv, EntryInv, FlowTypeOK, DrivesValueFlow, Reached
  <2>3. \A b \in Reached : \A i \in 1..Len(Successors[b]) : Successors[b][i] # NoBlock =>
          Successors[b][i] \in Reached /\ Covers(input[Successors[b][i]], OnEdge(b, i, Transfer(b, input[b])))
    BY <1>0, <2>1 DEF FixpointReached, Delivered
  <2>4. FirstInv'
    BY <2>1, <2>2, <2>3 DEF FirstInv, Covers, Reached
  <2>5. BeginningInv'
    BY <2>1 DEF BeginningInv
  <2>6. CASE HandlingFound(AliasesFor(input)) \notin Accepted
    <3>1. search' = "done" /\ verdict' \notin Accepted /\ UNCHANGED flowVars
      BY <1>4, <2>6 DEF SearchText
    <3>2. Done'
      BY <2>1, <3>1 DEF flowVars, Done
    <3>3. QED
      BY <2>4, <2>5, <3>1, <3>2 DEF SecondInv, Accepted
  <2>7. CASE HandlingFound(AliasesFor(input)) \in Accepted
    <3>1. PICK entry \in Entries \cap Reached :
            search' = "live" /\ input' = [b \in {Live[entry]} |-> EntryState]
      BY <1>4, <2>7 DEF SearchText
    <3>2. Reached' = {Live[entry]} /\ input'[Live[entry]] = EntryState
      BY <3>1 DEF Reached
    <3>3. Covers(EntryState, EntryState)
      BY <1>0, WorklistAssumption DEF JoinAccumulates
    <3>4. \A c \in Entries \cap DOMAIN first' : Live[c] \in Reached' /\ Covers(input'[Live[c]], EntryState)
      BY <2>2, <3>2, <3>3
    <3>5. SecondInv'
      BY <3>1, <3>4 DEF SecondInv, Covers
    <3>6. QED
      BY <2>4, <2>5, <3>5
  <2>8. QED
    BY <2>6, <2>7
<1>5. CASE Judge
  <2>1. /\ search = "live" /\ search' = "done" /\ Done /\ first' = first /\ aliases' = aliases
        /\ UNCHANGED flowVars
        /\ verdict' = IF UnhandledLivePath THEN "consumed" ELSE verdict
    BY <1>5 DEF Judge
  <2>2. input' = input /\ Reached' = Reached /\ Done'
    BY <2>1 DEF flowVars, Reached, Done
  <2>3. FirstInv' /\ BeginningInv'
    BY <2>1 DEF FirstInv, BeginningInv
  <2>4. UnhandledLivePath' <=> UnhandledLivePath
    BY <2>2 DEF UnhandledLivePath, Exits
  <2>5. verdict' \in Accepted => ~UnhandledLivePath
    BY <2>1 DEF Accepted
  <2>6. SecondInv'
    BY <2>1, <2>2, <2>4, <2>5 DEF SecondInv
  <2>7. QED
    BY <2>3, <2>6
<1>6. CASE StartRun \/ Assign \/ Read \/ Branch
  BY <1>2, <1>6 DEF StartRun, Assign, Read, Branch
<1>7. CASE UNCHANGED vars
  BY <1>2, <1>7 DEF vars
<1>8. QED
  BY <1>3, <1>4, <1>5, <1>6, <1>7 DEF Next

ValueFlowInv ==
  /\ FlowInv /\ RunTypeOK /\ BeginningInv /\ FirstInv /\ SecondInv /\ PlaceInv
  /\ FirstTrueInv /\ LiveTrueInv

LEMMA ValueFlowInit ==
  ASSUME Init
  PROVE  ValueFlowInv
<1>0. FlowInit
  BY DEF Init
<1>1. /\ search = "aliases" /\ at = NoRun /\ used = FALSE
      /\ store = [v \in Ints \cup Pointers |-> IF v \in Ints THEN "other" ELSE Outside]
  BY DEF Init
<1>2. FlowInv /\ EntryInv
  BY <1>0, FlowInitInv, EntryInit
<1>3. RunTypeOK
  BY <1>1, ValueFlowAssumption DEF RunTypeOK
<1>4. BeginningInv
  <2>1. PICK entry \in Entries : Reached = {entry}
    BY <1>0 DEF FlowInit, Reached
  <2>2. QED
    BY <1>2, <2>1, ValueFlowAssumption DEF BeginningInv
<1>5. FirstInv /\ SecondInv /\ PlaceInv
  BY <1>1 DEF FirstInv, SecondInv, PlaceInv
<1>6. FirstNow = NothingHeld /\ LiveNow = NothingHeld
  BY <1>1 DEF FirstNow, LiveNow
<1>7. True(NothingHeld, store)
  BY NothingHeldMeans
<1>8. ~Misses(NothingHeld, store, used)
  BY <1>1 DEF Misses
<1>9. QED
  BY <1>1, <1>2, <1>3, <1>4, <1>5, <1>6, <1>7, <1>8 DEF ValueFlowInv, FirstTrueInv, LiveTrueInv

LEMMA ValueFlowInvariance ==
  ASSUME DrivesValueFlow
  PROVE  Spec => []ValueFlowInv
<1>1. Init => ValueFlowInv
  BY ValueFlowInit
<1>2. ValueFlowInv /\ [Next]_vars => ValueFlowInv'
  <2> SUFFICES ASSUME ValueFlowInv, [Next]_vars PROVE ValueFlowInv'
    OBVIOUS
  <2>1. FlowInv'
    BY FlowInvStep DEF ValueFlowInv
  <2>2. RunTypeOK'
    BY RunTypeStep DEF ValueFlowInv
  <2>3. BeginningInv' /\ FirstInv' /\ SecondInv'
    BY SearchesStep DEF ValueFlowInv
  <2>4. PlaceInv' /\ FirstTrueInv' /\ LiveTrueInv'
    BY TrueStep DEF ValueFlowInv
  <2>5. QED
    BY <2>1, <2>2, <2>3, <2>4 DEF ValueFlowInv
<1>3. QED
  BY <1>1, <1>2, PTL DEF Spec

\* The aliases, and then the verdict, are read from a fixpoint: both searches of
\* the analysis keep the invariant of the work list, for every control-flow
\* graph, any number of variables and any domain.
THEOREM BothSearchesEndAtFixpoint ==
  ASSUME DrivesValueFlow
  PROVE  Spec => []FixpointReached
<1>1. ValueFlowInv => FixpointReached
  BY FlowInvFixpoint DEF ValueFlowInv
<1>2. QED
  BY <1>1, ValueFlowInvariance, PTL

\* An alias really holds a result of the call whenever a run gets there, for any
\* function of the language of ValueFlow and any number of variables, but for
\* ambiguous writes and stray pointers: the code's strong updates, its joins and
\* its fixpoint never call an expression an alias of the result that is not one.
THEOREM AliasesAlwaysHoldResult ==
  ASSUME DrivesValueFlow
  PROVE  Spec => []AliasesHoldResult
<1>1. ValueFlowInv => AliasesHoldResult
  <2> SUFFICES ASSUME ValueFlowInv, at # NoRun, ~AmbiguousWrite(first), ~StrayPointer,
                      (IF InBlock THEN at ELSE <<at[1], 0>>) \in aliases
               PROVE  LET o == IF InBlock THEN at ELSE <<at[1], 0>> IN HoldsResult(Examined(o[1], o[2]))
    BY DEF AliasesHoldResult
  <2>1. RunTypeOK /\ FirstInv /\ PlaceInv /\ True(FirstNow, store)
    BY DEF ValueFlowInv, FirstTrueInv
  <2>2. PICK b \in FirstBlocks, i \in Nat :
          /\ at = <<b, i>> /\ i \in 1..(Len(Body[b]) + 1) /\ search = "done"
          /\ FirstNow = StateBefore(b, i, first[b]) /\ FirstNow \in ValueFlowStates
    <3>1. at = <<at[1], at[2]>> /\ at[2] \in Nat
      BY <2>1 DEF RunTypeOK
    <3>2. QED
      BY <2>1, <3>1, Running
  <2>3. PICK o : o = IF InBlock THEN at ELSE <<at[1], 0>>
    OBVIOUS
  <2>4. o \in aliases /\ aliases = AliasesFor(first)
    BY <2>1, <2>2, <2>3 DEF FirstInv
  <2>5. /\ IsAlias(OriginOf(IF o[2] = 0 THEN StateAtEnd(o[1], first[o[1]])
                            ELSE StateBefore(o[1], o[2], first[o[1]]), Examined(o[1], o[2])))
        /\ \E c \in DOMAIN first : \E j \in Occurrences(c) : o = <<c, j>>
    BY <2>4 DEF AliasesFor
  <2>6. Len(Body[b]) \in Nat /\ Body[b] \in Seq(Elements) /\ b \in Blocks
    BY BothBlocks
  <2>7. /\ o[1] = b /\ o[2] = IF i <= Len(Body[b]) THEN i ELSE 0
        /\ o[2] = 0 => i = Len(Body[b]) + 1
    BY <2>2, <2>3, <2>6 DEF InBlock
  <2>8. OriginOf(FirstNow, Examined(b, o[2])) = "Yes"
    BY <2>2, <2>5, <2>7 DEF IsAlias, StateAtEnd
  <2>9. Examined(b, o[2]) \in Operands
    <3>1. o[2] \in Occurrences(b)
      BY <2>5, <2>7
    <3>2. CASE o[2] = 0
      BY <2>6, <3>2, ValueFlowAssumption DEF Examined
    <3>3. CASE o[2] # 0
      <4>1. o[2] \in 1..Len(Body[b]) /\ Body[b][o[2]] \in Elements /\ Body[b][o[2]].op \in Examining
        BY <2>6, <3>1, <3>3 DEF Occurrences
      <4>2. QED
        BY <3>3, <4>1, ElementForms DEF Examined, Examining
    <3>4. QED
      BY <3>2, <3>3
  <2>10. HoldsResult(Examined(b, o[2]))
    BY <2>1, <2>2, <2>8, <2>9, OriginMeans
  <2>11. QED
    BY <2>3, <2>7, <2>10
<1>2. QED
  BY <1>1, ValueFlowInvariance, PTL

\* A call is accepted as handled only if no run computes with its result and then
\* leaves with a result unchecked, for any function and any domain, but for the
\* named exemptions: what a path does not check the second search cannot miss.
THEOREM UncheckedPathsAreReported ==
  ASSUME DrivesValueFlow
  PROVE  Spec => []UncheckedPathReported
<1>1. ValueFlowInv => UncheckedPathReported
  <2> SUFFICES ASSUME ValueFlowInv, at # NoRun, Len(Successors[at[1]]) = 0, used,
                      NEW v \in Ints, store[v] = "result",
                      ~AmbiguousWrite(input), ~DoubtfulReturn(input), ~StrayPointer,
                      verdict \in Accepted
               PROVE  FALSE
    BY DEF UncheckedPathReported
  <2>1. FirstInv /\ SecondInv /\ PlaceInv /\ FlowTypeOK
    BY DEF ValueFlowInv, FlowInv
  <2>2. ~Misses(LiveNow, store, used)
    BY DEF ValueFlowInv, LiveTrueInv
  <2>3. /\ search = "done" /\ at[1] \in FirstBlocks /\ at[2] \in 1..(Len(Body[at[1]]) + 1)
        /\ Live[at[1]] \in Reached /\ input[Live[at[1]]] \in ValueFlowStates
        /\ LiveNow = StateBefore(Live[at[1]], at[2], input[Live[at[1]]])
    BY <2>1, Running, RunningLive
  <2>4. PICK b \in Blocks : b = Live[at[1]] /\ Len(Successors[b]) = 0 /\ Body[b] = Body[at[1]]
    BY <2>3, LiveAssumption
  <2>5. Body[b] = <<>>
    BY <2>4, ValueFlowAssumption, WorklistAssumption
  <2>6. at[2] = 1
    BY <2>3, <2>4, <2>5
  <2>7. LiveNow = input[b]
    BY <2>3, <2>4, <2>6, StatesInTurn
  <2>8. input[b].uncheckedUse /\ input[b].values[v] # "No"
    BY <2>2, <2>7 DEF Misses
  <2>9. UnhandledLivePath
    BY <2>3, <2>4, <2>8 DEF UnhandledLivePath, Exits, HasTrackedOrigin
  <2>10. QED
    BY <2>1, <2>3, <2>9 DEF SecondInv
<1>2. QED
  BY <1>1, ValueFlowInvariance, PTL
=============================================================================
