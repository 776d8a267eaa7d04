------------------------- MODULE HandlerFinderProofs -------------------------
(***************************************************************************)
(* Conditions: whatever the condition, the value and the type of the       *)
(* variable, every truth the evaluator is sure of is the one C computes.   *)
(* HandlerFinder: for every text, what the search tracks holds the result, *)
(* and what it calls handled, ignored or checked by a callee is.           *)
(***************************************************************************)
EXTENDS HandlerFinder, FiniteSetTheorems, WellFoundedInduction, TLAPS

\* What C gives the operands of comparisons.
OperandsMeant(e, m) ==
  \A i \in DOMAIN m :
    /\ e.cond[i].kind = "target" => m[i] = Held(e)
    /\ IsConstant(e.cond[i]) => m[i] = e.cond[i].value

\* The first nodes of a condition have got truths and values.
Evaluated(e, t, m) ==
  /\ WellFormed(e.cond) /\ e.value \in Int /\ e.type.states \in Nat \ {0}
  /\ t \in Seq(Truths) /\ m \in Seq(Int)
  /\ Len(m) = Len(t) /\ Len(t) <= Len(e.cond)

\* The truths are right about the values.
Agree(t, m) ==
  \A i \in DOMAIN t : (t[i] = "True" => m[i] # 0) /\ (t[i] = "False" => m[i] = 0)

ConditionsInv ==
  /\ evaluation \in Evaluations /\ Evaluated(evaluation, truths, meant)
  /\ OperandsMeant(evaluation, meant)
  /\ KeepsValues(evaluation) => Agree(truths, meant)

-----------------------------------------------------------------------------
\* A value of an unsigned int survives the conversion to one.
LEMMA SmallRemainder ==
  ASSUME NEW m \in Nat \ {0}, NEW x \in 0..(m - 1)
  PROVE  x % m = x
BY SMT

LEMMA HeldIsInt ==
  ASSUME NEW e, e.value \in Int, e.type.states \in Nat \ {0}
  PROVE  Held(e) \in Int
<1>1. e.value % e.type.states \in Int
  BY SMT
<1> DEFINE m == e.value % e.type.states
<1> QED BY <1>1 DEF Held, Wrapped

\* A comparison of mathematical values is C's where no value is converted.
LEMMA ComparisonIsExact ==
  ASSUME NEW op, NEW l \in Int, NEW r \in Int, NEW u,
         u => l \in 0..(IntStates - 1) /\ r \in 0..(IntStates - 1)
  PROVE  ConvertedCompare(op, l, r, u) <=> Compare(op, l, r)
<1>1. CASE u
  <2>1. l % IntStates = l /\ r % IntStates = r
    BY <1>1, ConditionsAssumption, SmallRemainder DEF ConditionsAssumption
  <2> QED BY <1>1, <2>1 DEF ConvertedCompare, Compare
<1>2. CASE ~u
  BY <1>2 DEF ConvertedCompare, Compare
<1> QED BY <1>1, <1>2

-----------------------------------------------------------------------------
\* The node evaluated next, and its operands.
LEMMA NodeFacts ==
  ASSUME NEW e, NEW t, NEW m, Evaluated(e, t, m), NEW i \in Nat, i = Len(t) + 1, i <= Len(e.cond),
         NEW node, node = e.cond[i]
  PROVE  /\ i \in DOMAIN e.cond
         /\ e.value \in Int /\ Held(e) \in Int
         /\ node.kind \in ConditionKinds
         /\ IsConstant(node) => node.value \in Int
         /\ node.kind \in {"not", "and", "or", "compare"} =>
              node.left \in DOMAIN t /\ node.left \in DOMAIN m
         /\ node.kind \in {"and", "or", "compare"} =>
              node.right \in DOMAIN t /\ node.right \in DOMAIN m
<1>1. e.cond \in Seq({e.cond[j] : j \in DOMAIN e.cond})
  BY DEF WellFormed, Evaluated
<1>2. i \in DOMAIN e.cond
  BY <1>1 DEF Evaluated
<1>3. e.value \in Int /\ e.type.states \in Nat \ {0}
  BY DEF Evaluated
<1>4. Held(e) \in Int
  BY <1>3, HeldIsInt
<1>5. DOMAIN t = 1..(i - 1) /\ DOMAIN m = 1..(i - 1)
  BY DEF Evaluated
<1> QED BY <1>2, <1>3, <1>4, <1>5 DEF WellFormed, Evaluated

\* A comparison that is decided is decided as C decides it.
LEMMA ComparisonIsSound ==
  ASSUME NEW e, NEW t, NEW m, Evaluated(e, t, m), OperandsMeant(e, m), KeepsValues(e),
         NEW i \in Nat, i = Len(t) + 1, i <= Len(e.cond),
         e.cond[i].kind = "compare"
  PROVE  LET node == e.cond[i]
             holds == ConvertedCompare(node.op, m[node.left], m[node.right],
                        \E o \in {node.left, node.right} :
                          Unsigned(e.cond[o], e.type))
         IN /\ ComparisonTruth(e, node) = "True" => holds
            /\ ComparisonTruth(e, node) = "False" => ~holds
<1> DEFINE node == e.cond[i]
           holds == ConvertedCompare(node.op, m[node.left], m[node.right],
                      \E o \in {node.left, node.right} :
                        Unsigned(e.cond[o], e.type))
<1> DEFINE l == e.cond[node.left]
           r == e.cond[node.right]
           x == m[node.left]
           y == m[node.right]
           u == \E o \in {node.left, node.right} : Unsigned(e.cond[o], e.type)
<1>0. i \in DOMAIN e.cond /\ node.left \in DOMAIN m /\ node.right \in DOMAIN m
  BY NodeFacts
<1>1. /\ i \in DOMAIN e.cond /\ node.left \in DOMAIN m /\ node.right \in DOMAIN m
      /\ x \in Int /\ y \in Int
  BY <1>0 DEF Evaluated
<1>2. /\ l.kind = "target" => x = e.value
      /\ r.kind = "target" => y = e.value
      /\ IsConstant(l) => x = l.value
      /\ IsConstant(r) => y = r.value
  BY <1>1 DEF OperandsMeant, KeepsValues
<1>3. u => /\ l.kind = "target" => x \in 0..(IntStates - 1)
           /\ IsConstant(l) => x \in 0..(IntStates - 1)
           /\ r.kind = "target" => y \in 0..(IntStates - 1)
           /\ IsConstant(r) => y \in 0..(IntStates - 1)
  BY <1>1, <1>2 DEF KeepsValues
<1> DEFINE plain == Compare(node.op, x, y)
<1>4. (l.kind = "target" \/ IsConstant(l)) /\ (r.kind = "target" \/ IsConstant(r)) => (holds <=> plain)
  <2> HIDE DEF x, y, u, l, r
  <2>1. holds = ConvertedCompare(node.op, x, y, u)
    BY DEF x, y, u
  <2> QED BY <1>1, <1>3, <2>1, ComparisonIsExact DEF x, y
<1>5. CASE l.kind = "target" /\ IsConstant(r)
  <2>1. ComparisonTruth(e, node) = CompareValues(node.op, x, y)
    BY <1>5, <1>2 DEF ComparisonTruth
  <2> HIDE DEF plain
  <2> QED BY <2>1, <1>4, <1>5 DEF CompareValues, TruthOf, plain
<1>6. CASE ~(l.kind = "target" /\ IsConstant(r)) /\ r.kind = "target" /\ IsConstant(l)
  <2>1. ComparisonTruth(e, node) = CompareValues(node.op, x, y)
    BY <1>6, <1>2 DEF ComparisonTruth
  <2> HIDE DEF plain
  <2> QED BY <2>1, <1>4, <1>6 DEF CompareValues, TruthOf, plain
<1>7. CASE ~(l.kind = "target" /\ IsConstant(r)) /\ ~(r.kind = "target" /\ IsConstant(l))
  <2>1. ComparisonTruth(e, node) = Folded(e, node)
    BY <1>7 DEF ComparisonTruth
  <2>2. CASE ~(l.kind = "literal" /\ r.kind = "literal")
    BY <2>1, <2>2 DEF Folded
  <2>3. CASE l.kind = "literal" /\ r.kind = "literal"
    <3>1. u <=> l.unsigned \/ r.unsigned
      BY <2>3 DEF Unsigned, IsConstant
    <3>2. x = l.value /\ y = r.value
      BY <2>3, <1>2 DEF IsConstant
    <3>3. Folded(e, node) = TruthOf(ConvertedCompare(node.op, x, y, l.unsigned \/ r.unsigned))
      BY <2>3, <3>2 DEF Folded
    <3>4. ConvertedCompare(node.op, x, y, l.unsigned \/ r.unsigned) <=> holds
      <4> HIDE DEF x, y, l, r
      <4> QED BY <3>1 DEF ConvertedCompare, u, x, y
    <3> QED BY <2>1, <3>3, <3>4 DEF TruthOf
  <2> QED BY <2>2, <2>3
<1> QED BY <1>5, <1>6, <1>7

\* What a node's value is, kind by kind.
NodeValue(e, i, m, value) ==
  /\ e.cond[i].kind = "target" => value = Held(e)
  /\ IsConstant(e.cond[i]) => value = e.cond[i].value
  /\ e.cond[i].kind \in {"not", "and", "or", "compare", "other"} => value \in {0, 1}
  /\ e.cond[i].kind = "not" => (value # 0 <=> m[e.cond[i].left] = 0)
  /\ e.cond[i].kind = "and" =>
       (value # 0 <=> m[e.cond[i].left] # 0 /\ m[e.cond[i].right] # 0)
  /\ e.cond[i].kind = "or" =>
       (value # 0 <=> m[e.cond[i].left] # 0 \/ m[e.cond[i].right] # 0)
  /\ e.cond[i].kind = "compare" =>
       (value # 0 <=> ConvertedCompare(e.cond[i].op, m[e.cond[i].left], m[e.cond[i].right],
          \E o \in {e.cond[i].left, e.cond[i].right} : Unsigned(e.cond[o], e.type)))

LEMMA ValueOfNode ==
  ASSUME NEW e, NEW i, NEW m, NEW value \in Meanings(e, i, m)
  PROVE  NodeValue(e, i, m, value)
<1> USE DEF NodeValue
<1> DEFINE node == e.cond[i]
<1>1. CASE node.kind = "target"
  BY <1>1 DEF Meanings, IsConstant
<1>2. CASE IsConstant(node)
  BY <1>2 DEF Meanings, IsConstant
<1>3. CASE node.kind = "not"
  BY <1>3 DEF Meanings, IsConstant, BoolOf
<1>4. CASE node.kind = "and"
  BY <1>4 DEF Meanings, IsConstant, BoolOf
<1>5. CASE node.kind = "or"
  BY <1>5 DEF Meanings, IsConstant, BoolOf
<1>6. CASE node.kind = "compare"
  <2> DEFINE holds == ConvertedCompare(node.op, m[node.left], m[node.right],
                        \E o \in {node.left, node.right} : Unsigned(e.cond[o], e.type))
  <2>1. Meanings(e, i, m) = {BoolOf(holds)}
    BY <1>6 DEF Meanings, IsConstant
  <2> HIDE DEF holds
  <2>2. value \in {0, 1} /\ (value # 0 <=> holds)
    BY <2>1 DEF BoolOf
  <2> QED BY <1>6, <2>2 DEF holds, IsConstant
<1>7. CASE node.kind = "other"
  BY <1>7 DEF Meanings, IsConstant
<1>8. CASE node.kind \notin ConditionKinds
  BY <1>8 DEF ConditionKinds, IsConstant
<1> QED BY <1>1, <1>2, <1>3, <1>4, <1>5, <1>6, <1>7, <1>8 DEF ConditionKinds, IsConstant

-----------------------------------------------------------------------------
\* One node: what is known of its operands carries over to it.
LEMMA NodeIsSound ==
  ASSUME NEW e, NEW t, NEW m, Evaluated(e, t, m), OperandsMeant(e, m), Agree(t, m),
         KeepsValues(e),
         NEW i \in Nat, i = Len(t) + 1, i <= Len(e.cond),
         NEW value \in Meanings(e, i, m)
  PROVE  /\ NodeTruth(e, i, t) = "True" => value # 0
         /\ NodeTruth(e, i, t) = "False" => value = 0
<1> DEFINE node == e.cond[i]
<1>0. /\ node.kind = "target" => value = Held(e)
      /\ IsConstant(node) => value = node.value
      /\ node.kind \in {"not", "and", "or", "compare", "other"} => value \in {0, 1}
      /\ node.kind = "not" => (value # 0 <=> m[node.left] = 0)
      /\ node.kind = "and" => (value # 0 <=> m[node.left] # 0 /\ m[node.right] # 0)
      /\ node.kind = "or" => (value # 0 <=> m[node.left] # 0 \/ m[node.right] # 0)
      /\ node.kind = "compare" =>
           (value # 0 <=> ConvertedCompare(node.op, m[node.left], m[node.right],
              \E o \in {node.left, node.right} : Unsigned(e.cond[o], e.type)))
  <2>1. NodeValue(e, i, m, value)
    BY ValueOfNode
  <2> QED BY <2>1 DEF NodeValue
<1>1. /\ i \in DOMAIN e.cond /\ e.value \in Int
      /\ node.kind \in ConditionKinds
      /\ node.kind \in {"not", "and", "or", "compare"} =>
           node.left \in DOMAIN t /\ node.left \in DOMAIN m
      /\ node.kind \in {"and", "or", "compare"} =>
           node.right \in DOMAIN t /\ node.right \in DOMAIN m
  BY NodeFacts
<1>2. \A j \in DOMAIN t : t[j] \in Truths /\ m[j] \in Int
  BY DEF Evaluated
<1>3. \A j \in DOMAIN t :
        /\ t[j] = "True" => m[j] # 0
        /\ t[j] = "False" => m[j] = 0
  BY DEF Agree
<1>4. CASE node.kind = "target"
  <2>1. value = e.value
    BY <1>4, <1>0 DEF KeepsValues
  <2> QED BY <1>4, <2>1 DEF NodeTruth, TruthOf
<1>5. CASE IsConstant(node)
  BY <1>5, <1>0 DEF NodeTruth, TruthOf, IsConstant
<1>6. CASE node.kind = "not"
  <2>1. value # 0 <=> m[node.left] = 0
    BY <1>6, <1>0
  <2>2. NodeTruth(e, i, t) = Invert(t[node.left])
    BY <1>6 DEF NodeTruth
  <2>3. /\ Invert(t[node.left]) = "True" => m[node.left] = 0
        /\ Invert(t[node.left]) = "False" => m[node.left] # 0
    <3>1. /\ t[node.left] \in Truths /\ m[node.left] \in Int
          /\ t[node.left] = "True" => m[node.left] # 0
          /\ t[node.left] = "False" => m[node.left] = 0
      BY <1>1, <1>2, <1>3, <1>6
    <3> QED BY <3>1 DEF Invert, Truths
  <2> QED BY <2>1, <2>2, <2>3
<1>7. CASE node.kind = "and"
  <2>1. value # 0 <=> (m[node.left] # 0 /\ m[node.right] # 0)
    BY <1>7, <1>0
  <2>2. NodeTruth(e, i, t) = LogicalAnd(t[node.left], t[node.right])
    BY <1>7 DEF NodeTruth
  <2>3. /\ LogicalAnd(t[node.left], t[node.right]) = "True" =>
             m[node.left] # 0 /\ m[node.right] # 0
        /\ LogicalAnd(t[node.left], t[node.right]) = "False" =>
             ~(m[node.left] # 0 /\ m[node.right] # 0)
    <3>1. /\ t[node.left] \in Truths /\ t[node.right] \in Truths
          /\ t[node.left] = "True" => m[node.left] # 0
          /\ t[node.left] = "False" => m[node.left] = 0
          /\ t[node.right] = "True" => m[node.right] # 0
          /\ t[node.right] = "False" => m[node.right] = 0
      BY <1>1, <1>2, <1>3, <1>7
    <3> QED BY <3>1 DEF LogicalAnd, Truths
  <2> QED BY <2>1, <2>2, <2>3
<1>8. CASE node.kind = "or"
  <2>1. value # 0 <=> (m[node.left] # 0 \/ m[node.right] # 0)
    BY <1>8, <1>0
  <2>2. NodeTruth(e, i, t) = LogicalOr(t[node.left], t[node.right])
    BY <1>8 DEF NodeTruth
  <2>3. /\ LogicalOr(t[node.left], t[node.right]) = "True" =>
             m[node.left] # 0 \/ m[node.right] # 0
        /\ LogicalOr(t[node.left], t[node.right]) = "False" =>
             ~(m[node.left] # 0 \/ m[node.right] # 0)
    <3>1. /\ t[node.left] \in Truths /\ t[node.right] \in Truths
          /\ t[node.left] = "True" => m[node.left] # 0
          /\ t[node.left] = "False" => m[node.left] = 0
          /\ t[node.right] = "True" => m[node.right] # 0
          /\ t[node.right] = "False" => m[node.right] = 0
      BY <1>1, <1>2, <1>3, <1>8
    <3> QED BY <3>1 DEF LogicalOr, Truths
  <2> QED BY <2>1, <2>2, <2>3
<1>9. CASE node.kind = "compare"
  <2> DEFINE holds == ConvertedCompare(node.op, m[node.left], m[node.right],
                        \E o \in {node.left, node.right} :
                          Unsigned(e.cond[o], e.type))
  <2>1. value # 0 <=> holds
    BY <1>9, <1>0
  <2>2. NodeTruth(e, i, t) = ComparisonTruth(e, node)
    BY <1>9 DEF NodeTruth
  <2>3. /\ ComparisonTruth(e, node) = "True" => holds
        /\ ComparisonTruth(e, node) = "False" => ~holds
    BY <1>9, ComparisonIsSound
  <2> HIDE DEF holds
  <2> QED BY <2>1, <2>2, <2>3
<1>10. CASE node.kind = "other"
  BY <1>10 DEF NodeTruth
<1> QED BY <1>1, <1>4, <1>5, <1>6, <1>7, <1>8, <1>9, <1>10 DEF ConditionKinds, IsConstant

\* The values a node may have.
LEMMA NodeTypes ==
  ASSUME NEW e, NEW t, NEW m, Evaluated(e, t, m), NEW i \in Nat, i = Len(t) + 1, i <= Len(e.cond),
         NEW value \in Meanings(e, i, m)
  PROVE  /\ NodeTruth(e, i, t) \in Truths
         /\ value \in Int
         /\ e.cond[i].kind = "target" => value = Held(e)
         /\ IsConstant(e.cond[i]) => value = e.cond[i].value
<1> DEFINE node == e.cond[i]
<1>0. /\ node.kind = "target" => value = Held(e)
      /\ IsConstant(node) => value = node.value
      /\ node.kind \in {"not", "and", "or", "compare", "other"} => value \in {0, 1}
  <2>1. NodeValue(e, i, m, value)
    BY ValueOfNode
  <2> QED BY <2>1 DEF NodeValue
<1>1. /\ Held(e) \in Int /\ (IsConstant(node) => node.value \in Int)
      /\ node.kind \in ConditionKinds
  BY NodeFacts
<1>2. NodeTruth(e, i, t) \in Truths
  BY DEF NodeTruth, Truths, TruthOf, Invert, LogicalAnd, LogicalOr, ComparisonTruth,
         CompareValues, Folded
<1>3. /\ node.kind = "target" => value = Held(e)
      /\ IsConstant(node) => value = node.value
  BY <1>0
<1>4. node.kind # "target" /\ ~IsConstant(node) => value \in Int
  BY <1>1, <1>0 DEF IsConstant, ConditionKinds
<1> QED BY <1>1, <1>2, <1>3, <1>4

-----------------------------------------------------------------------------
\* Evaluating one node more keeps what is known of the nodes before it.
LEMMA OneNodeMore ==
  ASSUME NEW e, NEW t, NEW m, Evaluated(e, t, m), OperandsMeant(e, m),
         KeepsValues(e) => Agree(t, m),
         NEW i \in Nat, i = Len(t) + 1, i <= Len(e.cond), NEW value \in Meanings(e, i, m),
         NEW t2, t2 = Append(t, NodeTruth(e, i, t)), NEW m2, m2 = Append(m, value)
  PROVE  /\ Evaluated(e, t2, m2) /\ OperandsMeant(e, m2)
         /\ KeepsValues(e) => Agree(t2, m2)
<1> DEFINE truth == NodeTruth(e, i, t)
<1>2. Len(t) \in Nat /\ Len(m) = Len(t)
  BY DEF Evaluated
<1>3. /\ truth \in Truths /\ value \in Int
      /\ e.cond[i].kind = "target" => value = Held(e)
      /\ IsConstant(e.cond[i]) => value = e.cond[i].value
  BY NodeTypes
<1>4. KeepsValues(e) => (truth = "True" => value # 0) /\ (truth = "False" => value = 0)
  BY NodeIsSound
<1>0. t2 = Append(t, truth)
  OBVIOUS
<1> HIDE DEF truth
<1>5. Evaluated(e, t2, m2)
  BY <1>0, <1>2, <1>3 DEF Evaluated
<1>6. /\ DOMAIN t2 = 1..i /\ DOMAIN m2 = 1..i
      /\ \A j \in 1..(i - 1) : t2[j] = t[j] /\ m2[j] = m[j]
      /\ t2[i] = truth /\ m2[i] = value
      /\ DOMAIN t = 1..(i - 1) /\ DOMAIN m = 1..(i - 1)
  BY <1>0, <1>2 DEF Evaluated
<1>7. \A j \in 1..i : j \in 1..(i - 1) \/ j = i
  BY <1>2
<1>8. OperandsMeant(e, m2)
  BY <1>3, <1>6, <1>7 DEF OperandsMeant
<1>9. KeepsValues(e) => Agree(t2, m2)
  BY <1>4, <1>6, <1>7 DEF Agree
<1> QED BY <1>5, <1>8, <1>9

LEMMA ConditionsInit == InitEvaluation => ConditionsInv
<1> SUFFICES ASSUME InitEvaluation PROVE ConditionsInv
  OBVIOUS
<1>1. /\ evaluation \in Evaluations /\ WellFormed(evaluation.cond) /\ evaluation.value \in Int
      /\ evaluation.type.states \in Nat \ {0}
  BY ConditionsAssumption DEF ConditionsAssumption, InitEvaluation
<1>2. Len(evaluation.cond) \in Nat
  BY <1>1 DEF WellFormed
<1> QED BY <1>1, <1>2 DEF InitEvaluation, ConditionsInv, Evaluated, OperandsMeant, Agree

LEMMA ConditionsStep == ConditionsInv /\ [EvaluateNode]_evaluationVars => ConditionsInv'
<1> SUFFICES ASSUME ConditionsInv, [EvaluateNode]_evaluationVars PROVE ConditionsInv'
  OBVIOUS
<1>1. CASE UNCHANGED evaluationVars
  <2>1. evaluation' = evaluation /\ truths' = truths /\ meant' = meant
    BY <1>1 DEF evaluationVars
  <2> QED BY <2>1 DEF ConditionsInv
<1>2. CASE EvaluateNode
  <2> DEFINE i == Len(truths) + 1
  <2>1. PICK value \in Meanings(evaluation, i, meant) :
          /\ truths' = Append(truths, NodeTruth(evaluation, i, truths))
          /\ meant' = Append(meant, value)
          /\ evaluation' = evaluation /\ i <= Len(evaluation.cond)
    BY <1>2 DEF EvaluateNode
  <2>2. i \in Nat
    BY DEF ConditionsInv, Evaluated
  <2>3. /\ Evaluated(evaluation, truths', meant') /\ OperandsMeant(evaluation, meant')
        /\ KeepsValues(evaluation) => Agree(truths', meant')
    BY <2>1, <2>2, OneNodeMore DEF ConditionsInv
  <2> QED BY <2>1, <2>3 DEF ConditionsInv
<1> QED BY <1>1, <1>2

\* For every condition, value and type, and every width of int, a truth the
\* evaluator is sure of is the one C computes (evaluate_impl, compare_values).
THEOREM TruthsAreSound == EvaluationSpec => []SoundTruth
<1>1. InitEvaluation => ConditionsInv
  BY ConditionsInit
<1>2. ConditionsInv /\ [EvaluateNode]_evaluationVars => ConditionsInv'
  BY ConditionsStep
<1>3. ConditionsInv => SoundTruth
  BY DEF ConditionsInv, SoundTruth, Agree
<1> QED BY <1>1, <1>2, <1>3, PTL DEF EvaluationSpec

-----------------------------------------------------------------------------
\* What the recursive functions of the modules compute.

\* Induction: a set of numbers that has 0 and the successor of each is all of Nat.
LEMMA NatSetInduction ==
  ASSUME NEW T \in SUBSET Nat, 0 \in T, \A n \in T : n + 1 \in T
  PROVE  T = Nat
<1> SUFFICES ASSUME Nat \ T # {} PROVE FALSE
  OBVIOUS
<1>1. PICK n \in Nat \ T : \A m \in Nat \ T : ~(<<m, n>> \in OpToRel(<, Nat))
  BY NatLessThanWellFounded, WFMin
<1>2. n # 0 /\ n - 1 \in Nat /\ n = (n - 1) + 1
  OBVIOUS
<1>3. n - 1 \in Nat \ T
  BY <1>2
<1>4. <<n - 1, n>> \in OpToRel(<, Nat)
  BY <1>2 DEF OpToRel
<1> QED BY <1>1, <1>3, <1>4

\* The truths of the first n nodes.
FirstTruths(e, n, f) == f = [i \in 1..n |-> NodeTruth(e, i, [j \in 1..(i - 1) |-> f[j]])]

LEMMA TruthsExist ==
  ASSUME NEW e, NEW n \in Nat
  PROVE  \E f : FirstTruths(e, n, f)
<1> DEFINE T == {k \in Nat : \E f : FirstTruths(e, k, f)}
<1>1. 0 \in T
  <2> DEFINE f == [i \in 1..0 |-> 0]
  <2>1. FirstTruths(e, 0, f)
    BY DEF FirstTruths
  <2> QED BY <2>1
<1>2. ASSUME NEW k \in T PROVE k + 1 \in T
  <2>1. k \in Nat
    OBVIOUS
  <2>2. PICK f : FirstTruths(e, k, f)
    OBVIOUS
  <2> DEFINE last == NodeTruth(e, k + 1, [j \in 1..k |-> f[j]])
             g == [i \in 1..(k + 1) |-> IF i = k + 1 THEN last ELSE f[i]]
  <2>3. ASSUME NEW i \in 1..(k + 1)
        PROVE  g[i] = NodeTruth(e, i, [j \in 1..(i - 1) |-> g[j]])
    <3>1. \A j \in 1..k : g[j] = f[j]
      BY <2>1
    <3>2. [j \in 1..(i - 1) |-> g[j]] = [j \in 1..(i - 1) |-> f[j]]
      BY <2>1, <3>1
    <3>3. CASE i = k + 1
      <4>1. (k + 1) - 1 = k
        BY <2>1
      <4>2. [j \in 1..(i - 1) |-> f[j]] = [j \in 1..k |-> f[j]]
        BY <3>3, <4>1
      <4> QED BY <3>2, <3>3, <4>2
    <3>4. CASE i # k + 1
      <4>1. i \in 1..k
        BY <2>1, <3>4
      <4>2. f[i] = NodeTruth(e, i, [j \in 1..(i - 1) |-> f[j]])
        BY <2>2, <4>1 DEF FirstTruths
      <4> QED BY <3>1, <3>2, <4>1, <4>2
    <3> QED BY <3>3, <3>4
  <2>4. FirstTruths(e, k + 1, g)
    <3>1. g = [i \in 1..(k + 1) |-> g[i]]
      OBVIOUS
    <3> HIDE DEF g
    <3> QED BY <2>3, <3>1 DEF FirstTruths
  <2> HIDE DEF g
  <2> QED BY <2>1, <2>4
<1>3. T = Nat
  <2> HIDE DEF T
  <2>1. T \in SUBSET Nat
    BY DEF T
  <2> QED BY <1>1, <1>2, <2>1, NatSetInduction
<1> QED BY <1>3

\* The evaluator does not look at the type of the variable.
LEMMA TruthWithoutType ==
  ASSUME NEW cond, NEW value, NEW type, NEW i, NEW t
  PROVE  NodeTruth([cond |-> cond, value |-> value], i, t)
           = NodeTruth([cond |-> cond, value |-> value, type |-> type], i, t)
<1> DEFINE e == [cond |-> cond, value |-> value]
           g == [cond |-> cond, value |-> value, type |-> type]
<1>1. e.cond = cond /\ e.value = value /\ g.cond = cond /\ g.value = value
  OBVIOUS
<1> HIDE DEF e, g
<1>2. NodeTruth(e, i, t) = NodeTruth(g, i, t)
  BY <1>1 DEF NodeTruth, ComparisonTruth, Folded
<1> QED BY <1>2 DEF e, g

\* What C gives a node depends on the nodes before it only.
LEMMA MeaningOfPrefix ==
  ASSUME NEW e, WellFormed(e.cond), NEW i \in DOMAIN e.cond, NEW m,
         NEW p, \A j \in 1..(i - 1) : p[j] = m[j]
  PROVE  Meanings(e, i, p) = Meanings(e, i, m)
<1> DEFINE node == e.cond[i]
<1>1. /\ node.kind \in {"not", "and", "or", "compare"} => p[node.left] = m[node.left]
      /\ node.kind \in {"and", "or", "compare"} => p[node.right] = m[node.right]
  BY DEF WellFormed
<1> DEFINE u == \E o \in {node.left, node.right} : Unsigned(e.cond[o], e.type)
<1> HIDE DEF u
<1>2. CASE node.kind = "not"
  BY <1>1, <1>2 DEF Meanings
<1>3. CASE node.kind = "and"
  BY <1>1, <1>3 DEF Meanings
<1>4. CASE node.kind = "or"
  BY <1>1, <1>4 DEF Meanings
<1>5. CASE node.kind = "compare"
  BY <1>1, <1>5 DEF Meanings
<1>6. CASE node.kind \notin {"not", "and", "or", "compare"}
  BY <1>6 DEF Meanings
<1> QED BY <1>2, <1>3, <1>4, <1>5, <1>6

\* The values C may give the nodes of a condition.
MayMean(e, m) ==
  m \in [DOMAIN e.cond -> NodeValues(e)] /\ \A i \in DOMAIN e.cond : m[i] \in Meanings(e, i, m)

\* The truths of a whole condition are those the nodes get one by one, and they
\* are right about whatever values C may give the nodes.
LEMMA TruthsAgree ==
  ASSUME NEW e, WellFormed(e.cond), e.value \in Int, e.type.states \in Nat \ {0}, KeepsValues(e),
         NEW f, FirstTruths(e, Len(e.cond), f), NEW m, MayMean(e, m)
  PROVE  Agree(f, m)
<1> DEFINE n == Len(e.cond)
           t(k) == [j \in 1..k |-> f[j]]
           p(k) == [j \in 1..k |-> m[j]]
           Right(k) == Evaluated(e, t(k), p(k)) /\ OperandsMeant(e, p(k)) /\ Agree(t(k), p(k))
           T == {k \in Nat : k <= n => Right(k)}
<1>1. n \in Nat /\ DOMAIN e.cond = 1..n
  BY DEF WellFormed
<1>2. 0 \in T
  <2>1. t(0) = <<>> /\ p(0) = <<>>
    OBVIOUS
  <2> HIDE DEF t, p
  <2>2. Evaluated(e, <<>>, <<>>)
    <3>1. <<>> \in Seq(Truths) /\ <<>> \in Seq(Int) /\ Len(<<>>) = 0
      OBVIOUS
    <3> QED BY <1>1, <3>1 DEF Evaluated
  <2>3. OperandsMeant(e, <<>>) /\ Agree(<<>>, <<>>)
    BY DEF OperandsMeant, Agree
  <2>4. Right(0)
    BY <2>1, <2>2, <2>3
  <2> QED BY <2>4
<1>3. ASSUME NEW k \in T PROVE k + 1 \in T
  <2> SUFFICES ASSUME k + 1 <= n PROVE Right(k + 1)
    OBVIOUS
  <2> DEFINE i == k + 1
  <2>1. k \in Nat /\ k <= n /\ i \in 1..n /\ i - 1 = k
    BY <1>1
  <2>2. Right(k)
    BY <2>1
  <2>3. m[i] \in Meanings(e, i, p(k))
    <3>1. m[i] \in Meanings(e, i, m)
      BY <1>1, <2>1 DEF MayMean
    <3>2. \A j \in 1..(i - 1) : p(k)[j] = m[j]
      BY <2>1
    <3> HIDE DEF p, i
    <3>3. Meanings(e, i, p(k)) = Meanings(e, i, m)
      BY <1>1, <2>1, <3>2, MeaningOfPrefix
    <3> QED BY <3>1, <3>3
  <2>4. f[i] = NodeTruth(e, i, t(k))
    BY <2>1 DEF FirstTruths
  <2>5. Len(t(k)) = k /\ Len(p(k)) = k
    BY <2>1
  <2>6. t(i) = Append(t(k), f[i]) /\ p(i) = Append(p(k), m[i])
    BY <2>1
  <2> HIDE DEF t, p, i
  <2>7. /\ Evaluated(e, t(k), p(k)) /\ OperandsMeant(e, p(k))
        /\ KeepsValues(e) => Agree(t(k), p(k))
    BY <2>2
  <2>8. i \in Nat /\ i = Len(t(k)) + 1 /\ i <= Len(e.cond)
    BY <1>1, <2>1, <2>5
  <2>9. t(i) = Append(t(k), NodeTruth(e, i, t(k)))
    BY <2>4, <2>6
  <2>10. /\ Evaluated(e, t(i), p(i)) /\ OperandsMeant(e, p(i))
         /\ KeepsValues(e) => Agree(t(i), p(i))
    BY <2>3, <2>6, <2>7, <2>8, <2>9, OneNodeMore
  <2> QED BY <2>10 DEF i
<1>4. T = Nat
  <2> HIDE DEF T
  <2>1. T \in SUBSET Nat
    BY DEF T
  <2> QED BY <1>2, <1>3, <2>1, NatSetInduction
<1>5. Right(n)
  <2> HIDE DEF Right
  <2> QED BY <1>1, <1>4
<1>6. DOMAIN f = 1..n /\ t(n) = f
  BY DEF FirstTruths
<1>7. \A j \in 1..n : p(n)[j] = m[j]
  OBVIOUS
<1> HIDE DEF p, t
<1> QED BY <1>5, <1>6, <1>7 DEF Agree

\* What a check calls true of a value is surely true of it in C.
LEMMA TrueIsSure ==
  ASSUME NEW cond, WellFormed(cond), NEW value \in Int, IsTrueOf(cond, value),
         KeepsValues([cond |-> cond, value |-> value, type |-> IntType])
  PROVE  SurelyTrue(cond, value)
<1> DEFINE e == [cond |-> cond, value |-> value, type |-> IntType]
           g == [cond |-> cond, value |-> value]
           Solves(f) == f = [i \in DOMAIN cond |-> NodeTruth(g, i, [j \in 1..(i - 1) |-> f[j]])]
           truth == CHOOSE f : Solves(f)
           n == Len(cond)
<1>1. n \in Nat /\ n \in DOMAIN cond /\ DOMAIN cond = 1..n
  BY DEF WellFormed
<1>2. ASSUME NEW f PROVE Solves(f) <=> FirstTruths(e, n, f)
  <2>1. \A i : NodeTruth(g, i, [j \in 1..(i - 1) |-> f[j]]) = NodeTruth(e, i, [j \in 1..(i - 1) |-> f[j]])
    BY TruthWithoutType
  <2> HIDE DEF e, g
  <2> QED BY <1>1, <2>1 DEF FirstTruths
<1>3. \E f : FirstTruths(e, n, f)
  BY <1>1, TruthsExist
<1>4. Solves(truth)
  <2> HIDE DEF Solves
  <2> QED BY <1>2, <1>3
<1>5. FirstTruths(e, n, truth)
  <2> HIDE DEF Solves, truth
  <2> QED BY <1>2, <1>4
<1>6. truth[n] = "True"
  BY DEF IsTrueOf, Evaluate
<1> HIDE DEF truth
<1>7. e.cond = cond /\ e.value = value /\ e.type = IntType /\ IntType.states \in Nat \ {0}
  BY ConditionsAssumption DEF ConditionsAssumption, IntType
<1> SUFFICES ASSUME NEW m \in [DOMAIN cond -> NodeValues(e)],
                    \A i \in DOMAIN cond : m[i] \in Meanings(e, i, m)
             PROVE  m[n] # 0
  BY DEF SurelyTrue
<1>8. KeepsValues(e)
  OBVIOUS
<1> HIDE DEF e
<1>9. MayMean(e, m)
  BY <1>7 DEF MayMean
<1>10. Agree(truth, m)
  BY <1>5, <1>7, <1>8, <1>9, TruthsAgree
<1>11. n \in DOMAIN truth
  BY <1>1, <1>5 DEF FirstTruths
<1> QED BY <1>6, <1>10, <1>11 DEF Agree

-----------------------------------------------------------------------------
\* What the checks add to what the search knows.

Flags == {"use", "check", "forwarded", "exhaustive", "invalidated"}

\* What the search may know about variables of a set.
Finders(V) ==
  [tracked : SUBSET V, covered : SUBSET text.domain.values, use : BOOLEAN, check : BOOLEAN,
   forwarded : BOOLEAN, exhaustive : BOOLEAN, invalidated : BOOLEAN]

Consistent(f) == f.exhaustive => f.covered = text.domain.values

\* A check changes nothing but what is handled, and handles more.
Marks(f, g) ==
  /\ g.tracked = f.tracked /\ g.invalidated = f.invalidated /\ g.forwarded = f.forwarded
  /\ g.use = f.use
  /\ f.covered \subseteq g.covered
  /\ f.exhaustive => g.exhaustive

\* Everything handled is among the values decided.
Decided(f, values) ==
  /\ f.covered \subseteq values
  /\ f.exhaustive => text.domain.finite /\ text.domain.values \subseteq values

\* A result of a check is right about the values decided.
Right(result, values) ==
  /\ result.exhaustive => text.domain.finite /\ text.domain.values \subseteq values
  /\ text.domain.finite => text.domain.values \ result.missing \subseteq values

LEMMA AllHandledMarks ==
  ASSUME NEW V, NEW f \in Finders(V)
  PROVE  /\ AllHandled(f) \in Finders(V) /\ Consistent(AllHandled(f)) /\ Marks(f, AllHandled(f))
         /\ AllHandled(f).exhaustive /\ AllHandled(f).covered = text.domain.values
         /\ AllHandled(f).check = f.check
  BY DEF AllHandled, Finders, Consistent, Marks

LEMMA MarkedMarks ==
  ASSUME NEW V, NEW f \in Finders(V), Consistent(f), NEW result
  PROVE  /\ Marked(f, result) \in Finders(V) /\ Consistent(Marked(f, result))
         /\ Marks(f, Marked(f, result)) /\ Marked(f, result).check
         /\ \A values : Decided(f, values) /\ Right(result, values) => Decided(Marked(f, result), values)
<1> DEFINE g == [f EXCEPT !.check = TRUE]
           covered == f.covered \cup (text.domain.values \ result.missing)
           h == [g EXCEPT !.covered = covered, !.exhaustive = (covered = text.domain.values)]
<1>1. /\ g \in Finders(V) /\ Consistent(g) /\ Marks(f, g) /\ g.check
      /\ g.covered = f.covered /\ g.exhaustive = f.exhaustive
  BY DEF Finders, Consistent, Marks
<1>2. /\ h \in Finders(V) /\ h.check /\ h.covered = covered /\ h.exhaustive = (covered = text.domain.values)
      /\ h.tracked = f.tracked /\ h.invalidated = f.invalidated /\ h.forwarded = f.forwarded
      /\ h.use = f.use
  BY DEF Finders
<1>3. f.covered \subseteq text.domain.values
  BY DEF Finders
<1> HIDE DEF g, h
<1>4. CASE result.exhaustive
  <2>1. Marked(f, result) = AllHandled(g)
    BY <1>4 DEF Marked, g
  <2>2. /\ AllHandled(g) \in Finders(V) /\ Consistent(AllHandled(g)) /\ Marks(g, AllHandled(g))
        /\ AllHandled(g).check = g.check
        /\ AllHandled(g).covered = text.domain.values
    BY <1>1, AllHandledMarks
  <2> QED BY <1>1, <1>4, <2>1, <2>2 DEF Marks, Decided, Right
<1>5. CASE ~result.exhaustive /\ ~text.domain.finite
  <2>1. Marked(f, result) = g
    BY <1>5 DEF Marked, g
  <2> QED BY <1>1, <2>1 DEF Decided
<1>6. CASE ~result.exhaustive /\ text.domain.finite
  <2>1. Marked(f, result) = h
    BY <1>6 DEF Marked, g, h
  <2>2. Consistent(h) /\ Marks(f, h)
    BY <1>2, <1>3 DEF Consistent, Marks
  <2>3. \A values : Decided(f, values) /\ Right(result, values) => Decided(h, values)
    BY <1>2, <1>6 DEF Decided, Right
  <2> QED BY <1>2, <2>1, <2>2, <2>3
<1> QED BY <1>4, <1>5, <1>6

LEMMA MarkedSwitchMarks ==
  ASSUME NEW V, NEW f \in Finders(V), Consistent(f), NEW result
  PROVE  /\ MarkedSwitch(f, result) \in Finders(V) /\ Consistent(MarkedSwitch(f, result))
         /\ Marks(f, MarkedSwitch(f, result)) /\ MarkedSwitch(f, result).check
         /\ \A values : Decided(f, values) /\ Right(result, values)
                          => Decided(MarkedSwitch(f, result), values)
<1> DEFINE g == [f EXCEPT !.check = TRUE]
           h == [g EXCEPT !.covered = @ \cup (text.domain.values \ result.missing)]
<1>1. /\ g \in Finders(V) /\ Consistent(g) /\ Marks(f, g) /\ g.check
      /\ g.covered = f.covered /\ g.exhaustive = f.exhaustive
  BY DEF Finders, Consistent, Marks
<1>2. /\ h \in Finders(V) /\ h.check /\ h.exhaustive = f.exhaustive
      /\ h.covered = f.covered \cup (text.domain.values \ result.missing)
      /\ h.tracked = f.tracked /\ h.invalidated = f.invalidated /\ h.forwarded = f.forwarded
      /\ h.use = f.use
  BY DEF Finders
<1>3. f.covered \subseteq text.domain.values
  BY DEF Finders
<1> HIDE DEF g, h
<1>4. CASE result.exhaustive
  <2>1. MarkedSwitch(f, result) = AllHandled(g)
    BY <1>4 DEF MarkedSwitch, g
  <2>2. /\ AllHandled(g) \in Finders(V) /\ Consistent(AllHandled(g)) /\ Marks(g, AllHandled(g))
        /\ AllHandled(g).check = g.check
        /\ AllHandled(g).covered = text.domain.values
    BY <1>1, AllHandledMarks
  <2> QED BY <1>1, <1>4, <2>1, <2>2 DEF Marks, Decided, Right
<1>5. CASE ~result.exhaustive /\ ~text.domain.finite
  <2>1. MarkedSwitch(f, result) = g
    BY <1>5 DEF MarkedSwitch, g
  <2> QED BY <1>1, <2>1 DEF Decided
<1>6. CASE ~result.exhaustive /\ text.domain.finite
  <2>1. MarkedSwitch(f, result) = h
    BY <1>6 DEF MarkedSwitch, g, h
  <2>2. Consistent(h) /\ Marks(f, h)
    BY <1>2, <1>3 DEF Consistent, Marks
  <2>3. \A values : Decided(f, values) /\ Right(result, values) => Decided(h, values)
    BY <1>2, <1>6 DEF Decided, Right
  <2> QED BY <1>2, <2>1, <2>2, <2>3
<1> QED BY <1>4, <1>5, <1>6

\* Each else-if in turn.
MarksInTurn(f, chain, n, g) ==
  g = [k \in 0..n |->
         IF k = 0 THEN f ELSE Marked(g[k - 1], AnalyzeIfChain(FromElseIf(chain, k), text.domain))]

LEMMA MarksExist ==
  ASSUME NEW f, NEW chain, NEW n \in Nat
  PROVE  \E g : MarksInTurn(f, chain, n, g)
<1> DEFINE mark(k, h) == Marked(h, AnalyzeIfChain(FromElseIf(chain, k), text.domain))
           InTurn(k, g) == g = [i \in 0..k |-> IF i = 0 THEN f ELSE mark(i, g[i - 1])]
           T == {k \in Nat : \E g : InTurn(k, g)}
<1> HIDE DEF mark
<1>1. 0 \in T
  <2> DEFINE g == [i \in 0..0 |-> f]
  <2>1. InTurn(0, g)
    OBVIOUS
  <2> QED BY <2>1
<1>2. ASSUME NEW k \in T PROVE k + 1 \in T
  <2>1. k \in Nat
    OBVIOUS
  <2>2. PICK g : InTurn(k, g)
    OBVIOUS
  <2> DEFINE h == [i \in 0..(k + 1) |-> IF i = k + 1 THEN mark(k + 1, g[k]) ELSE g[i]]
  <2>3. ASSUME NEW i \in 0..(k + 1)
        PROVE  h[i] = IF i = 0 THEN f ELSE mark(i, h[i - 1])
    <3>1. \A j \in 0..k : h[j] = g[j]
      BY <2>1
    <3>2. CASE i = k + 1
      BY <2>1, <3>1, <3>2
    <3>3. CASE i # k + 1
      <4>1. i \in 0..k /\ (i # 0 => i - 1 \in 0..k)
        BY <2>1, <3>3
      <4>2. g[i] = IF i = 0 THEN f ELSE mark(i, g[i - 1])
        BY <2>2, <4>1
      <4> QED BY <3>1, <4>1, <4>2
    <3> QED BY <3>2, <3>3
  <2>4. InTurn(k + 1, h)
    <3>1. h = [i \in 0..(k + 1) |-> h[i]]
      OBVIOUS
    <3> HIDE DEF h
    <3> QED BY <2>3, <3>1
  <2> HIDE DEF h, InTurn
  <2> QED BY <2>1, <2>4
<1>3. T = Nat
  <2> HIDE DEF T
  <2>1. T \in SUBSET Nat
    BY DEF T
  <2> QED BY <1>1, <1>2, <2>1, NatSetInduction
<1> QED BY <1>3 DEF MarksInTurn, mark

\* An if marks like its checks one after the other.
LEMMA MarkedIfMarks ==
  ASSUME NEW V, NEW f \in Finders(V), Consistent(f), NEW chain, Len(chain.conds) \in Nat
  PROVE  /\ MarkedIf(f, chain) \in Finders(V) /\ Consistent(MarkedIf(f, chain))
         /\ Marks(f, MarkedIf(f, chain)) /\ (Len(chain.conds) # 0 => MarkedIf(f, chain).check)
         /\ \A values :
              /\ Decided(f, values)
              /\ \A k \in 1..Len(chain.conds) :
                   Right(AnalyzeIfChain(FromElseIf(chain, k), text.domain), values)
              => Decided(MarkedIf(f, chain), values)
<1> DEFINE n == Len(chain.conds)
           result(k) == AnalyzeIfChain(FromElseIf(chain, k), text.domain)
           Solves(g) == g = [k \in 0..n |-> IF k = 0 THEN f ELSE Marked(g[k - 1], result(k))]
           marked == CHOOSE g : Solves(g)
<1>1. \E g : Solves(g)
  <2>1. \E g : MarksInTurn(f, chain, n, g)
    BY MarksExist
  <2> QED BY <2>1 DEF MarksInTurn
<1>2. Solves(marked)
  <2> HIDE DEF Solves
  <2> QED BY <1>1
<1>3. MarkedIf(f, chain) = marked[n]
  BY DEF MarkedIf
<1> HIDE DEF marked, result
<1>4. marked[0] = f /\ \A k \in 1..n : marked[k] = Marked(marked[k - 1], result(k))
  <2>1. n \in Nat /\ 0 \in 0..n /\ \A k \in 1..n : k \in 0..n /\ k # 0
    OBVIOUS
  <2> HIDE DEF n
  <2> QED BY <1>2, <2>1
<1> HIDE DEF n
<1> DEFINE Fine(k) ==
             /\ marked[k] \in Finders(V) /\ Consistent(marked[k]) /\ Marks(f, marked[k])
             /\ k # 0 => marked[k].check
             /\ \A values : Decided(f, values) /\ (\A i \in 1..n : Right(result(i), values))
                              => Decided(marked[k], values)
           T == {k \in Nat : k <= n => Fine(k)}
<1>5. 0 \in T
  BY <1>4 DEF Marks
<1>6. ASSUME NEW k \in T PROVE k + 1 \in T
  <2> SUFFICES ASSUME k + 1 <= n PROVE Fine(k + 1)
    OBVIOUS
  <2>1. k \in Nat /\ k <= n /\ k + 1 \in 1..n /\ (k + 1) - 1 = k /\ k + 1 # 0
    BY DEF n
  <2>2. Fine(k)
    <3> HIDE DEF Fine
    <3> QED BY <2>1
  <2> DEFINE g == marked[k]
             h == marked[k + 1]
  <2>3. h = Marked(g, result(k + 1))
    BY <1>4, <2>1
  <2> HIDE DEF g, h
  <2>4. g \in Finders(V) /\ Consistent(g)
    BY <2>2 DEF g
  <2>5. /\ h \in Finders(V) /\ Consistent(h) /\ Marks(g, h) /\ h.check
        /\ \A values : Decided(g, values) /\ Right(result(k + 1), values) => Decided(h, values)
    BY <2>3, <2>4, MarkedMarks
  <2>6. Marks(f, h)
    BY <2>2, <2>5 DEF Marks, g
  <2>7. \A values : Decided(f, values) /\ (\A i \in 1..n : Right(result(i), values))
                      => Decided(h, values)
    BY <2>1, <2>2, <2>5 DEF g
  <2> QED BY <2>1, <2>5, <2>6, <2>7 DEF h
<1>7. T = Nat
  <2> HIDE DEF T
  <2>1. T \in SUBSET Nat
    BY DEF T
  <2> QED BY <1>5, <1>6, <2>1, NatSetInduction
<1>8. n \in Nat /\ n <= n
  BY DEF n
<1>9. Fine(n)
  <2> HIDE DEF Fine
  <2> QED BY <1>7, <1>8
<1> QED BY <1>3, <1>8, <1>9 DEF n, result

-----------------------------------------------------------------------------
\* The checks are right about what the run decides.

\* The conditions of a statement mean what the evaluator takes them for.
Sure(s) ==
  \A cond \in ConditionsOf(s), value \in text.domain.values \cup text.domain.failures :
    IsTrueOf(cond, value) => SurelyTrue(cond, value)

LEMMA ValuesKeptMakeSure ==
  ASSUME WellFormedText(text), ValuesKept, NEW i \in DOMAIN text.statements
  PROVE  Sure(text.statements[i])
<1> SUFFICES ASSUME NEW cond \in ConditionsOf(text.statements[i]),
                    NEW value \in text.domain.values \cup text.domain.failures,
                    IsTrueOf(cond, value)
             PROVE  SurelyTrue(cond, value)
  BY DEF Sure
<1>1. WellFormed(cond) /\ value \in Int
  BY DEF WellFormedText, WellFormedStatement
<1>2. KeepsValues([cond |-> cond, value |-> value, type |-> IntType])
  BY DEF ValuesKept
<1> QED BY <1>1, <1>2, TrueIsSure

\* What missing values leave is decided.
LEMMA MissingIsRight ==
  ASSUME NEW missing, NEW values, text.domain.finite, text.domain.values \ missing \subseteq values
  PROVE  Right(Missing(missing), values)
  BY DEF Right, Missing

LEMMA OpenEndedIsRight ==
  ASSUME NEW values, ~text.domain.finite
  PROVE  Right(OpenEnded, values)
  BY DEF Right, OpenEnded

\* The ifs of a chain that is not settled count only what their conditions decide.
LEMMA IfIsRight ==
  ASSUME NEW s, s.op = "if", Sure(s), ~Settles(s), NEW values, Decides(s) \subseteq values,
         s.chain.conds \in Seq(ConditionsOf(s)) \ {<<>>},
         s.chain = [conds |-> s.chain.conds, otherwise |-> s.chain.otherwise,
                    bodies |-> s.chain.bodies],
         s.chain.bodies \in [DOMAIN s.chain.conds -> SUBSET BodyStatements],
         NEW k \in 1..Len(s.chain.conds)
  PROVE  Right(AnalyzeIfChain(FromElseIf(s.chain, k), text.domain), values)
<1> DEFINE conds == s.chain.conds
           n == Len(conds)
           rest == FromElseIf(s.chain, k)
           sub == SubSeq(conds, k, n)
<1>1. n \in Nat /\ n # 0 /\ DOMAIN conds = 1..n
  OBVIOUS
<1>2. rest.conds = sub /\ rest.otherwise = s.chain.otherwise
  BY DEF FromElseIf
<1>body. rest.bodies[1] = s.chain.bodies[k]
  <2> DEFINE bodies == s.chain.bodies
  <2>1. bodies \in Seq(SUBSET BodyStatements) /\ Len(bodies) = n
    <3>1. bodies \in [1..n -> SUBSET BodyStatements]
      BY <1>1
    <3> HIDE DEF bodies, n
    <3> QED BY <1>1, <3>1
  <2>2. rest.bodies = SubSeq(bodies, k, Len(bodies))
    BY DEF FromElseIf
  <2>3. SubSeq(bodies, k, n)[1] = bodies[k]
    <3>1. k \in 1..n
      OBVIOUS
    <3> HIDE DEF bodies, n, conds
    <3> QED BY <1>1, <2>1, <3>1
  <2> QED BY <2>1, <2>2, <2>3
<1>3. \A j \in DOMAIN sub : \E i \in 1..n : sub[j] = conds[i]
  <2>1. DOMAIN sub = 1..(n - k + 1) /\ \A j \in 1..(n - k + 1) : sub[j] = conds[k + j - 1]
    BY <1>1
  <2> HIDE DEF sub
  <2>2. \A j \in 1..(n - k + 1) : k + j - 1 \in 1..n
    BY <1>1
  <2> QED BY <2>1, <2>2
<1>4. sub[1] = conds[k]
  BY <1>1
<1>5. conds[k] \in ConditionsOf(s)
  BY <1>1 DEF ConditionsOf
<1> HIDE DEF rest, sub
<1>6. ~s.chain.otherwise
  BY DEF Settles
<1>7. ~SettledIf(rest, text.domain)
  <2>1. CASE StatementExits(s.chain.bodies[k])
    <3>1. CASE text.domain.fallible
      <4>1. ~(/\ text.domain.failures # {}
              /\ \A value \in text.domain.failures : SurelyTrue(conds[k], value))
        BY <1>1, <2>1, <3>1 DEF Settles
      <4>2. ~(/\ text.domain.failures # {}
              /\ \A value \in text.domain.failures : IsTrueOf(conds[k], value))
        <5> HIDE DEF conds
        <5> QED BY <4>1, <1>5 DEF Sure
      <4>3. ~ExitsOnAllFailures(rest, text.domain)
        BY <1>2, <1>4, <4>2 DEF ExitsOnAllFailures
      <4> QED BY <1>2, <1>6, <3>1, <4>3 DEF SettledIf
    <3>2. CASE ~text.domain.fallible
      <4>1. ~IsGuardCondition(conds[k])
        BY <1>1, <2>1, <3>2 DEF Settles
      <4>2. ~IsGuardCondition(rest.conds[1])
        BY <4>1, <1>2, <1>4
      <4> QED BY <1>2, <1>6, <3>2, <4>2 DEF SettledIf
    <3> QED BY <3>1, <3>2
  <2>2. CASE ~StatementExits(s.chain.bodies[k])
    <3>1. ~StatementExits(rest.bodies[1])
      BY <1>body, <2>2
    <3> QED BY <1>2, <1>6, <3>1 DEF SettledIf, ExitsOnAllFailures
  <2> QED BY <2>1, <2>2
<1>8. CASE ~text.domain.finite
  <2>1. AnalyzeIfChain(rest, text.domain) = OpenEnded
    BY <1>7, <1>8 DEF AnalyzeIfChain
  <2> QED BY <1>8, <2>1, OpenEndedIsRight DEF rest
<1>9. CASE text.domain.finite
  <2> DEFINE missing == {value \in text.domain.values :
                           \A j \in DOMAIN rest.conds : ~IsTrueOf(rest.conds[j], value)}
  <2>1. AnalyzeIfChain(rest, text.domain) = Missing(missing)
    BY <1>7, <1>9 DEF AnalyzeIfChain
  <2>2. ASSUME NEW value \in text.domain.values \ missing
        PROVE  value \in values
    <3>1. PICK j \in DOMAIN sub : IsTrueOf(sub[j], value)
      BY <1>2
    <3>2. PICK i \in 1..n : sub[j] = conds[i]
      BY <1>3
    <3>3. conds[i] \in ConditionsOf(s) /\ i \in DOMAIN s.chain.conds
      BY <1>1 DEF ConditionsOf
    <3>4. SurelyTrue(s.chain.conds[i], value)
      BY <3>1, <3>2, <3>3 DEF Sure
    <3>5. value \in Decides(s)
      BY <3>3, <3>4 DEF Decides
    <3> QED BY <3>5
  <2> HIDE DEF missing
  <2> QED BY <1>9, <2>1, <2>2, MissingIsRight DEF rest
<1> QED BY <1>8, <1>9

LEMMA ConditionIsRight ==
  ASSUME NEW s, s.op = "condition", Sure(s), NEW values, Decides(s) \subseteq values
  PROVE  Right(AnalyzeCondition(s.cond, text.domain), values)
<1>1. CASE ~text.domain.finite
  BY <1>1, OpenEndedIsRight DEF AnalyzeCondition
<1>2. CASE text.domain.finite
  <2> DEFINE missing == {value \in text.domain.values : ~IsTrueOf(s.cond, value)}
  <2>1. AnalyzeCondition(s.cond, text.domain) = Missing(missing)
    BY <1>2 DEF AnalyzeCondition
  <2>2. ASSUME NEW value \in text.domain.values \ missing
        PROVE  value \in values
    <3>1. SurelyTrue(s.cond, value)
      BY DEF Sure, ConditionsOf
    <3>2. value \in Decides(s)
      BY <3>1 DEF Decides
    <3> QED BY <3>2
  <2> HIDE DEF missing
  <2> QED BY <1>2, <2>1, <2>2, MissingIsRight
<1> QED BY <1>1, <1>2

LEMMA SwitchIsRight ==
  ASSUME NEW s, s.op = "switch", s.direct, ~Settles(s), NEW values, Decides(s) \subseteq values,
         text.domain.values \subseteq Int
  PROVE  Right(AnalyzeSwitch(s.switch, text.domain), values)
<1>1. ~s.switch.default
  BY DEF Settles
<1>2. CASE ~text.domain.finite
  BY <1>1, <1>2, OpenEndedIsRight DEF AnalyzeSwitch
<1>3. CASE text.domain.finite
  <2> DEFINE missing == {value \in text.domain.values :
                           \A case \in s.switch.cases : ~(case.low <= value /\ value <= case.high)}
  <2>1. AnalyzeSwitch(s.switch, text.domain) = Missing(missing)
    BY <1>1, <1>3 DEF AnalyzeSwitch
  <2>2. ASSUME NEW value \in text.domain.values \ missing
        PROVE  value \in values
    <3>1. PICK case \in s.switch.cases : case.low <= value /\ value <= case.high
      OBVIOUS
    <3>2. value \in case.low..case.high
      BY <3>1
    <3>3. value \in Decides(s)
      BY <3>2 DEF Decides
    <3> QED BY <3>3
  <2> HIDE DEF missing
  <2> QED BY <1>3, <2>1, <2>2, MissingIsRight
<1> QED BY <1>2, <1>3

-----------------------------------------------------------------------------
\* A parameter is checked when some function the value reaches checks it.

\* The functions reached from one without entering those of a set again.
ReachAvoiding(callee, active) ==
  {f \in DOMAIN text.passing :
     \A reached \in SUBSET DOMAIN text.passing :
       callee \in reached /\ (\A g \in reached : text.passing[g] \ active \subseteq reached)
         => f \in reached}

\* What the recursive search of function_checks_parameter answers.
ReachesCheck(f, active) ==
  f \notin active /\ ReachAvoiding(f, active) \cap text.checking # {}

LEMMA ReachAvoidingClosed ==
  ASSUME NEW callee \in DOMAIN text.passing, NEW active,
         \A f \in DOMAIN text.passing : text.passing[f] \subseteq DOMAIN text.passing
  PROVE  /\ callee \in ReachAvoiding(callee, active)
         /\ \A g \in ReachAvoiding(callee, active) :
              text.passing[g] \ active \subseteq ReachAvoiding(callee, active)
  BY DEF ReachAvoiding

\* The search through the callees one by one finds just that.
LEMMA ReachesCheckStep ==
  ASSUME NEW f \in DOMAIN text.passing, NEW active \in SUBSET DOMAIN text.passing,
         \A g \in DOMAIN text.passing : text.passing[g] \subseteq DOMAIN text.passing
  PROVE  ReachesCheck(f, active) <=>
           /\ f \notin active
           /\ \/ f \in text.checking
              \/ \E next \in text.passing[f] : ReachesCheck(next, active \cup {f})
<1> DEFINE D == DOMAIN text.passing
           more == active \cup {f}
<1> SUFFICES ASSUME f \notin active
             PROVE  ReachAvoiding(f, active) \cap text.checking # {} <=>
                      \/ f \in text.checking
                      \/ \E next \in text.passing[f] : ReachesCheck(next, more)
  BY DEF ReachesCheck
<1>1. f \in ReachAvoiding(f, active)
  BY ReachAvoidingClosed
<1>2. ASSUME NEW next \in text.passing[f], ReachesCheck(next, more)
      PROVE  ReachAvoiding(f, active) \cap text.checking # {}
  <2>1. PICK d \in ReachAvoiding(next, more) : d \in text.checking
    BY <1>2 DEF ReachesCheck
  <2>2. next \notin more /\ next \in D
    BY <1>2 DEF ReachesCheck
  <2>3. d \in ReachAvoiding(f, active)
    <3> SUFFICES ASSUME NEW reached \in SUBSET D, f \in reached,
                        \A g \in reached : text.passing[g] \ active \subseteq reached
                 PROVE  d \in reached
      BY <2>1 DEF ReachAvoiding
    <3>1. next \in reached
      BY <2>2
    <3>2. \A g \in reached : text.passing[g] \ more \subseteq reached
      OBVIOUS
    <3> QED BY <2>1, <3>1, <3>2 DEF ReachAvoiding
  <2> QED BY <2>1, <2>3
<1>3. ASSUME NEW d \in ReachAvoiding(f, active), d \in text.checking, f \notin text.checking
      PROVE  \E next \in text.passing[f] : ReachesCheck(next, more)
  <2> DEFINE nexts == text.passing[f] \ more
             beyond == {f} \cup UNION {ReachAvoiding(next, more) : next \in nexts}
  <2>1. beyond \in SUBSET D
    BY DEF ReachAvoiding
  <2>2. ASSUME NEW g \in beyond PROVE text.passing[g] \ active \subseteq beyond
    <3>1. CASE g = f
      <4>1. \A next \in nexts : next \in ReachAvoiding(next, more)
        BY ReachAvoidingClosed
      <4> QED BY <3>1, <4>1
    <3>2. CASE g # f
      <4>1. PICK next \in nexts : g \in ReachAvoiding(next, more)
        BY <3>2
      <4>2. text.passing[g] \ more \subseteq ReachAvoiding(next, more)
        BY <4>1, ReachAvoidingClosed
      <4> QED BY <4>2
    <3> QED BY <3>1, <3>2
  <2>3. d \in beyond
    <3> HIDE DEF beyond
    <3>1. f \in beyond
      BY DEF beyond
    <3> QED BY <2>1, <2>2, <3>1 DEF ReachAvoiding
  <2>4. PICK next \in nexts : d \in ReachAvoiding(next, more)
    BY <1>3, <2>3
  <2> QED BY <1>3, <2>4 DEF ReachesCheck
<1> QED BY <1>1, <1>2, <1>3

\* A table of answers, for each set of functions being looked at.
Answers(a) ==
  \A active \in SUBSET DOMAIN text.passing, f \in DOMAIN text.passing :
    a[active][f] <=> /\ f \notin active
                     /\ \/ f \in text.checking
                        \/ \E next \in text.passing[f] : a[active \cup {f}][next]

\* There is only one: two that answer alike for all larger sets answer alike.
LEMMA AnswersAreUnique ==
  ASSUME IsFiniteSet(DOMAIN text.passing),
         \A g \in DOMAIN text.passing : text.passing[g] \subseteq DOMAIN text.passing,
         NEW a, NEW b, Answers(a), Answers(b),
         NEW active \in SUBSET DOMAIN text.passing
  PROVE  \A f \in DOMAIN text.passing : a[active][f] <=> b[active][f]
<1> DEFINE D == DOMAIN text.passing
           Alike(s) == \A f \in D : a[s][f] <=> b[s][f]
           T == {n \in Nat : \A s \in SUBSET D : Cardinality(D \ s) = n => Alike(s)}
<1>1. ASSUME NEW s \in SUBSET D, NEW f \in D \ s
      PROVE  /\ s \cup {f} \in SUBSET D
             /\ IsFiniteSet(D \ s) /\ Cardinality(D \ (s \cup {f})) = Cardinality(D \ s) - 1
             /\ Cardinality(D \ s) \in Nat \ {0}
  <2>1. IsFiniteSet(D \ s)
    BY FS_Difference
  <2>2. D \ (s \cup {f}) = (D \ s) \ {f}
    OBVIOUS
  <2>3. Cardinality((D \ s) \ {f}) = Cardinality(D \ s) - 1
    <3> DEFINE rest == D \ s
    <3>1. f \in rest /\ IsFiniteSet(rest)
      BY <2>1
    <3> HIDE DEF rest
    <3>2. Cardinality(rest \ {f}) = Cardinality(rest) - 1
      BY <3>1, FS_RemoveElement
    <3> QED BY <3>2 DEF rest
  <2>4. Cardinality(D \ s) \in Nat /\ Cardinality(D \ s) # 0
    BY <2>1, FS_CardinalityType, FS_EmptySet
  <2> QED BY <2>1, <2>2, <2>3, <2>4
<1>2. ASSUME NEW s \in SUBSET D, \A f \in D \ s : Alike(s \cup {f})
      PROVE  Alike(s)
  <2> SUFFICES ASSUME NEW f \in D PROVE a[s][f] <=> b[s][f]
    OBVIOUS
  <2>1. CASE f \in s
    BY <2>1 DEF Answers
  <2>2. CASE f \notin s
    <3>1. Alike(s \cup {f}) /\ text.passing[f] \subseteq D
      BY <1>2, <2>2
    <3>2. (\E next \in text.passing[f] : a[s \cup {f}][next])
            <=> (\E next \in text.passing[f] : b[s \cup {f}][next])
      BY <3>1
    <3>3. a[s][f] <=> f \in text.checking \/ \E next \in text.passing[f] : a[s \cup {f}][next]
      BY <2>2 DEF Answers
    <3>4. b[s][f] <=> f \in text.checking \/ \E next \in text.passing[f] : b[s \cup {f}][next]
      BY <2>2 DEF Answers
    <3> QED BY <3>2, <3>3, <3>4
  <2> QED BY <2>1, <2>2
<1> HIDE DEF Alike
<1>3. 0 \in T
  <2> SUFFICES ASSUME NEW s \in SUBSET D, Cardinality(D \ s) = 0 PROVE Alike(s)
    OBVIOUS
  <2> QED BY <1>1, <1>2
<1>4. ASSUME NEW n \in T PROVE n + 1 \in T
  <2> SUFFICES ASSUME NEW s \in SUBSET D, Cardinality(D \ s) = n + 1 PROVE Alike(s)
    OBVIOUS
  <2>1. ASSUME NEW f \in D \ s PROVE Alike(s \cup {f})
    <3>1. n \in Nat
      OBVIOUS
    <3>2. s \cup {f} \in SUBSET D /\ Cardinality(D \ (s \cup {f})) = Cardinality(D \ s) - 1
      BY <1>1
    <3>3. Cardinality(D \ (s \cup {f})) = n
      BY <3>1, <3>2
    <3> QED BY <3>2, <3>3
  <2> QED BY <1>2, <2>1
<1>5. T = Nat
  <2> HIDE DEF T
  <2>1. T \in SUBSET Nat
    BY DEF T
  <2> QED BY <1>3, <1>4, <2>1, NatSetInduction
<1>6. Cardinality(D \ active) \in Nat
  BY FS_Difference, FS_CardinalityType
<1> QED BY <1>5, <1>6 DEF Alike

\* Whatever circles the calls make.
LEMMA ParameterChecks ==
  ASSUME IsFiniteSet(DOMAIN text.passing),
         \A g \in DOMAIN text.passing : text.passing[g] \subseteq DOMAIN text.passing,
         NEW callee \in DOMAIN text.passing
  PROVE  ChecksParameter(callee) <=> Reach(callee) \cap text.checking # {}
<1> DEFINE D == DOMAIN text.passing
           Solves(c) ==
             c = [active \in SUBSET D |->
                    [f \in D |-> /\ f \notin active
                                 /\ \/ f \in text.checking
                                    \/ \E next \in text.passing[f] : c[active \cup {f}][next]]]
           checks == CHOOSE c : Solves(c)
           right == [active \in SUBSET D |-> [f \in D |-> ReachesCheck(f, active)]]
<1>1. Answers(right)
  <2> SUFFICES ASSUME NEW active \in SUBSET D, NEW f \in D
               PROVE  ReachesCheck(f, active) <=>
                        /\ f \notin active
                        /\ \/ f \in text.checking
                           \/ \E next \in text.passing[f] : right[active \cup {f}][next]
    BY DEF Answers
  <2>1. \A next \in text.passing[f] :
          right[active \cup {f}][next] = ReachesCheck(next, active \cup {f})
    OBVIOUS
  <2> HIDE DEF right
  <2> QED BY <2>1, ReachesCheckStep
<1>2. Solves(right)
  <2>1. \A active \in SUBSET D, f \in D : right[active][f] \in BOOLEAN
    BY DEF ReachesCheck
  <2>2. \A active \in SUBSET D, f \in D :
          right[active][f] = (/\ f \notin active
                              /\ \/ f \in text.checking
                                 \/ \E next \in text.passing[f] : right[active \cup {f}][next])
    <3> HIDE DEF right
    <3> QED BY <1>1, <2>1 DEF Answers
  <2>3. right = [active \in SUBSET D |-> [f \in D |-> right[active][f]]]
    OBVIOUS
  <2> HIDE DEF right
  <2> QED BY <2>2, <2>3
<1>3. Solves(checks)
  <2> HIDE DEF Solves, right
  <2> QED BY <1>2
<1>4. ChecksParameter(callee) = checks[{}][callee]
  BY DEF ChecksParameter
<1> HIDE DEF checks
<1>5. Answers(checks)
  <2> HIDE DEF right
  <2>1. ASSUME NEW active \in SUBSET D
        PROVE  checks[active] =
                 [f \in D |-> /\ f \notin active
                              /\ \/ f \in text.checking
                                 \/ \E next \in text.passing[f] : checks[active \cup {f}][next]]
    BY <1>3
  <2> QED BY <2>1 DEF Answers
<1>6. checks[{}][callee] <=> right[{}][callee]
  <2> HIDE DEF right
  <2>1. \A f \in D : checks[{}][f] <=> right[{}][f]
    <3> HIDE DEF Solves
    <3> QED BY <1>1, <1>5, AnswersAreUnique
  <2> QED BY <2>1
<1>7. right[{}][callee] <=> ReachAvoiding(callee, {}) \cap text.checking # {}
  BY DEF ReachesCheck
<1>8. ReachAvoiding(callee, {}) = Reach(callee)
  BY DEF ReachAvoiding, Reach
<1> QED BY <1>4, <1>6, <1>7, <1>8

-----------------------------------------------------------------------------
\* The invariant of the search.

\* The variables that have been given a value before statement n.
Known(n) ==
  {Result} \cup ({text.statements[j].to :
                    j \in {i \in 1..(n - 1) : text.statements[i].op \in {"declare", "assign"}}}
                 \ {"elsewhere"})

\* Nothing found yet that would keep a result from being called ignored.
Silent(f) == ~f.exhaustive /\ ~f.forwarded /\ ~f.check /\ ~f.use

\* What the search knows before statement n fits what the run did: h holds the
\* result, the values d are decided, st and rd say whether it is settled or read.
\* A search that has found nothing tracks all that hold the result.
Good(f, n, h, d, st, rd) ==
  /\ f \in Finders(Known(n)) /\ Consistent(f)
  /\ Followed /\ ~f.invalidated => f.tracked \subseteq h
  /\ Followed /\ ValuesKept /\ ~st => Decided(f, d)
  /\ Silent(f) => ~rd /\ h \subseteq f.tracked /\ (f.invalidated => f.tracked = {})

HandlerInv ==
  /\ \E family \in DOMAIN Texts : text \in Texts[family]
  /\ at \in Nat \ {0}
  /\ Good(finder, at, holding, decided, settled, read)
  /\ verdict # "none" => at > Len(text.statements) /\ verdict = Verdict(finder)

LEMMA TextFacts ==
  ASSUME HandlerInv
  PROVE  WellFormedText(text) /\ Len(text.statements) \in Nat
         /\ DOMAIN text.statements = 1..Len(text.statements) /\ Result # "elsewhere"
<1>1. WellFormedText(text) /\ Result # "elsewhere"
  BY TextAssumption DEF HandlerInv, TextAssumption
<1>2. text.statements \in Seq({text.statements[i] : i \in DOMAIN text.statements})
  BY <1>1 DEF WellFormedText
<1> QED BY <1>1, <1>2

\* What executing a statement does, kind by kind.
LEMMA Effects ==
  ASSUME NEW s, s.op \in StatementKinds, Execute(s)
  PROVE  /\ decided \subseteq decided' /\ (settled => settled') /\ (read => read')
         /\ s.op \in {"declare", "assign"} /\ Carries(s.from) =>
              holding' = holding \cup ({s.to} \ {"elsewhere"})
         /\ s.op \in {"declare", "assign"} /\ ~Carries(s.from) => holding' = holding \ {s.to}
         /\ s.op \in {"declare", "assign"} => (read' <=> read \/ (Reads(s.from) /\ ~Carries(s.from)))
         /\ s.op = "update" => /\ holding' = holding \ {s.to}
                               /\ read' <=> read \/ Reads(s.from) \/ s.to \in holding
         /\ s.op = "step" => holding' = holding \ {s.of} /\ (read' <=> read \/ s.of \in holding)
         /\ s.op = "share" => holding' \subseteq holding /\ (read' <=> read \/ s.of \in holding)
         /\ s.op \in {"use", "return"} => holding' = holding /\ (read' <=> read \/ Reads(s.from))
         /\ s.op \in {"pass", "if", "condition", "switch"} =>
              holding' = holding /\ (read' <=> read \/ s.of \in holding)
         /\ s.op \in {"if", "condition", "switch"} /\ s.of \in holding =>
              decided' = decided \cup Decides(s) /\ (Settles(s) => settled')
         /\ s.op = "pass" /\ s.of \in holding /\ Reach(s.callee) \cap text.checking # {} => settled'
<1>1. decided \subseteq decided' /\ (settled => settled') /\ (read => read')
  BY DEF Execute
<1>2. CASE s.op \in {"declare", "assign"}
  BY <1>1, <1>2 DEF Execute
<1>3. CASE s.op = "update"
  BY <1>1, <1>3 DEF Execute
<1>4. CASE s.op = "step"
  BY <1>1, <1>4 DEF Execute
<1>5. CASE s.op = "share"
  BY <1>1, <1>5 DEF Execute
<1>6. CASE s.op \in {"use", "return"}
  BY <1>1, <1>6 DEF Execute
<1>7. CASE s.op \in {"pass", "if", "condition", "switch"}
  BY <1>1, <1>7 DEF Execute
<1> QED BY <1>2, <1>3, <1>4, <1>5, <1>6, <1>7 DEF StatementKinds

\* Nothing that holds the result is left, and nothing comes to hold it again.
LEMMA NothingLeft ==
  ASSUME NEW s, s.op \in StatementKinds, Execute(s), holding = {}
  PROVE  holding' = {} /\ (read' <=> read)
<1>1. ~Carries(s.from) /\ ~Reads(s.from)
  BY DEF Carries, Reads
<1> QED BY <1>1, Effects DEF StatementKinds

LEMMA KnownGrows ==
  ASSUME HandlerInv, at <= Len(text.statements), NEW s, s = text.statements[at]
  PROVE  /\ Known(at) \subseteq Known(at + 1)
         /\ s.op \in {"declare", "assign"} /\ s.to # "elsewhere" => s.to \in Known(at + 1)
         /\ s.op = "declare" => s.to \notin Known(at) /\ s.to # "elsewhere"
<1>1. at \in 1..Len(text.statements) /\ WellFormedStatement(text, at) /\ at \in Nat
  BY TextFacts DEF HandlerInv, WellFormedText
<1>2. at \in 1..((at + 1) - 1) /\ \A j \in 1..(at - 1) : j \in 1..((at + 1) - 1)
  BY <1>1
<1>3. Known(at) \subseteq Known(at + 1)
  BY <1>2 DEF Known
<1>4. s.op \in {"declare", "assign"} /\ s.to # "elsewhere" => s.to \in Known(at + 1)
  BY <1>2 DEF Known
<1>5. ASSUME s.op = "declare"
      PROVE  s.to \notin Known(at) /\ s.to # "elsewhere"
  <2>1. /\ s.to \notin {Result, "elsewhere"}
        /\ \A j \in 1..(at - 1) :
             text.statements[j].op \in {"declare", "assign"} => text.statements[j].to # s.to
    BY <1>1, <1>5 DEF WellFormedStatement
  <2> QED BY <2>1 DEF Known
<1> QED BY <1>3, <1>4, <1>5

\* The search looks at statement s while the run executes it.
Visiting(s) ==
  /\ HandlerInv /\ at <= Len(text.statements) /\ s = text.statements[at]
  /\ ~finder.invalidated /\ Execute(s)

LEMMA VisitFacts ==
  ASSUME NEW s, Visiting(s)
  PROVE  /\ s.op \in StatementKinds
         /\ finder \in Finders(Known(at)) /\ finder \in Finders(Known(at + 1))
         /\ Consistent(finder)
         /\ Followed => finder.tracked \subseteq holding
         /\ Followed /\ ValuesKept /\ ~settled => Decided(finder, decided)
         /\ Silent(finder) => ~read /\ holding \subseteq finder.tracked
         /\ Followed => s.op # "share" /\ (s.op = "switch" => s.direct)
         /\ ValuesKept => Sure(s)
         /\ WellFormedStatement(text, at)
<1>1. HandlerInv /\ at \in DOMAIN text.statements /\ s = text.statements[at]
      /\ ~finder.invalidated
  BY TextFacts DEF Visiting, HandlerInv
<1>2. Good(finder, at, holding, decided, settled, read)
  BY <1>1 DEF HandlerInv
<1>3. finder \in Finders(Known(at + 1))
  <2>1. Known(at) \subseteq Known(at + 1)
    BY KnownGrows DEF Visiting
  <2> QED BY <1>2, <2>1 DEF Good, Finders
<1>4. WellFormedStatement(text, at)
  BY <1>1, TextFacts DEF WellFormedText
<1>5. Followed => s.op # "share" /\ (s.op = "switch" => s.direct)
  BY <1>1 DEF Followed
<1>6. ValuesKept => Sure(s)
  BY <1>1, TextFacts, ValuesKeptMakeSure
<1>7. s.op \in StatementKinds
  BY <1>1, <1>4 DEF WellFormedStatement
<1> QED BY <1>1, <1>2, <1>3, <1>4, <1>5, <1>6, <1>7 DEF Good

\* Mentioning tracked variables is a use.
LEMMA ReferencedFacts ==
  ASSUME NEW V, NEW f \in Finders(V), NEW names, NEW g, g = Referenced(f, names)
  PROVE  /\ g \in Finders(V) /\ g.tracked = f.tracked /\ g.covered = f.covered /\ g.check = f.check
         /\ g.forwarded = f.forwarded /\ g.exhaustive = f.exhaustive /\ g.invalidated = f.invalidated
         /\ g.use <=> f.use \/ (~f.invalidated /\ names \cap f.tracked # {})
  BY DEF Referenced, WithUse, Tracks, Finders

\* A finder that tracks more, or less, is one that goes on as before otherwise.
LEMMA TrackingFacts ==
  ASSUME NEW V, NEW f \in Finders(V), NEW x
  PROVE  /\ x \in V => AddTracked(f, x) \in Finders(V)
         /\ AddTracked(f, x).tracked = f.tracked \cup {x}
         /\ AddTracked(f, x).covered = f.covered /\ AddTracked(f, x).exhaustive = f.exhaustive
         /\ AddTracked(f, x).use = f.use /\ AddTracked(f, x).check = f.check
         /\ AddTracked(f, x).forwarded = f.forwarded
         /\ AddTracked(f, x).invalidated = f.invalidated
         /\ RemoveTracked(f, x) \in Finders(V)
         /\ RemoveTracked(f, x).tracked = f.tracked \ {x}
         /\ RemoveTracked(f, x).covered = f.covered /\ RemoveTracked(f, x).exhaustive = f.exhaustive
         /\ RemoveTracked(f, x).use = f.use /\ RemoveTracked(f, x).check = f.check
         /\ RemoveTracked(f, x).forwarded = f.forwarded
         /\ RemoveTracked(f, x).invalidated <=> f.tracked \subseteq {x}
  BY DEF AddTracked, RemoveTracked, Finders

LEMMA EndedFacts ==
  ASSUME NEW V, NEW f \in Finders(V)
  PROVE  /\ Ended(f) \in Finders(V) /\ Ended(f).invalidated /\ Ended(f).tracked = f.tracked
         /\ Ended(f).covered = f.covered /\ Ended(f).exhaustive = f.exhaustive
         /\ Ended(f).use = f.use /\ Ended(f).check = f.check /\ Ended(f).forwarded = f.forwarded
         /\ WithUse(f) \in Finders(V) /\ WithUse(f).use /\ WithUse(f).tracked = f.tracked
         /\ WithUse(f).covered = f.covered /\ WithUse(f).exhaustive = f.exhaustive
         /\ WithUse(f).check = f.check /\ WithUse(f).forwarded = f.forwarded
         /\ WithUse(f).invalidated = f.invalidated
  BY DEF Ended, WithUse, Finders

\* What is neither handled nor settled by a statement stays as it was.
LEMMA StillDecided ==
  ASSUME NEW s, Visiting(s), NEW g, g.covered = finder.covered, g.exhaustive = finder.exhaustive
  PROVE  /\ Consistent(g)
         /\ Followed /\ ValuesKept /\ ~settled' => Decided(g, decided')
  BY VisitFacts, Effects DEF Visiting, Consistent, Decided

LEMMA DeclStmtGood ==
  ASSUME NEW s, Visiting(s), s.op = "declare"
  PROVE  Good(DeclStmt(finder, s), at + 1, holding', decided', settled', read')
<1> DEFINE V == Known(at + 1)
           g == DeclStmt(finder, s)
<1>1. /\ finder \in Finders(Known(at)) /\ finder \in Finders(V)
      /\ Followed => finder.tracked \subseteq holding
      /\ Silent(finder) => ~read /\ holding \subseteq finder.tracked
      /\ Execute(s) /\ s.op \in StatementKinds /\ ~finder.invalidated
  BY VisitFacts DEF Visiting
<1>2. s.to \in V /\ s.to \notin Known(at) /\ s.to # "elsewhere"
  BY KnownGrows DEF Visiting
<1>3. s.to \notin finder.tracked
  BY <1>1, <1>2 DEF Finders
<1>4. /\ Carries(s.from) => holding' = holding \cup {s.to}
      /\ ~Carries(s.from) => holding' = holding \ {s.to}
      /\ read' <=> read \/ (Reads(s.from) /\ ~Carries(s.from))
  BY <1>1, <1>2, Effects
<1>5. CASE Forwards(finder, s.from)
  <2>1. g = AddTracked(finder, s.to)
    BY <1>5 DEF DeclStmt
  <2>2. /\ g \in Finders(V) /\ g.tracked = finder.tracked \cup {s.to}
        /\ g.covered = finder.covered /\ g.exhaustive = finder.exhaustive
        /\ g.use = finder.use /\ g.check = finder.check
        /\ g.forwarded = finder.forwarded /\ g.invalidated = finder.invalidated
    BY <1>1, <1>2, <2>1, TrackingFacts
  <2> HIDE DEF g
  <2>3. Followed => g.tracked \subseteq holding'
    BY <1>1, <1>4, <1>5, <2>2 DEF Forwards, Tracks, Carries
  <2>4. Silent(g) => ~read' /\ holding' \subseteq g.tracked
    BY <1>1, <1>4, <1>5, <2>2 DEF Silent, Forwards, Tracks, Carries, Reads
  <2>9. Good(g, at + 1, holding', decided', settled', read')
    BY <1>1, <2>2, <2>3, <2>4, StillDecided DEF Good
  <2> QED BY <2>9 DEF g
<1>6. CASE ~Forwards(finder, s.from) /\ Mentions(finder, s.from)
  <2>1. g = Ended(WithUse(finder))
    BY <1>6 DEF DeclStmt
  <2>2. /\ g \in Finders(V) /\ g.covered = finder.covered /\ g.exhaustive = finder.exhaustive
        /\ g.use /\ g.invalidated
    BY <1>1, <2>1, EndedFacts
  <2> HIDE DEF g
  <2>9. Good(g, at + 1, holding', decided', settled', read')
    BY <2>2, StillDecided DEF Good, Silent
  <2> QED BY <2>9 DEF g
<1>7. CASE ~Forwards(finder, s.from) /\ ~Mentions(finder, s.from)
  <2>1. g = finder
    BY <1>7 DEF DeclStmt
  <2> HIDE DEF g
  <2>2. Followed => g.tracked \subseteq holding'
    BY <1>1, <1>3, <1>4, <2>1
  <2>3. Silent(g) => ~read' /\ holding' \subseteq g.tracked
    BY <1>1, <1>4, <1>7, <2>1 DEF Mentions, Tracks, Carries, Reads
  <2>9. Good(g, at + 1, holding', decided', settled', read')
    BY <1>1, <2>1, <2>2, <2>3, StillDecided DEF Good
  <2> QED BY <2>9 DEF g
<1> QED BY <1>5, <1>6, <1>7

LEMMA AssignmentGood ==
  ASSUME NEW s, Visiting(s), s.op \in {"assign", "update"}
  PROVE  Good(Assignment(finder, s), at + 1, holding', decided', settled', read')
<1> DEFINE V == Known(at + 1)
           names == {s.to} \cup Named(s.from)
           g == Assignment(finder, s)
           lost == IF s.op = "update" \/ Mentions(finder, s.from) THEN WithUse(finder) ELSE finder
<1>1. /\ finder \in Finders(Known(at)) /\ finder \in Finders(V)
      /\ Followed => finder.tracked \subseteq holding
      /\ Silent(finder) => ~read /\ holding \subseteq finder.tracked
      /\ Execute(s) /\ s.op \in StatementKinds /\ ~finder.invalidated
  BY VisitFacts DEF Visiting
<1>2. s.op = "assign" /\ s.to # "elsewhere" => s.to \in V
  BY KnownGrows DEF Visiting
<1>4. /\ s.op = "assign" /\ Carries(s.from) => holding' = holding \cup ({s.to} \ {"elsewhere"})
      /\ ~(s.op = "assign" /\ Carries(s.from)) => holding' = holding \ {s.to}
      /\ s.op = "assign" => (read' <=> read \/ (Reads(s.from) /\ ~Carries(s.from)))
      /\ s.op = "update" => (read' <=> read \/ Reads(s.from) \/ s.to \in holding)
  BY <1>1, Effects
<1>5. CASE s.op = "assign" /\ s.to # "elsewhere" /\ Forwards(finder, s.from)
  <2> DEFINE h == AddTracked(finder, s.to)
  <2>1. g = Referenced(h, names)
    BY <1>5 DEF Assignment
  <2>2. /\ h \in Finders(V) /\ h.tracked = finder.tracked \cup {s.to}
        /\ h.covered = finder.covered /\ h.exhaustive = finder.exhaustive
        /\ h.invalidated = finder.invalidated
    BY <1>1, <1>2, <1>5, TrackingFacts
  <2> HIDE DEF g, h
  <2>3. /\ g \in Finders(V) /\ g.tracked = h.tracked /\ g.invalidated = h.invalidated /\ g.use
        /\ g.covered = h.covered /\ g.exhaustive = h.exhaustive
    <3>1. names \cap h.tracked # {}
      BY <2>2
    <3> HIDE DEF names
    <3> QED BY <1>1, <2>1, <2>2, <3>1, ReferencedFacts
  <2>4. Followed => g.tracked \subseteq holding'
    BY <1>1, <1>4, <1>5, <2>2, <2>3 DEF Forwards, Tracks, Carries
  <2>9. Good(g, at + 1, holding', decided', settled', read')
    BY <2>2, <2>3, <2>4, StillDecided DEF Good, Silent
  <2> QED BY <2>9 DEF g
<1>6. CASE ~(s.op = "assign" /\ s.to # "elsewhere" /\ Forwards(finder, s.from))
             /\ Tracks(finder, s.to)
  <2> DEFINE h == RemoveTracked(lost, s.to)
  <2>1. g = Referenced(h, names)
    BY <1>6 DEF Assignment
  <2>2. /\ lost \in Finders(V) /\ lost.tracked = finder.tracked /\ lost.covered = finder.covered
        /\ lost.exhaustive = finder.exhaustive /\ lost.check = finder.check
        /\ lost.forwarded = finder.forwarded
        /\ lost.use <=> finder.use \/ s.op = "update" \/ Mentions(finder, s.from)
    BY <1>1, EndedFacts
  <2> HIDE DEF lost
  <2>3. /\ h \in Finders(V) /\ h.tracked = finder.tracked \ {s.to}
        /\ h.covered = finder.covered /\ h.exhaustive = finder.exhaustive
        /\ h.use = lost.use /\ h.check = finder.check /\ h.forwarded = finder.forwarded
        /\ h.invalidated <=> finder.tracked \subseteq {s.to}
    BY <2>2, TrackingFacts
  <2> HIDE DEF g, h
  <2>4. /\ g \in Finders(V) /\ g.tracked = h.tracked /\ g.invalidated = h.invalidated
        /\ g.covered = h.covered /\ g.exhaustive = h.exhaustive /\ g.check = h.check
        /\ g.forwarded = h.forwarded /\ (h.use => g.use)
    BY <2>1, <2>3, ReferencedFacts
  <2>5. Followed => g.tracked \subseteq holding'
    BY <1>1, <1>4, <2>3, <2>4
  <2>6. ASSUME Silent(g)
        PROVE  ~read' /\ holding' \subseteq g.tracked /\ (g.invalidated => g.tracked = {})
    <3>1. ~lost.use /\ Silent(finder)
      BY <2>2, <2>3, <2>4, <2>6 DEF Silent
    <3>2. s.op = "assign" /\ ~Mentions(finder, s.from)
      BY <2>2, <3>1
    <3>3. ~Carries(s.from) /\ ~Reads(s.from)
      BY <1>1, <3>1, <3>2 DEF Mentions, Tracks, Carries, Reads
    <3> QED BY <1>1, <1>4, <2>3, <2>4, <3>1, <3>2, <3>3
  <2>9. Good(g, at + 1, holding', decided', settled', read')
    BY <2>3, <2>4, <2>5, <2>6, StillDecided DEF Good
  <2> QED BY <2>9 DEF g
<1>7. CASE ~Tracks(finder, s.to) /\ Mentions(finder, s.from)
             /\ ~(s.op = "assign" /\ s.to # "elsewhere" /\ Forwards(finder, s.from))
  <2> DEFINE h == Ended(WithUse(finder))
  <2>1. g = Referenced(h, names)
    BY <1>7 DEF Assignment
  <2>2. /\ h \in Finders(V) /\ h.covered = finder.covered /\ h.exhaustive = finder.exhaustive
        /\ h.use /\ h.invalidated
    BY <1>1, EndedFacts
  <2> HIDE DEF g, h
  <2>3. /\ g \in Finders(V) /\ g.covered = h.covered /\ g.exhaustive = h.exhaustive
        /\ g.use /\ g.invalidated
    BY <2>1, <2>2, ReferencedFacts
  <2>9. Good(g, at + 1, holding', decided', settled', read')
    BY <2>2, <2>3, StillDecided DEF Good, Silent
  <2> QED BY <2>9 DEF g
<1>8. CASE ~Tracks(finder, s.to) /\ ~Mentions(finder, s.from)
  <2>1. g = Referenced(finder, names)
    BY <1>8 DEF Assignment, Forwards, Mentions
  <2> HIDE DEF g
  <2>2. /\ g \in Finders(V) /\ g.tracked = finder.tracked /\ g.invalidated = finder.invalidated
        /\ g.covered = finder.covered /\ g.exhaustive = finder.exhaustive
        /\ g.check = finder.check /\ g.forwarded = finder.forwarded /\ (finder.use => g.use)
    BY <1>1, <2>1, ReferencedFacts
  <2>3. Followed => g.tracked \subseteq holding'
    BY <1>1, <1>4, <1>8, <2>2 DEF Tracks
  <2>4. ASSUME Silent(g) PROVE ~read' /\ holding' \subseteq g.tracked
    <3>1. Silent(finder)
      BY <2>2, <2>4 DEF Silent
    <3>2. ~Carries(s.from) /\ ~Reads(s.from) /\ s.to \notin holding
      BY <1>1, <1>8, <3>1 DEF Mentions, Tracks, Carries, Reads
    <3> QED BY <1>1, <1>4, <2>2, <3>1, <3>2
  <2>9. Good(g, at + 1, holding', decided', settled', read')
    BY <1>1, <2>2, <2>3, <2>4, StillDecided DEF Good
  <2> QED BY <2>9 DEF g
<1> QED BY <1>5, <1>6, <1>7, <1>8

LEMMA UnaryOperatorGood ==
  ASSUME NEW s, Visiting(s), s.op = "step"
  PROVE  Good(UnaryOperator(finder, s), at + 1, holding', decided', settled', read')
<1> DEFINE V == Known(at + 1)
           g == UnaryOperator(finder, s)
           h == RemoveTracked(WithUse(finder), s.of)
<1>1. /\ finder \in Finders(V)
      /\ Followed => finder.tracked \subseteq holding
      /\ Silent(finder) => ~read /\ holding \subseteq finder.tracked
      /\ Execute(s) /\ s.op \in StatementKinds /\ ~finder.invalidated
  BY VisitFacts DEF Visiting
<1>2. holding' = holding \ {s.of} /\ (read' <=> read \/ s.of \in holding)
  BY <1>1, Effects
<1>3. CASE Tracks(finder, s.of)
  <2>1. g = Referenced(h, {s.of})
    BY <1>3 DEF UnaryOperator
  <2>2. /\ h \in Finders(V) /\ h.tracked = finder.tracked \ {s.of} /\ h.use
        /\ h.covered = finder.covered /\ h.exhaustive = finder.exhaustive
    BY <1>1, EndedFacts, TrackingFacts
  <2> HIDE DEF g, h
  <2>3. /\ g \in Finders(V) /\ g.tracked = h.tracked /\ g.use
        /\ g.covered = h.covered /\ g.exhaustive = h.exhaustive
    BY <2>1, <2>2, ReferencedFacts
  <2>9. Good(g, at + 1, holding', decided', settled', read')
    BY <1>1, <1>2, <2>2, <2>3, StillDecided DEF Good, Silent
  <2> QED BY <2>9 DEF g
<1>4. CASE ~Tracks(finder, s.of)
  <2>1. g = finder
    BY <1>4 DEF UnaryOperator
  <2> HIDE DEF g
  <2>9. Good(g, at + 1, holding', decided', settled', read')
    BY <1>1, <1>2, <1>4, <2>1, StillDecided DEF Good, Tracks
  <2> QED BY <2>9 DEF g
<1> QED BY <1>3, <1>4

LEMMA DeclRefExprGood ==
  ASSUME NEW s, Visiting(s), s.op \in {"use", "share"}
  PROVE  Good(DeclRefExpr(finder, s), at + 1, holding', decided', settled', read')
<1> DEFINE V == Known(at + 1)
           g == DeclRefExpr(finder, s)
           names == IF s.op = "use" THEN Named(s.from) ELSE {s.of}
<1>1. /\ finder \in Finders(V)
      /\ Followed => finder.tracked \subseteq holding /\ s.op # "share"
      /\ Silent(finder) => ~read /\ holding \subseteq finder.tracked
      /\ Execute(s) /\ s.op \in StatementKinds /\ ~finder.invalidated
  BY VisitFacts DEF Visiting
<1>2. /\ holding' \subseteq holding
      /\ s.op = "use" => holding' = holding /\ (read' <=> read \/ Reads(s.from))
      /\ s.op = "share" => (read' <=> read \/ s.of \in holding)
  BY <1>1, Effects
<1>3. read' <=> read \/ names \cap holding # {}
  BY <1>2 DEF Reads, Named
<1>4. g = Referenced(finder, names)
  BY DEF DeclRefExpr
<1> HIDE DEF g, names
<1>5. /\ g \in Finders(V) /\ g.tracked = finder.tracked /\ g.invalidated = finder.invalidated
      /\ g.covered = finder.covered /\ g.exhaustive = finder.exhaustive
      /\ g.check = finder.check /\ g.forwarded = finder.forwarded
      /\ g.use <=> finder.use \/ names \cap finder.tracked # {}
  BY <1>1, <1>4, ReferencedFacts
<1>6. ASSUME Silent(g) PROVE ~read' /\ holding' \subseteq g.tracked
  <2>1. Silent(finder) /\ names \cap finder.tracked = {}
    BY <1>5, <1>6 DEF Silent
  <2> QED BY <1>1, <1>2, <1>3, <1>5, <2>1
<1>7. Followed => g.tracked \subseteq holding'
  BY <1>1, <1>2, <1>5
<1>9. Good(g, at + 1, holding', decided', settled', read')
  BY <1>1, <1>5, <1>6, <1>7, StillDecided DEF Good
<1> QED BY <1>9 DEF g

LEMMA ReturnStmtGood ==
  ASSUME NEW s, Visiting(s), s.op = "return"
  PROVE  Good(ReturnStmt(finder, s), at + 1, holding', decided', settled', read')
<1> DEFINE V == Known(at + 1)
           g == ReturnStmt(finder, s)
           h == [finder EXCEPT !.forwarded = TRUE]
<1>1. /\ finder \in Finders(V)
      /\ Followed => finder.tracked \subseteq holding
      /\ Silent(finder) => ~read /\ holding \subseteq finder.tracked
      /\ Execute(s) /\ s.op \in StatementKinds /\ ~finder.invalidated
  BY VisitFacts DEF Visiting
<1>2. holding' = holding /\ (read' <=> read \/ Reads(s.from))
  BY <1>1, Effects
<1>3. CASE Forwards(finder, s.from)
  <2>1. g = Ended(h)
    BY <1>3 DEF ReturnStmt
  <2>2. /\ h \in Finders(V) /\ h.forwarded
        /\ h.covered = finder.covered /\ h.exhaustive = finder.exhaustive
    BY <1>1 DEF Finders
  <2> HIDE DEF g, h
  <2>3. /\ g \in Finders(V) /\ g.forwarded /\ g.invalidated
        /\ g.covered = finder.covered /\ g.exhaustive = finder.exhaustive
    BY <2>1, <2>2, EndedFacts
  <2>9. Good(g, at + 1, holding', decided', settled', read')
    BY <2>3, StillDecided DEF Good, Silent
  <2> QED BY <2>9 DEF g
<1>4. CASE ~Forwards(finder, s.from)
  <2>1. g = Referenced(finder, Named(s.from))
    BY <1>4 DEF ReturnStmt
  <2> HIDE DEF g
  <2>2. /\ g \in Finders(V) /\ g.tracked = finder.tracked /\ g.invalidated = finder.invalidated
        /\ g.covered = finder.covered /\ g.exhaustive = finder.exhaustive
        /\ g.check = finder.check /\ g.forwarded = finder.forwarded
        /\ g.use <=> finder.use \/ Named(s.from) \cap finder.tracked # {}
    BY <1>1, <2>1, ReferencedFacts
  <2>3. ASSUME Silent(g) PROVE ~read' /\ holding' \subseteq g.tracked
    <3>1. Silent(finder) /\ Named(s.from) \cap finder.tracked = {}
      BY <2>2, <2>3 DEF Silent
    <3>2. ~Reads(s.from)
      BY <1>1, <3>1 DEF Reads, Named
    <3> QED BY <1>1, <1>2, <2>2, <3>1, <3>2
  <2>9. Good(g, at + 1, holding', decided', settled', read')
    BY <1>1, <1>2, <2>2, <2>3, StillDecided DEF Good
  <2> QED BY <2>9 DEF g
<1> QED BY <1>3, <1>4

LEMMA CallExprGood ==
  ASSUME NEW s, Visiting(s), s.op = "pass"
  PROVE  Good(CallExpr(finder, s), at + 1, holding', decided', settled', read')
<1> DEFINE V == Known(at + 1)
           g == CallExpr(finder, s)
           h == IF Tracks(finder, s.of) /\ ChecksParameter(s.callee)
                THEN RemoveTracked(AllHandled(finder), s.of) ELSE finder
<1>1. /\ finder \in Finders(V) /\ Consistent(finder)
      /\ Followed => finder.tracked \subseteq holding
      /\ Silent(finder) => ~read /\ holding \subseteq finder.tracked
      /\ Execute(s) /\ s.op \in StatementKinds /\ ~finder.invalidated
      /\ s.callee \in DOMAIN text.passing
  BY VisitFacts DEF Visiting, WellFormedStatement
<1>2. holding' = holding /\ (read' <=> read \/ s.of \in holding)
  BY <1>1, Effects
<1>3. g = Referenced(h, {s.of})
  BY DEF CallExpr
<1>4. CASE Tracks(finder, s.of) /\ ChecksParameter(s.callee)
  <2>1. /\ AllHandled(finder) \in Finders(V) /\ AllHandled(finder).exhaustive
        /\ AllHandled(finder).covered = text.domain.values
        /\ AllHandled(finder).tracked = finder.tracked
    BY <1>1, AllHandledMarks DEF Marks
  <2>2. h = RemoveTracked(AllHandled(finder), s.of)
    BY <1>4
  <2> HIDE DEF h, g
  <2>3. /\ h \in Finders(V) /\ h.exhaustive /\ h.covered = text.domain.values
        /\ h.tracked = finder.tracked \ {s.of}
    BY <2>1, <2>2, TrackingFacts
  <2>4. /\ g \in Finders(V) /\ g.exhaustive /\ g.covered = text.domain.values
        /\ g.tracked = finder.tracked \ {s.of}
    BY <1>3, <2>3, ReferencedFacts
  <2>5. Followed => settled'
    <3>1. Reach(s.callee) \cap text.checking # {}
      <4>1. WellFormedText(text)
        BY TextFacts DEF Visiting
      <4> QED BY <1>1, <1>4, <4>1, ParameterChecks DEF WellFormedText
    <3>2. Followed => s.of \in holding
      BY <1>1, <1>4 DEF Tracks
    <3> QED BY <1>1, <3>1, <3>2, Effects
  <2>9. Good(g, at + 1, holding', decided', settled', read')
    BY <1>1, <1>2, <2>4, <2>5 DEF Good, Silent, Consistent
  <2> QED BY <2>9 DEF g
<1>5. CASE ~(Tracks(finder, s.of) /\ ChecksParameter(s.callee))
  <2>1. g = Referenced(finder, {s.of})
    BY <1>3, <1>5
  <2> HIDE DEF g
  <2>2. /\ g \in Finders(V) /\ g.tracked = finder.tracked /\ g.invalidated = finder.invalidated
        /\ g.covered = finder.covered /\ g.exhaustive = finder.exhaustive
        /\ g.check = finder.check /\ g.forwarded = finder.forwarded
        /\ g.use <=> finder.use \/ {s.of} \cap finder.tracked # {}
    BY <1>1, <2>1, ReferencedFacts
  <2>3. ASSUME Silent(g) PROVE ~read' /\ holding' \subseteq g.tracked
    <3>1. Silent(finder) /\ s.of \notin finder.tracked
      BY <2>2, <2>3 DEF Silent
    <3> QED BY <1>1, <1>2, <2>2, <3>1
  <2>9. Good(g, at + 1, holding', decided', settled', read')
    BY <1>1, <1>2, <2>2, <2>3, StillDecided DEF Good
  <2> QED BY <2>9 DEF g
<1> QED BY <1>4, <1>5

\* A check of a variable, whichever statement makes it: h is what marking made of
\* what was known.
LEMMA CheckGood ==
  ASSUME NEW s, Visiting(s), s.op \in {"if", "condition", "switch"}, NEW h,
         Tracks(finder, s.of) =>
           /\ h \in Finders(Known(at + 1)) /\ Consistent(h) /\ Marks(finder, h) /\ h.check
           /\ \A values : /\ Followed /\ ValuesKept /\ ~Settles(s) /\ Decides(s) \subseteq values
                          /\ Decided(finder, values)
                          => Decided(h, values)
  PROVE  Good(IF Tracks(finder, s.of) THEN Referenced(h, {s.of}) ELSE finder,
              at + 1, holding', decided', settled', read')
<1> DEFINE V == Known(at + 1)
           g == IF Tracks(finder, s.of) THEN Referenced(h, {s.of}) ELSE finder
<1>1. /\ finder \in Finders(V) /\ Consistent(finder)
      /\ Followed => finder.tracked \subseteq holding
      /\ Followed /\ ValuesKept /\ ~settled => Decided(finder, decided)
      /\ Silent(finder) => ~read /\ holding \subseteq finder.tracked
      /\ Execute(s) /\ s.op \in StatementKinds /\ ~finder.invalidated
  BY VisitFacts DEF Visiting
<1>2. /\ holding' = holding /\ (read' <=> read \/ s.of \in holding)
      /\ decided \subseteq decided' /\ (settled => settled')
      /\ s.of \in holding => decided' = decided \cup Decides(s) /\ (Settles(s) => settled')
  BY <1>1, Effects
<1>3. CASE Tracks(finder, s.of)
  <2>1. g = Referenced(h, {s.of})
    BY <1>3
  <2> HIDE DEF g
  <2>2. /\ g \in Finders(V) /\ g.tracked = h.tracked /\ g.invalidated = h.invalidated
        /\ g.covered = h.covered /\ g.exhaustive = h.exhaustive /\ g.check
    BY <1>3, <2>1, ReferencedFacts
  <2>3. ASSUME Followed, ValuesKept, ~settled' PROVE Decided(g, decided')
    <3>1. Decides(s) \subseteq decided' /\ ~Settles(s)
      BY <1>1, <1>2, <1>3, <2>3 DEF Tracks
    <3>2. Decided(finder, decided')
      BY <1>1, <1>2, <2>3 DEF Decided
    <3>3. Decided(h, decided')
      BY <1>3, <2>3, <3>1, <3>2
    <3> QED BY <2>2, <3>3 DEF Decided
  <2>9. Good(g, at + 1, holding', decided', settled', read')
    BY <1>1, <1>2, <1>3, <2>2, <2>3 DEF Good, Silent, Consistent, Marks
  <2> QED BY <2>9 DEF g
<1>4. CASE ~Tracks(finder, s.of)
  <2>1. g = finder
    BY <1>4
  <2> HIDE DEF g
  <2>9. Good(g, at + 1, holding', decided', settled', read')
    BY <1>1, <1>2, <1>4, <2>1, StillDecided DEF Good, Tracks
  <2> QED BY <2>9 DEF g
<1> QED BY <1>3, <1>4

LEMMA IfStmtGood ==
  ASSUME NEW s, Visiting(s), s.op = "if"
  PROVE  Good(IfStmt(finder, s), at + 1, holding', decided', settled', read')
<1> DEFINE h == MarkedIf(finder, s.chain)
           n == Len(s.chain.conds)
<1>1. /\ finder \in Finders(Known(at + 1)) /\ Consistent(finder)
      /\ ValuesKept => Sure(s)
      /\ s.chain.conds \in Seq(ConditionsOf(s)) \ {<<>>}
      /\ s.chain = [conds |-> s.chain.conds, otherwise |-> s.chain.otherwise,
                    bodies |-> s.chain.bodies]
      /\ s.chain.bodies \in [DOMAIN s.chain.conds -> SUBSET BodyStatements]
  BY VisitFacts DEF Visiting, WellFormedStatement
<1>2. n \in Nat /\ n # 0
  BY <1>1
<1>3. /\ h \in Finders(Known(at + 1)) /\ Consistent(h) /\ Marks(finder, h) /\ h.check
      /\ \A values :
           /\ Decided(finder, values)
           /\ \A k \in 1..n : Right(AnalyzeIfChain(FromElseIf(s.chain, k), text.domain), values)
           => Decided(h, values)
  BY <1>1, <1>2, MarkedIfMarks
<1>4. ASSUME ValuesKept, ~Settles(s), NEW values, Decides(s) \subseteq values, Decided(finder, values)
      PROVE  Decided(h, values)
  <2>1. \A k \in 1..n : Right(AnalyzeIfChain(FromElseIf(s.chain, k), text.domain), values)
    BY <1>1, <1>4, IfIsRight
  <2> HIDE DEF h
  <2> QED BY <1>3, <1>4, <2>1
<1> HIDE DEF h
<1>5. Good(IF Tracks(finder, s.of) THEN Referenced(h, {s.of}) ELSE finder,
           at + 1, holding', decided', settled', read')
  BY <1>3, <1>4, CheckGood
<1> QED BY <1>5 DEF IfStmt, h

LEMMA ConditionGood ==
  ASSUME NEW s, Visiting(s), s.op = "condition"
  PROVE  Good(Condition(finder, s), at + 1, holding', decided', settled', read')
<1> DEFINE result == AnalyzeCondition(s.cond, text.domain)
           h == Marked(finder, result)
<1>1. /\ finder \in Finders(Known(at + 1)) /\ Consistent(finder)
      /\ ValuesKept => Sure(s)
  BY VisitFacts
<1> HIDE DEF result
<1>3. /\ h \in Finders(Known(at + 1)) /\ Consistent(h) /\ Marks(finder, h) /\ h.check
      /\ \A values : Decided(finder, values) /\ Right(result, values) => Decided(h, values)
  BY <1>1, MarkedMarks
<1>4. ASSUME ValuesKept, NEW values, Decides(s) \subseteq values, Decided(finder, values)
      PROVE  Decided(h, values)
  <2>1. Right(result, values)
    BY <1>1, <1>4, ConditionIsRight DEF result
  <2> HIDE DEF h
  <2> QED BY <1>3, <1>4, <2>1
<1> HIDE DEF h
<1>5. Good(IF Tracks(finder, s.of) THEN Referenced(h, {s.of}) ELSE finder,
           at + 1, holding', decided', settled', read')
  BY <1>3, <1>4, CheckGood
<1> QED BY <1>5 DEF Condition, h, result

LEMMA SwitchStmtGood ==
  ASSUME NEW s, Visiting(s), s.op = "switch"
  PROVE  Good(SwitchStmt(finder, s), at + 1, holding', decided', settled', read')
<1> DEFINE result == AnalyzeSwitch(s.switch, text.domain)
           h == MarkedSwitch(finder, result)
<1>1. /\ finder \in Finders(Known(at + 1)) /\ Consistent(finder)
      /\ Followed => s.direct
  BY VisitFacts
<1>2. text.domain.values \subseteq Int
  BY TextFacts DEF Visiting, WellFormedText
<1> HIDE DEF result
<1>3. /\ h \in Finders(Known(at + 1)) /\ Consistent(h) /\ Marks(finder, h) /\ h.check
      /\ \A values : Decided(finder, values) /\ Right(result, values) => Decided(h, values)
  BY <1>1, MarkedSwitchMarks
<1>4. ASSUME Followed, ~Settles(s), NEW values, Decides(s) \subseteq values, Decided(finder, values)
      PROVE  Decided(h, values)
  <2>1. Right(result, values)
    BY <1>1, <1>2, <1>4, SwitchIsRight DEF result
  <2> HIDE DEF h
  <2> QED BY <1>3, <1>4, <2>1
<1> HIDE DEF h
<1>5. Good(IF Tracks(finder, s.of) THEN Referenced(h, {s.of}) ELSE finder,
           at + 1, holding', decided', settled', read')
  BY <1>3, <1>4, CheckGood
<1> QED BY <1>5 DEF SwitchStmt, h, result

-----------------------------------------------------------------------------
\* The invariant is inductive.

LEMMA HandlerInit == InitSearch => HandlerInv
<1> SUFFICES ASSUME InitSearch PROVE HandlerInv
  OBVIOUS
<1>1. finder = NothingFound /\ holding = {Result} /\ decided = {} /\ read = FALSE /\ at = 1
      /\ verdict = "none" /\ \E family \in DOMAIN Texts : text \in Texts[family]
  BY DEF InitSearch
<1>2. Result \in Known(1)
  BY DEF Known
<1>3. finder \in Finders(Known(1)) /\ Consistent(finder) /\ Decided(finder, {})
      /\ finder.tracked = {Result} /\ ~finder.invalidated
  BY <1>1, <1>2 DEF NothingFound, Finders, Consistent, Decided
<1>4. Good(finder, at, holding, decided, settled, read)
  BY <1>1, <1>3 DEF Good
<1> QED BY <1>1, <1>4 DEF HandlerInv

\* The text does not change, so what fits it now fits it in the next state.
LEMMA GoodNext ==
  ASSUME UNCHANGED text, at' = at + 1,
         Good(finder', at + 1, holding', decided', settled', read')
  PROVE  Good(finder, at, holding, decided, settled, read)'
<1>1. Known(at + 1) = Known(at)'
  BY DEF Known
<1>2. finder' \in Finders(Known(at + 1)) => (finder \in Finders(Known(at)))'
  BY <1>1 DEF Finders
<1>3. (Followed <=> Followed') /\ (ValuesKept <=> ValuesKept')
  BY DEF Followed, ValuesKept
<1>4. Consistent(finder') => Consistent(finder)'
  BY DEF Consistent
<1>5. Decided(finder', decided') => Decided(finder, decided)'
  BY DEF Decided
<1> QED BY <1>2, <1>3, <1>4, <1>5 DEF Good

\* A visit keeps the invariant if what it makes of the statement does: it
\* counts only when the search listens, and the run goes on when it no longer does.
LEMMA VisitKeeps ==
  ASSUME HandlerInv, NEW ops, NEW found, Visit(ops, found), Run(Here),
         Visiting(Here) => Good(found, at + 1, holding', decided', settled', read')
  PROVE  HandlerInv'
<1>1. /\ at <= Len(text.statements) /\ at' = at + 1 /\ UNCHANGED <<text, verdict>>
      /\ finder' = IF Listening(finder, at) THEN found ELSE finder
      /\ at \in Nat /\ Len(text.statements) \in Nat
      /\ Good(finder, at, holding, decided, settled, read)
  BY TextFacts DEF Visit, HandlerInv
<1>2. Here.op \in StatementKinds
  <2>1. at \in DOMAIN text.statements /\ WellFormedText(text)
    BY <1>1, TextFacts DEF HandlerInv
  <2> QED BY <2>1 DEF WellFormedText, WellFormedStatement, Here
<1>3. finder \in Finders(Known(at + 1))
  <2>1. Known(at) \subseteq Known(at + 1)
    BY <1>1, KnownGrows
  <2> QED BY <1>1, <2>1 DEF Good, Finders
<1>4. CASE ~OccursAfter(at)
  <2>1. finder' = finder /\ UNCHANGED runVars
    BY <1>1, <1>4 DEF Listening, Run
  <2>2. Good(finder', at + 1, holding', decided', settled', read')
    BY <1>1, <1>3, <2>1 DEF Good, runVars
  <2> QED BY <1>1, <2>2, GoodNext DEF HandlerInv
<1>5. CASE OccursAfter(at) /\ finder.invalidated
  <2>1. finder' = finder /\ Execute(Here)
    BY <1>1, <1>5 DEF Listening, Run
  <2>2. decided \subseteq decided' /\ (settled => settled')
    BY <1>2, <2>1, Effects
  <2>3. ASSUME Silent(finder)
        PROVE  ~read' /\ holding' = {} /\ finder.tracked = {}
    <3>1. ~read /\ holding = {} /\ finder.tracked = {}
      BY <1>1, <1>5, <2>3 DEF Good
    <3> QED BY <1>2, <2>1, <3>1, NothingLeft
  <2>4. Followed /\ ValuesKept /\ ~settled' => Decided(finder, decided')
    BY <1>1, <2>2 DEF Good, Decided
  <2>5. Good(finder', at + 1, holding', decided', settled', read')
    BY <1>1, <1>3, <1>5, <2>1, <2>3, <2>4 DEF Good
  <2> QED BY <1>1, <2>5, GoodNext DEF HandlerInv
<1>6. CASE OccursAfter(at) /\ ~finder.invalidated
  <2>1. finder' = found /\ Execute(Here)
    BY <1>1, <1>6 DEF Listening, Run
  <2>2. Visiting(Here)
    BY <1>1, <1>6, <2>1 DEF Visiting, Here
  <2>3. Good(finder', at + 1, holding', decided', settled', read')
    BY <2>1, <2>2
  <2> QED BY <1>1, <2>3, GoodNext DEF HandlerInv
<1> QED BY <1>4, <1>5, <1>6

LEMMA HandlerStep == HandlerInv /\ [NextSearch]_handlerVars => HandlerInv'
<1> SUFFICES ASSUME HandlerInv, [NextSearch]_handlerVars PROVE HandlerInv'
  OBVIOUS
<1>1. CASE VisitIfStmt
  <2>1. Visit({"if"}, IfStmt(finder, Here)) /\ Run(Here) /\ Here.op = "if"
    BY <1>1 DEF VisitIfStmt, Visit
  <2>2. Visiting(Here) => Good(IfStmt(finder, Here), at + 1, holding', decided', settled', read')
    BY <2>1, IfStmtGood
  <2> QED BY <2>1, <2>2, VisitKeeps
<1>2. CASE VisitCondition
  <2>1. Visit({"condition"}, Condition(finder, Here)) /\ Run(Here) /\ Here.op = "condition"
    BY <1>2 DEF VisitCondition, Visit
  <2>2. Visiting(Here) => Good(Condition(finder, Here), at + 1, holding', decided', settled', read')
    BY <2>1, ConditionGood
  <2> QED BY <2>1, <2>2, VisitKeeps
<1>3. CASE VisitSwitchStmt
  <2>1. Visit({"switch"}, SwitchStmt(finder, Here)) /\ Run(Here) /\ Here.op = "switch"
    BY <1>3 DEF VisitSwitchStmt, Visit
  <2>2. Visiting(Here) => Good(SwitchStmt(finder, Here), at + 1, holding', decided', settled', read')
    BY <2>1, SwitchStmtGood
  <2> QED BY <2>1, <2>2, VisitKeeps
<1>4. CASE TraverseDeclStmt
  <2>1. Visit({"declare"}, DeclStmt(finder, Here)) /\ Run(Here) /\ Here.op = "declare"
    BY <1>4 DEF TraverseDeclStmt, Visit
  <2>2. Visiting(Here) => Good(DeclStmt(finder, Here), at + 1, holding', decided', settled', read')
    BY <2>1, DeclStmtGood
  <2> QED BY <2>1, <2>2, VisitKeeps
<1>5. CASE VisitBinaryOperator
  <2>1. /\ Visit({"assign", "update"}, Assignment(finder, Here)) /\ Run(Here)
        /\ Here.op \in {"assign", "update"}
    BY <1>5 DEF VisitBinaryOperator, Visit
  <2>2. Visiting(Here) => Good(Assignment(finder, Here), at + 1, holding', decided', settled', read')
    BY <2>1, AssignmentGood
  <2> QED BY <2>1, <2>2, VisitKeeps
<1>6. CASE VisitUnaryOperator
  <2>1. Visit({"step"}, UnaryOperator(finder, Here)) /\ Run(Here) /\ Here.op = "step"
    BY <1>6 DEF VisitUnaryOperator, Visit
  <2>2. Visiting(Here) => Good(UnaryOperator(finder, Here), at + 1, holding', decided', settled', read')
    BY <2>1, UnaryOperatorGood
  <2> QED BY <2>1, <2>2, VisitKeeps
<1>7. CASE VisitDeclRefExpr
  <2>1. /\ Visit({"use", "share"}, DeclRefExpr(finder, Here)) /\ Run(Here)
        /\ Here.op \in {"use", "share"}
    BY <1>7 DEF VisitDeclRefExpr, Visit
  <2>2. Visiting(Here) => Good(DeclRefExpr(finder, Here), at + 1, holding', decided', settled', read')
    BY <2>1, DeclRefExprGood
  <2> QED BY <2>1, <2>2, VisitKeeps
<1>8. CASE VisitCallExpr
  <2>1. Visit({"pass"}, CallExpr(finder, Here)) /\ Run(Here) /\ Here.op = "pass"
    BY <1>8 DEF VisitCallExpr, Visit
  <2>2. Visiting(Here) => Good(CallExpr(finder, Here), at + 1, holding', decided', settled', read')
    BY <2>1, CallExprGood
  <2> QED BY <2>1, <2>2, VisitKeeps
<1>9. CASE TraverseReturnStmt
  <2>1. Visit({"return"}, ReturnStmt(finder, Here)) /\ Run(Here) /\ Here.op = "return"
    BY <1>9 DEF TraverseReturnStmt, Visit
  <2>2. Visiting(Here) => Good(ReturnStmt(finder, Here), at + 1, holding', decided', settled', read')
    BY <2>1, ReturnStmtGood
  <2> QED BY <2>1, <2>2, VisitKeeps
<1>10. ASSUME UNCHANGED <<text, at, finder, runVars>>
       PROVE  Good(finder, at, holding, decided, settled, read)'
  <2>1. Good(finder, at, holding, decided, settled, read)
    BY DEF HandlerInv
  <2>2. (Followed <=> Followed') /\ (ValuesKept <=> ValuesKept')
    BY <1>10 DEF Followed, ValuesKept
  <2>3. /\ Consistent(finder) => Consistent(finder)'
        /\ Decided(finder, decided) => Decided(finder, decided)'
        /\ finder \in Finders(Known(at)) => (finder \in Finders(Known(at)))'
    BY <1>10 DEF Consistent, Decided, Finders, Known, runVars
  <2> QED BY <1>10, <2>1, <2>2, <2>3 DEF Good, runVars
<1>11. CASE AnalyzeVariable
  BY <1>10, <1>11 DEF AnalyzeVariable, HandlerInv
<1>12. CASE UNCHANGED handlerVars
  BY <1>10, <1>12 DEF handlerVars, searchVars, HandlerInv
<1> QED BY <1>1, <1>2, <1>3, <1>4, <1>5, <1>6, <1>7, <1>8, <1>9, <1>11, <1>12 DEF NextSearch

LEMMA HandlerAlways == SearchSpec => []HandlerInv
  BY HandlerInit, HandlerStep, PTL DEF SearchSpec

\* What the search tracks holds the result as long as it goes on, in any text
\* that shares no address and switches on the variable itself
\* (add_tracked_variable, remove_tracked_variable).
THEOREM TrackedAlwaysHoldsResult == SearchSpec => []TrackedHoldsResult
<1>1. HandlerInv => TrackedHoldsResult
  BY DEF HandlerInv, Good, TrackedHoldsResult
<1> QED BY <1>1, HandlerAlways, PTL

\* Whatever the search counts as handled (mark_if_chain, mark_condition,
\* mark_switch), a check the run executed on the result decided, unless a check
\* settled everything by convention.
THEOREM HandledIsAlwaysDecided == SearchSpec => []HandledIsDecided
<1>1. HandlerInv => HandledIsDecided
  BY DEF HandlerInv, Good, Decided, HandledIsDecided
<1> QED BY <1>1, HandlerAlways, PTL

\* analyze_variable calls a result stored but never used only when the run never
\* read it, whatever the text copies and overwrites.
THEOREM IgnoredIsUnread == SearchSpec => []IgnoredMeansUnread
<1>1. HandlerInv => IgnoredMeansUnread
  <2> SUFFICES ASSUME HandlerInv, verdict = "Ignored" PROVE ~read
    BY DEF IgnoredMeansUnread
  <2>1. verdict = Verdict(finder) /\ Good(finder, at, holding, decided, settled, read)
    BY DEF HandlerInv
  <2>2. Silent(finder)
    BY <2>1 DEF Verdict, Silent
  <2> QED BY <2>1, <2>2 DEF Good
<1> QED BY <1>1, HandlerAlways, PTL

\* function_checks_parameter finds a check wherever the parameter reaches one,
\* through any circle of calls, and only then.
THEOREM CalleesAlwaysAnswerForAll == SearchSpec => []CalleesAnswerForAll
<1>1. HandlerInv => CalleesAnswerForAll
  BY TextFacts, ParameterChecks DEF WellFormedText, CalleesAnswerForAll
<1> QED BY <1>1, HandlerAlways, PTL

-----------------------------------------------------------------------------
\* Nothing learned is forgotten.

Keeps(f, g) == f.covered \subseteq g.covered /\ (f.exhaustive => g.exhaustive)

LEMMA ReferencedKeeps ==
  ASSUME NEW V, NEW f \in Finders(V), NEW names
  PROVE  Keeps(f, Referenced(f, names))
  BY ReferencedFacts DEF Keeps

LEMMA ChecksKeep ==
  ASSUME NEW V, NEW f \in Finders(V), NEW h \in Finders(V), Marks(f, h), NEW names
  PROVE  Keeps(f, Referenced(h, names))
  BY ReferencedKeeps DEF Keeps, Marks

LEMMA DeclStmtKeeps ==
  ASSUME NEW V, NEW f \in Finders(V), NEW s
  PROVE  Keeps(f, DeclStmt(f, s))
<1> DEFINE h == WithUse(f)
<1>1. h \in Finders(V) /\ h.covered = f.covered /\ h.exhaustive = f.exhaustive
  BY EndedFacts
<1> HIDE DEF h
<1>2. Ended(h).covered = f.covered /\ Ended(h).exhaustive = f.exhaustive
  BY <1>1, EndedFacts
<1> QED BY <1>2, TrackingFacts DEF DeclStmt, Keeps, h

LEMMA AssignmentKeeps ==
  ASSUME NEW V, NEW f \in Finders(V), NEW s
  PROVE  Keeps(f, Assignment(f, s))
<1> DEFINE W == V \cup {s.to}
           lost == IF s.op = "update" \/ Mentions(f, s.from) THEN WithUse(f) ELSE f
           h == IF s.op = "assign" /\ s.to # "elsewhere" /\ Forwards(f, s.from) THEN AddTracked(f, s.to)
                ELSE IF Tracks(f, s.to) THEN RemoveTracked(lost, s.to)
                ELSE IF Mentions(f, s.from) THEN Ended(WithUse(f)) ELSE f
<1>1. f \in Finders(W) /\ s.to \in W
  BY DEF Finders
<1> HIDE DEF W
<1>2. /\ WithUse(f) \in Finders(W) /\ WithUse(f).covered = f.covered
      /\ WithUse(f).exhaustive = f.exhaustive
  BY <1>1, EndedFacts
<1>3. lost \in Finders(W) /\ lost.covered = f.covered /\ lost.exhaustive = f.exhaustive
  BY <1>1, <1>2
<1>4. Assignment(f, s) = Referenced(h, {s.to} \cup Named(s.from))
  BY DEF Assignment
<1> HIDE DEF lost
<1>5. h \in Finders(W) /\ h.covered = f.covered /\ h.exhaustive = f.exhaustive
  BY <1>1, <1>2, <1>3, TrackingFacts, EndedFacts
<1> HIDE DEF h
<1> QED BY <1>4, <1>5, ReferencedKeeps DEF Keeps

LEMMA UnaryOperatorKeeps ==
  ASSUME NEW V, NEW f \in Finders(V), NEW s
  PROVE  Keeps(f, UnaryOperator(f, s))
<1> DEFINE h == RemoveTracked(WithUse(f), s.of)
<1>1. h \in Finders(V) /\ h.covered = f.covered /\ h.exhaustive = f.exhaustive
  BY EndedFacts, TrackingFacts
<1> HIDE DEF h
<1>2. Keeps(f, Referenced(h, {s.of})) /\ Keeps(f, f)
  BY <1>1, ReferencedKeeps DEF Keeps
<1> QED BY <1>2 DEF UnaryOperator, h

LEMMA CallExprKeeps ==
  ASSUME NEW V, NEW f \in Finders(V), NEW s
  PROVE  Keeps(f, CallExpr(f, s))
<1> DEFINE h == RemoveTracked(AllHandled(f), s.of)
<1>1. /\ AllHandled(f) \in Finders(V) /\ AllHandled(f).exhaustive
      /\ AllHandled(f).covered = text.domain.values /\ f.covered \subseteq text.domain.values
  BY AllHandledMarks DEF Finders
<1>2. h \in Finders(V) /\ h.exhaustive /\ h.covered = text.domain.values
  BY <1>1, TrackingFacts
<1> HIDE DEF h
<1>3. Keeps(f, Referenced(h, {s.of})) /\ Keeps(f, Referenced(f, {s.of}))
  BY <1>1, <1>2, ReferencedKeeps DEF Keeps
<1> QED BY <1>3 DEF CallExpr, h

LEMMA ReturnStmtKeeps ==
  ASSUME NEW V, NEW f \in Finders(V), NEW s
  PROVE  Keeps(f, ReturnStmt(f, s))
<1> DEFINE h == [f EXCEPT !.forwarded = TRUE]
<1>1. h \in Finders(V) /\ h.covered = f.covered /\ h.exhaustive = f.exhaustive
  BY DEF Finders
<1> HIDE DEF h
<1>2. Keeps(f, Ended(h)) /\ Keeps(f, Referenced(f, Named(s.from)))
  BY <1>1, EndedFacts, ReferencedKeeps DEF Keeps
<1> QED BY <1>2 DEF ReturnStmt, h

\* A visit forgets nothing if what it makes of the statement forgets nothing.
LEMMA VisitForgetsNothing ==
  ASSUME HandlerInv, NEW ops, NEW found, Visit(ops, found),
         ~finder.invalidated => Keeps(finder, found)
  PROVE  (finder.invalidated => UNCHANGED finder) /\ Keeps(finder, finder')
  BY DEF Visit, Listening, Keeps

LEMMA StepForgetsNothing ==
  ASSUME HandlerInv, [NextSearch]_handlerVars
  PROVE  (finder.invalidated => UNCHANGED finder) /\ Keeps(finder, finder')
<1> DEFINE V == Known(at)
           Remembers == (finder.invalidated => UNCHANGED finder) /\ Keeps(finder, finder')
<1>1. finder \in Finders(V) /\ Consistent(finder) /\ Keeps(finder, finder)
  BY DEF HandlerInv, Good, Keeps
<1> HIDE DEF V
<1>2. CASE VisitIfStmt
  <2>1. /\ Visit({"if"}, IfStmt(finder, Here))
        /\ at \in DOMAIN text.statements /\ WellFormedText(text) /\ Here.op = "if"
    BY <1>2, TextFacts DEF VisitIfStmt, Visit, HandlerInv
  <2>2. Here.chain.conds \in Seq(ConditionsOf(Here))
    BY <2>1 DEF WellFormedText, WellFormedStatement, Here
  <2>3. Len(Here.chain.conds) \in Nat
    BY <2>2
  <2>4. MarkedIf(finder, Here.chain) \in Finders(V) /\ Marks(finder, MarkedIf(finder, Here.chain))
    BY <1>1, <2>3, MarkedIfMarks
  <2>5. Keeps(finder, Referenced(MarkedIf(finder, Here.chain), {Here.of}))
    BY <1>1, <2>4, ChecksKeep
  <2>6. Keeps(finder, IfStmt(finder, Here))
    BY <1>1, <2>5 DEF IfStmt
  <2> QED BY <2>1, <2>6, VisitForgetsNothing
<1>3. CASE VisitCondition
  <2> DEFINE h == Marked(finder, AnalyzeCondition(Here.cond, text.domain))
  <2>1. h \in Finders(V) /\ Marks(finder, h)
    BY <1>1, MarkedMarks
  <2> HIDE DEF h
  <2>2. Keeps(finder, Referenced(h, {Here.of}))
    BY <1>1, <2>1, ChecksKeep
  <2>3. Keeps(finder, Condition(finder, Here))
    BY <1>1, <2>2 DEF Condition, h
  <2> QED BY <1>3, <2>3, VisitForgetsNothing DEF VisitCondition
<1>4. CASE VisitSwitchStmt
  <2> DEFINE h == MarkedSwitch(finder, AnalyzeSwitch(Here.switch, text.domain))
  <2>1. h \in Finders(V) /\ Marks(finder, h)
    BY <1>1, MarkedSwitchMarks
  <2> HIDE DEF h
  <2>2. Keeps(finder, Referenced(h, {Here.of}))
    BY <1>1, <2>1, ChecksKeep
  <2>3. Keeps(finder, SwitchStmt(finder, Here))
    BY <1>1, <2>2 DEF SwitchStmt, h
  <2> QED BY <1>4, <2>3, VisitForgetsNothing DEF VisitSwitchStmt
<1>5. CASE TraverseDeclStmt
  BY <1>1, <1>5, DeclStmtKeeps, VisitForgetsNothing DEF TraverseDeclStmt
<1>6. CASE VisitBinaryOperator
  BY <1>1, <1>6, AssignmentKeeps, VisitForgetsNothing DEF VisitBinaryOperator
<1>7. CASE VisitUnaryOperator
  BY <1>1, <1>7, UnaryOperatorKeeps, VisitForgetsNothing DEF VisitUnaryOperator
<1>8. CASE VisitDeclRefExpr
  <2>1. Keeps(finder, DeclRefExpr(finder, Here))
    BY <1>1, ReferencedKeeps DEF DeclRefExpr
  <2> QED BY <1>8, <2>1, VisitForgetsNothing DEF VisitDeclRefExpr
<1>9. CASE VisitCallExpr
  BY <1>1, <1>9, CallExprKeeps, VisitForgetsNothing DEF VisitCallExpr
<1>10. CASE TraverseReturnStmt
  BY <1>1, <1>10, ReturnStmtKeeps, VisitForgetsNothing DEF TraverseReturnStmt
<1>11. CASE AnalyzeVariable
  BY <1>1, <1>11 DEF AnalyzeVariable
<1>12. CASE UNCHANGED handlerVars
  BY <1>1, <1>12 DEF handlerVars, searchVars
<1> QED BY <1>2, <1>3, <1>4, <1>5, <1>6, <1>7, <1>8, <1>9, <1>10, <1>11, <1>12 DEF NextSearch

\* Once invalidated the search learns nothing more, and until then no visitor
\* takes back a value that was handled.
THEOREM SearchNeverForgetsAnything == SearchSpec => SearchNeverForgets
<1>1. HandlerInv /\ [NextSearch]_handlerVars =>
        [/\ finder.invalidated => UNCHANGED finder
         /\ finder.covered \subseteq finder'.covered
         /\ finder.exhaustive => finder'.exhaustive]_handlerVars
  BY StepForgetsNothing DEF Keeps
<1> QED BY <1>1, HandlerAlways, PTL DEF SearchSpec, SearchNeverForgets
=============================================================================
