----------------------------- MODULE Conditions -----------------------------
(***************************************************************************)
(* ConditionEvaluator.cpp: is a C condition true of a given return value?  *)
(* A condition is the sequence of its nodes, operands before operators:    *)
(*   [kind |-> "target"]                the result, or what holds it       *)
(*   [kind |-> "literal", value, unsigned]     an integer constant         *)
(*   [kind |-> "known", value, unsigned]       folded by its domain only   *)
(*   [kind |-> "other"]                 anything the analysis cannot tell  *)
(*   [kind |-> "not", left], [kind |-> "and"/"or", left, right]            *)
(*   [kind |-> "compare", op, left, right]                                 *)
(* where left and right are positions of nodes.  Parentheses and implicit  *)
(* conversions are no nodes: strip_expr removes them before each look.     *)
(*                                                                         *)
(* One step evaluates one node, beside what C makes of the same node when  *)
(* the result is held in a variable of a type: [states, unsigned], states  *)
(* being the number of values of the type.                                 *)
(***************************************************************************)
EXTENDS Integers, Sequences

CONSTANTS
  Evaluations,         \* [cond, value, type] that may be evaluated
  IntStates            \* how many values an int has

ConditionKinds == {"target", "literal", "known", "other", "not", "and", "or", "compare"}
IsConstant(node) == node.kind \in {"literal", "known"}

\* Operands come before their operators.
WellFormed(cond) ==
  /\ cond # <<>> /\ cond \in Seq({cond[i] : i \in DOMAIN cond})
  /\ \A i \in DOMAIN cond :
       /\ cond[i].kind \in ConditionKinds
       /\ IsConstant(cond[i]) => cond[i].value \in Int
       /\ cond[i].kind \in {"not", "and", "or", "compare"} => cond[i].left \in 1..(i - 1)
       /\ cond[i].kind \in {"and", "or", "compare"} => cond[i].right \in 1..(i - 1)

ConditionsAssumption ==
  /\ IntStates \in Nat \ {0}
  /\ \A e \in Evaluations :
       WellFormed(e.cond) /\ e.value \in Int /\ e.type.states \in Nat \ {0}

ASSUME ConditionsAssumption

Truths == {"False", "True", "Unknown"}

VARIABLES
  evaluation,          \* what is evaluated
  truths,              \* the truth of each node so far
  meant                \* the value C gives each of these nodes
evaluationVars == <<evaluation, truths, meant>>

-----------------------------------------------------------------------------
\* Three-valued logic.

Invert(t) ==
  CASE t = "True" -> "False" [] t = "False" -> "True" [] OTHER -> "Unknown"

LogicalAnd(l, r) ==
  CASE "False" \in {l, r} -> "False" [] {l, r} = {"True"} -> "True" [] OTHER -> "Unknown"

LogicalOr(l, r) ==
  CASE "True" \in {l, r} -> "True" [] {l, r} = {"False"} -> "False" [] OTHER -> "Unknown"

Compare(op, l, r) ==
  CASE op = "==" -> l = r  [] op = "!=" -> l /= r [] op = "<" -> l < r
    [] op = "<=" -> l <= r [] op = ">" -> l > r   [] OTHER -> l >= r

TruthOf(holds) == IF holds THEN "True" ELSE "False"

\* compare_values: the mathematical values, whatever their types.
CompareValues(op, l, r) == TruthOf(Compare(op, l, r))

-----------------------------------------------------------------------------
\* What C computes.

BoolOf(holds) == IF holds THEN 1 ELSE 0

Wrapped(x, states, unsigned) ==
  LET m == x % states IN IF unsigned \/ 2 * m < states THEN m ELSE m - states

\* The value a variable of the type holds once the result is stored in it.
Held(e) == Wrapped(e.value, e.type.states, e.type.unsigned)

\* Does the operand make a comparison unsigned?  Narrow types promote to int.
Unsigned(node, type) ==
  \/ node.kind = "target" /\ type.unsigned /\ type.states = IntStates
  \/ IsConstant(node) /\ node.unsigned

\* A comparison after the usual arithmetic conversions.
ConvertedCompare(op, l, r, unsigned) ==
  IF unsigned THEN Compare(op, l % IntStates, r % IntStates) ELSE Compare(op, l, r)

\* The values C may give node i, its operands having those of m.
Meanings(e, i, m) ==
  LET node == e.cond[i] IN
  CASE node.kind = "target"  -> {Held(e)}
    [] IsConstant(node)      -> {node.value}
    [] node.kind = "not"     -> {BoolOf(m[node.left] = 0)}
    [] node.kind = "and"     -> {BoolOf(m[node.left] # 0 /\ m[node.right] # 0)}
    [] node.kind = "or"      -> {BoolOf(m[node.left] # 0 \/ m[node.right] # 0)}
    [] node.kind = "compare" ->
         {BoolOf(ConvertedCompare(node.op, m[node.left], m[node.right],
                   \E o \in {node.left, node.right} : Unsigned(e.cond[o], e.type)))}
    [] OTHER -> {0, 1}

-----------------------------------------------------------------------------
\* evaluate_impl

\* The fold of Clang, which knows literals only.
Folded(e, node) ==
  LET l == e.cond[node.left]
      r == e.cond[node.right]
  IN IF l.kind = "literal" /\ r.kind = "literal"
     THEN TruthOf(ConvertedCompare(node.op, l.value, r.value, l.unsigned \/ r.unsigned))
     ELSE "Unknown"

ComparisonTruthTurned(e, node) ==      \* a slip: forgets which side the result is on
  LET l == e.cond[node.left]
      r == e.cond[node.right]
  IN IF l.kind = "target" /\ IsConstant(r) THEN CompareValues(node.op, e.value, r.value)
     ELSE IF r.kind = "target" /\ IsConstant(l) THEN CompareValues(node.op, e.value, l.value)
     ELSE Folded(e, node)

\* The result against a constant, on either side; else what Clang folds.
ComparisonTruth(e, node) ==
  LET l == e.cond[node.left]
      r == e.cond[node.right]
  IN IF l.kind = "target" /\ IsConstant(r) THEN CompareValues(node.op, e.value, r.value)
     ELSE IF r.kind = "target" /\ IsConstant(l) THEN CompareValues(node.op, l.value, e.value)
     ELSE Folded(e, node)

NodeTruth(e, i, t) ==
  LET node == e.cond[i] IN
  CASE node.kind = "target"  -> TruthOf(e.value # 0)
    [] node.kind = "not"     -> Invert(t[node.left])
    [] node.kind = "and"     -> LogicalAnd(t[node.left], t[node.right])
    [] node.kind = "or"      -> LogicalOr(t[node.left], t[node.right])
    [] node.kind = "compare" -> ComparisonTruth(e, node)
    [] node.kind = "literal" -> TruthOf(node.value # 0)
    [] OTHER -> "Unknown"

InitEvaluation == evaluation \in Evaluations /\ truths = <<>> /\ meant = <<>>

EvaluateNode ==
  LET i == Len(truths) + 1 IN
  /\ i <= Len(evaluation.cond)
  /\ truths' = Append(truths, NodeTruth(evaluation, i, truths))
  /\ \E value \in Meanings(evaluation, i, meant) : meant' = Append(meant, value)
  /\ UNCHANGED evaluation

EvaluationSpec == InitEvaluation /\ [][EvaluateNode]_evaluationVars

-----------------------------------------------------------------------------
\* Guards: conditions that pick out some values of the result.

IsTargetComparison(cond, i, ops) ==
  LET node == cond[i] IN
  /\ node.kind = "compare" /\ node.op \in ops
  /\ \/ cond[node.left].kind = "target" /\ IsConstant(cond[node.right])
     \/ cond[node.right].kind = "target" /\ IsConstant(cond[node.left])

\* is_allowed_condition: equalities joined by ||.
IsAllowedCondition(cond) ==
  LET allowed[i \in DOMAIN cond] ==
        \/ IsTargetComparison(cond, i, {"=="})
        \/ cond[i].kind = "or" /\ allowed[cond[i].left] /\ allowed[cond[i].right]
  IN allowed

\* is_guard_condition: other comparisons, negated equalities, && and || of these.
IsGuardCondition(cond) ==
  LET guard[i \in DOMAIN cond] ==
        \/ IsTargetComparison(cond, i, {"!=", "<", "<=", ">", ">="})
        \/ cond[i].kind = "not" /\ IsAllowedCondition(cond)[cond[i].left]
        \/ cond[i].kind \in {"and", "or"} /\ guard[cond[i].left] /\ guard[cond[i].right]
  IN guard[Len(cond)]

\* The whole evaluation at once.
Evaluate(cond, value) ==
  LET e == [cond |-> cond, value |-> value]
      truth[i \in DOMAIN cond] == NodeTruth(e, i, [j \in 1..(i - 1) |-> truth[j]])
  IN truth[Len(cond)]

-----------------------------------------------------------------------------
(***************************************************************************)
(* No comparison of the evaluation converts a value to another one: the    *)
(* variable holds the result itself, and where an operand is unsigned both *)
(* are values of an unsigned int.  The evaluator compares mathematical     *)
(* values, so `n < sizeof(buffer)` with n = -1, or a result kept in a      *)
(* char, is beyond it: without this premise TLC refutes SoundTruth.        *)
(***************************************************************************)
KeepsValues(e) ==
  /\ Held(e) = e.value
  /\ \A i \in DOMAIN e.cond :
       LET node == e.cond[i] IN
       node.kind = "compare" /\ (\E o \in {node.left, node.right} : Unsigned(e.cond[o], e.type))
         => \A o \in {node.left, node.right} :
              /\ e.cond[o].kind = "target" => e.value \in 0..(IntStates - 1)
              /\ IsConstant(e.cond[o]) => e.cond[o].value \in 0..(IntStates - 1)

\* A truth that is not Unknown is the one C computes, whatever the nodes the
\* analysis cannot tell (evaluate_impl; every verdict on a check rests on it).
SoundTruth ==
  KeepsValues(evaluation) =>
    \A i \in DOMAIN truths :
      /\ truths[i] = "True" => meant[i] # 0
      /\ truths[i] = "False" => meant[i] = 0
=============================================================================
