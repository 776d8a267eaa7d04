--------------------------- MODULE HandlerFinderMC ---------------------------
(***************************************************************************)
(* The search for checks on small texts, and the evaluation of conditions  *)
(* it rests on.  A behaviour does one or the other.                        *)
(***************************************************************************)
EXTENDS HandlerFinder, TLC

-----------------------------------------------------------------------------
\* Conditions.

Target == [kind |-> "target"]
Other == [kind |-> "other"]
Literal(n) == [kind |-> "literal", value |-> n, unsigned |-> FALSE]
Constants ==
  {Literal(n) : n \in -1..1} \cup {[kind |-> "literal", value |-> 1, unsigned |-> TRUE],
                                   [kind |-> "known", value |-> 0, unsigned |-> FALSE]}
Operators == {"==", "!=", "<", "<=", ">", ">="}

ComparisonOf(op, l, r) == <<l, r, [kind |-> "compare", op |-> op, left |-> 1, right |-> 2]>>

Moved(node, n) ==
  CASE node.kind = "not" -> [node EXCEPT !.left = @ + n]
    [] node.kind \in {"and", "or", "compare"} -> [node EXCEPT !.left = @ + n, !.right = @ + n]
    [] OTHER -> node

Not(c) == Append(c, [kind |-> "not", left |-> Len(c)])
Both(kind, c, d) ==
  c \o [i \in DOMAIN d |-> Moved(d[i], Len(c))]
    \o <<[kind |-> kind, left |-> Len(c), right |-> Len(c) + Len(d)]>>

Comparisons ==
  {ComparisonOf(op, Target, k) : op \in Operators, k \in Constants}
    \cup {ComparisonOf(op, k, Target) : op \in Operators, k \in Constants}
    \cup {ComparisonOf("<", Target, Other), ComparisonOf("<", Literal(-1), Literal(0)),
          ComparisonOf("<", Literal(-1), [kind |-> "literal", value |-> 1, unsigned |-> TRUE])}
Terms == Comparisons \cup {<<Target>>, <<Other>>, <<Literal(0)>>, <<Literal(1)>>}
SomeTerms ==
  {<<Target>>, <<Other>>, <<Literal(0)>>, ComparisonOf("<", Target, Literal(0)),
   ComparisonOf(">=", Literal(0), Target), ComparisonOf("==", Target, Literal(1))}
SomeConditions ==
  Terms \cup {Not(c) : c \in Terms}
    \cup {Both(kind, c, d) : kind \in {"and", "or"}, c \in SomeTerms, d \in SomeTerms}
    \cup {Both("or", Not(c), Both("and", d, c)) : c \in SomeTerms, d \in SomeTerms}

VariableTypes == [states : {4, 8}, unsigned : BOOLEAN]

SomeEvaluations ==
  [cond : SomeConditions, value : {-2, -1, 0, 1, 5}, type : VariableTypes]

-----------------------------------------------------------------------------
\* Texts.

Is(x) == [as |-> "is", of |-> x]
PartOf(x) == [as |-> "mentions", of |-> x]
Plain == [as |-> "plain", of |-> "none"]

Negative == ComparisonOf("<", Target, Literal(0))
MinusOne == ComparisonOf("==", Target, Literal(-1))
Zero == ComparisonOf("==", Literal(0), Target)
BelowUnsigned == ComparisonOf("<", Target, [kind |-> "literal", value |-> 1, unsigned |-> TRUE])
Chain(conds, otherwise, bodies) ==
  [conds |-> conds, otherwise |-> otherwise, bodies |-> bodies]

Chains ==
  {Chain(<<Negative>>, FALSE, <<{"jump"}>>), Chain(<<Zero>>, FALSE, <<{"plain"}>>),
   Chain(<<BelowUnsigned>>, FALSE, <<{"plain"}>>),
   Chain(<<MinusOne>>, FALSE, <<{"plain", "jump"}>>),
   Chain(<<MinusOne, Negative>>, FALSE, <<{"plain"}, {"jump"}>>),
   Chain(<<Both("and", Negative, <<Other>>)>>, FALSE, <<{"noreturn"}>>),
   Chain(<<Zero>>, TRUE, <<{"plain"}>>)}
Range1(low, high) == [low |-> low, high |-> high]
Switches ==
  {[cases |-> {Range1(0, 0)}, default |-> FALSE], [cases |-> {Range1(-2, -1)}, default |-> FALSE],
   [cases |-> {Range1(-1, 0)}, default |-> FALSE], [cases |-> {}, default |-> TRUE]}

Checking ==
  [op : {"if"}, of : {"x"}, chain : Chains]
    \cup [op : {"if"}, of : {"y"}, chain : {Chain(<<Negative, Zero>>, FALSE, <<{"plain"}, {"jump"}>>)}]
    \cup [op : {"condition"}, of : {"x"}, cond : {Negative, Not(Negative)}]
    \cup [op : {"condition"}, of : {"y"}, cond : {Zero}]
    \cup [op : {"switch"}, of : {"x"}, switch : Switches, direct : {TRUE}]
    \cup [op : {"switch"}, of : {"x"}, direct : {FALSE},
          switch : {[cases |-> {Range1(0, 0)}, default |-> FALSE]}]
Declaring == [op : {"declare"}, to : {"y"}, from : {Is("x"), PartOf("x"), Plain}]
Assigning ==
  [op : {"assign"}, to : {"x", "y"}, from : {Is("y"), Is("x"), PartOf("x"), Plain}]
    \cup [op : {"assign"}, to : {"elsewhere"}, from : {PartOf("x"), Plain}]
    \cup [op : {"update"}, to : {"x", "y"}, from : {Is("x")}]
    \cup [op : {"step"}, of : {"x", "y"}]
Using ==
  [op : {"use"}, from : {Is("x"), PartOf("y")}] \cup [op : {"share"}, of : {"x"}]
    \cup [op : {"pass"}, of : {"x", "y"}, callee : {1}]
Leaving == [op : {"return"}, from : {Is("x"), Is("y"), PartOf("x"), Plain}]

Domains ==
  {[finite |-> TRUE, fallible |-> FALSE, values |-> {-1, 0}, failures |-> {}],
   [finite |-> TRUE, fallible |-> TRUE, values |-> {-2, -1, 0}, failures |-> {-2, -1}],
   [finite |-> FALSE, fallible |-> FALSE, values |-> {}, failures |-> {}]}

TextsOf(statements, start, checking, passing) ==
  [statements : statements, start : {start}, domain : Domains,
   checking : checking, passing : passing]

Chained == {1 :> {2} @@ 2 :> {}}

\* Three statements after the call, one before it, and every call graph.
SomeTexts ==
  <<TextsOf((Declaring \cup Assigning) \X (Checking \cup Using \cup Assigning)
              \X (Checking \cup [op : {"return"}, from : {Is("y")}]), 0, {{2}}, Chained),
    TextsOf((Checking \cup Using) \X (Checking \cup Using) \X (Leaving \cup Using), 0, {{2}}, Chained),
    TextsOf((Checking \cup Using \cup {s \in Assigning : ~(s.op = "assign" /\ s.to = "y")})
              \X (Checking \cup Declaring), 1, {{2}}, Chained),
    TextsOf({<<s>> : s \in [op : {"pass"}, of : {"x"}, callee : {1}]}, 0,
            SUBSET (1..3), [1..3 -> SUBSET (1..3)])>>

-----------------------------------------------------------------------------
VARIABLE task          \* "evaluate" a condition or "search" a text
mcVars == <<task, evaluationVars, handlerVars>>

Idle == CHOOSE e \in SomeEvaluations : e.cond = <<Other>>
Blank == [statements |-> <<>>, start |-> 0, domain |-> CHOOSE d \in Domains : ~d.finite,
          checking |-> {}, passing |-> <<>>]

Init ==
  \/ /\ task = "evaluate" /\ InitEvaluation
     /\ text = Blank /\ at = 1 /\ verdict = "none" /\ finder = NothingFound
     /\ holding = {Result} /\ decided = {} /\ settled = FALSE /\ read = FALSE
  \/ /\ task = "search" /\ InitSearch
     /\ evaluation = Idle /\ truths = <<>> /\ meant = <<>>

Next ==
  \/ task = "evaluate" /\ EvaluateNode /\ UNCHANGED <<task, handlerVars>>
  \/ task = "search" /\ NextSearch /\ UNCHANGED <<task, evaluationVars>>

Spec == Init /\ [][Next]_mcVars
=============================================================================
