------------------------ MODULE NullableInferenceMC ------------------------
(***************************************************************************)
(* Every program of three functions whose bodies are drawn from the shapes *)
(* below: no call, one call, or two calls, whose results are returned at   *)
(* once, held, or dropped, next to a NULL, a safe return or an error       *)
(* pointer; annotated functions, and functions without a CFG.              *)
(***************************************************************************)
EXTENDS NullableInference, TLC

CONSTANTS f1, f2, f3

MCFunctions == {f1, f2, f3}

R(how, site) == [how |-> how, site |-> site]
Walked(calls, returns) ==
  [annotated |-> FALSE, hasCFG |-> TRUE, calls |-> calls, returns |-> returns]

Leaves == {
  [Walked(<<>>, <<>>) EXCEPT !.annotated = TRUE],
  Walked(<<>>, <<R("safe", 0), R("null", 0)>>),
  Walked(<<Failing>>, <<R("held", 1)>>),
  Walked(<<Opaque>>, <<R("direct", 1)>>),
  [Walked(<<>>, <<R("param", 0)>>) EXCEPT !.hasCFG = FALSE]}

OneCall(c) == {
  Walked(<<c>>, <<R("direct", 1)>>),
  Walked(<<c>>, <<R("held", 1), R("null", 0)>>),
  Walked(<<c>>, <<R("safe", 0), R("held", 1)>>),
  Walked(<<c>>, <<R("error", 0), R("direct", 1)>>),
  [Walked(<<c>>, <<R("held", 1), R("direct", 1)>>) EXCEPT !.hasCFG = FALSE]}

TwoCalls(c, d) == {Walked(<<c, d>>, <<R("held", 2), R("direct", 1)>>)}

Shapes(self) ==
  Leaves \cup UNION {OneCall(c) : c \in MCFunctions}
    \cup UNION {TwoCalls(c, d) : c, d \in MCFunctions \ {self}}

\* Renaming the functions changes nothing, so their shapes may be sorted.
Rank == [null |-> 0, safe |-> 1, error |-> 2, param |-> 3, direct |-> 4, held |-> 5]
Weight(body) ==
  20 * Len(body.calls) + (IF body.hasCFG THEN 10 ELSE 0)
    + (IF body.annotated THEN 0 ELSE 1 + Rank[body.returns[1].how])

MCPrograms ==
  {p \in {(f1 :> a) @@ (f2 :> b) @@ (f3 :> c) :
           a \in Shapes(f1), b \in Shapes(f2), c \in Shapes(f3)} :
     Weight(p[f1]) <= Weight(p[f2]) /\ Weight(p[f2]) <= Weight(p[f3])}

=============================================================================
