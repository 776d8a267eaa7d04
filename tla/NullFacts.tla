------------------------------ MODULE NullFacts ------------------------------
(***************************************************************************)
(* The facts of the null-state analysis: what is known of one pointer      *)
(* (PointerFact), and their joins.                                         *)
(*                                                                         *)
(* origin     does the pointer hold the result of the call looked for, on  *)
(*            no path, on every path, or on some?                          *)
(* nullState  what the conditions passed so far say of it.                 *)
(***************************************************************************)

Origins == {"No", "Yes", "Maybe"}
NullStates == {"MaybeNull", "NonNull", "Null"}

PointerFacts == [origin : Origins, nullState : NullStates]

\* PointerFact{}
NoFact == [origin |-> "No", nullState |-> "MaybeNull"]

\* The maps of State hold no other fact of origin No.
StoredFacts == {f \in PointerFacts : f.origin = "No" => f = NoFact}

JoinNullState(a, b) == IF a = b THEN a ELSE "MaybeNull"

JoinFactKeepsYes(a, b) ==   \* a slip: what some path holds, every path holds
  IF a.origin = "No" THEN b
  ELSE IF b.origin = "No" THEN a
  ELSE [origin |-> IF a.origin = b.origin THEN a.origin ELSE "Maybe",
        nullState |-> JoinNullState(a.nullState, b.nullState)]

\* join_fact: a path on which the pointer is not followed has no say about
\* its null state.
JoinFact(a, b) ==
  IF a.origin = "No" /\ b.origin = "No" THEN NoFact
  ELSE IF a.origin = "No" THEN [b EXCEPT !.origin = "Maybe"]
  ELSE IF b.origin = "No" THEN [a EXCEPT !.origin = "Maybe"]
  ELSE [origin |-> IF a.origin = "Yes" /\ b.origin = "Yes" THEN "Yes" ELSE "Maybe",
        nullState |-> JoinNullState(a.nullState, b.nullState)]

\* diagnose: the pointer may be the unchecked result.
Unchecked(f) == f.origin # "No" /\ f.nullState # "NonNull"

\* The declarations' part of State::join: merged state, and whether it changed.
JoinDecls(a, b) == [d \in DOMAIN a |-> JoinFact(a[d], b[d])]
=============================================================================
