------------------------------- MODULE Checks -------------------------------
(***************************************************************************)
(* AnalyzerControlFlow.cpp and IfChain.cpp: which values of a return       *)
(* domain does an if chain, a switch or a lone condition handle?           *)
(*   a domain is [finite, fallible, values, failures]                      *)
(*   an if chain is [conds, otherwise, bodies]: the conditions of its ifs, *)
(*     does it end in an else, what is in the body of each if              *)
(*   a switch is [cases, default]: a case is a range [low, high]           *)
(* A verdict is [exhaustive, missing].                                     *)
(***************************************************************************)
EXTENDS Conditions, FiniteSets

Exhaustive == [exhaustive |-> TRUE, missing |-> {}]
OpenEnded == [exhaustive |-> FALSE, missing |-> {}]
Missing(values) == [exhaustive |-> values = {}, missing |-> values]

\* statement_exits: some statement of the body jumps, calls a noreturn
\* function, or is an if both branches of which exit.
StatementExits(body) == body \cap {"jump", "noreturn", "forked jump"} # {}

IsTrueOf(cond, value) == Evaluate(cond, value) = "True"

ExitsOnSomeFailure(chain, domain) ==      \* a slip
  /\ domain.fallible /\ domain.finite /\ StatementExits(chain.bodies[1])
  /\ \E value \in domain.failures : IsTrueOf(chain.conds[1], value)

ExitsOnAllFailures(chain, domain) ==
  /\ domain.fallible /\ domain.finite /\ StatementExits(chain.bodies[1])
  /\ domain.failures # {}
  /\ \A value \in domain.failures : IsTrueOf(chain.conds[1], value)

\* What settles an if before its values are looked at one by one.
SettledIf(chain, domain) ==
  \/ chain.otherwise
  \/ IF domain.fallible THEN ExitsOnAllFailures(chain, domain)
     ELSE IsGuardCondition(chain.conds[1]) /\ StatementExits(chain.bodies[1])

AnalyzeIfChain(chain, domain) ==
  IF SettledIf(chain, domain) THEN Exhaustive
  ELSE IF ~domain.finite THEN OpenEnded
  ELSE Missing({value \in domain.values :
                  \A k \in DOMAIN chain.conds : ~IsTrueOf(chain.conds[k], value)})

\* A loop's condition, or that of ?:.
AnalyzeCondition(cond, domain) ==
  IF ~domain.finite THEN OpenEnded
  ELSE Missing({value \in domain.values : ~IsTrueOf(cond, value)})

\* An if whose condition holds the call itself: the rest of its chain cannot.
AnalyzeDirectIf(chain, domain) ==
  IF SettledIf(chain, domain) THEN Exhaustive
  ELSE AnalyzeCondition(chain.conds[1], domain)

AnalyzeSwitch(switch, domain) ==
  IF switch.default THEN Exhaustive
  ELSE IF ~domain.finite THEN OpenEnded
  ELSE Missing({value \in domain.values :
                  \A case \in switch.cases : ~(case.low <= value /\ value <= case.high)})
=============================================================================
