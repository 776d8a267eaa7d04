---------------------------- MODULE ReturnDomains ----------------------------
(***************************************************************************)
(* AnalyzerDomains.cpp and ValueSetInference.cpp: which values may a       *)
(* function return?  The search goes through callees, variables and, for   *)
(* parameters, through callers; its answers are cached for good.           *)
(*                                                                         *)
(* A program is [functions, variables].  A function is                     *)
(*   [type, annotated, contract, returns, sites, external]: its type, the  *)
(* values an annotation promises ({} without one), its failure contract,   *)
(* what its body returns (<<>> without one), the arguments of each call of *)
(* it in the translation unit, and may it be called from elsewhere?        *)
(* A variable is [scope, of, place, writes]: "local", "global", or         *)
(* "parameter" number place of a function.  writes are those that may      *)
(* reach the place where the variable is read: [value, how, before], how:  *)
(* "initial", "plain" or "other" (+=, ++, & ...), before: does it stand    *)
(* before the read in the text?                                            *)
(* An expression is the sequence of its operands: one, or the arms of a    *)
(* ?: and of those within it.  An operand is one of                        *)
(*   [kind |-> "value", value |-> n], "opaque", [kind |-> "call", of |-> f], *)
(*   "function", which is f itself,                                        *)
(*   [kind |-> "variable", of |-> v], and "pointer", a call through v.     *)
(***************************************************************************)
EXTENDS Integers, Sequences

CONSTANTS
  Programs,            \* a sequence of sets of programs
  Universe             \* the values that occur

VARIABLES
  program,
  domains,             \* domain_cache_
  stack,               \* the questions being asked, the last one on top
  earlier,             \* the cache of an earlier analysis of the same unit, or <<>>
  runs                 \* what functions have returned and variables have held
domainVars == <<program, domains, stack, earlier, runs>>

-----------------------------------------------------------------------------
Finite(values) == [finite |-> TRUE, values |-> values, fallible |-> FALSE]
Open == [finite |-> FALSE, values |-> {}, fallible |-> FALSE]

\* type_domain, with a contract's domain in its place.
DomainOfType(f) ==
  IF f.contract = "negative" /\ f.type = "int" THEN [Finite({-1, 0}) EXCEPT !.fallible = TRUE]
  ELSE IF f.contract = "nonzero" THEN [Finite({0, 1}) EXCEPT !.fallible = TRUE]
  ELSE IF f.type = "bool" THEN Finite({0, 1}) ELSE Open

JoinedLoosely(d, e) == IF d.finite THEN Finite(d.values \cup e.values) ELSE e     \* a slip

\* What is known if both parts are.
Joined(d, e) == IF d.finite /\ e.finite THEN Finite(d.values \cup e.values) ELSE Open

-----------------------------------------------------------------------------
\* What a question leads to.

Call(f) == [kind |-> "call", of |-> f]
CalleeOf(x) == program.functions[x.of]
VariableOf(x) == program.variables[x.of]

\* The arguments for a parameter; calls with too few are passed over.
Arguments(v) ==
  LET sites == program.functions[v.of].sites
  IN [k \in DOMAIN sites |-> IF v.place <= Len(sites[k]) THEN sites[k][v.place] ELSE <<>>]

\* A call through a parameter calls what was passed, if it is named there.
Called(argument) ==
  IF argument = <<>> THEN <<>>
  ELSE IF Len(argument) = 1 /\ argument[1].kind = "function" THEN <<Call(argument[1].of)>>
  ELSE <<[kind |-> "opaque"]>>

\* SimpleAssignmentFinder, GlobalAssignmentFinder: the writes that are looked
\* at; for a local variable those before the read.
Relevant(v, k) == v.scope = "global" \/ v.writes[k].before

NoSimpleWrites(v) ==
  \/ \E k \in DOMAIN v.writes : Relevant(v, k) /\ v.writes[k].how = "other"
  \/ \E k \in DOMAIN v.writes : v.writes[k].how = "initial" /\ v.scope = "local"
                                  /\ ~v.writes[k].before
  \/ \A k \in DOMAIN v.writes : ~Relevant(v, k)

\* Is there anything to look at?  A promise or a contract settles a call.
Searched(x) ==
  CASE x.kind = "call" -> /\ CalleeOf(x).annotated = {} /\ ~DomainOfType(CalleeOf(x)).fallible
                          /\ CalleeOf(x).returns # <<>>
    [] x.kind = "pointer" -> /\ VariableOf(x).scope = "parameter"
                             /\ program.functions[VariableOf(x).of].sites # <<>>
    [] x.kind = "variable" -> IF VariableOf(x).scope = "parameter"
                              THEN program.functions[VariableOf(x).of].sites # <<>>
                              ELSE ~NoSimpleWrites(VariableOf(x))
    [] OTHER -> FALSE

\* The expressions looked at, in turn.
Parts(x) ==
  CASE x.kind = "call" -> CalleeOf(x).returns
    [] x.kind = "pointer" -> LET passed == Arguments(VariableOf(x))
                             IN [k \in DOMAIN passed |-> Called(passed[k])]
    [] OTHER ->
         LET v == VariableOf(x)
         IN IF v.scope = "parameter" THEN Arguments(v)
            ELSE [k \in DOMAIN v.writes |-> IF Relevant(v, k) THEN v.writes[k].value ELSE <<>>]

\* The answer if nothing is looked at.
Given(x) ==
  CASE x.kind = "value" -> Finite({x.value})
    [] x.kind = "call" -> IF CalleeOf(x).annotated # {} THEN Finite(CalleeOf(x).annotated)
                          ELSE DomainOfType(CalleeOf(x))
    [] OTHER -> Open

-----------------------------------------------------------------------------
\* The search: a question on the stack is [of, at, operand, known]; the next to
\* be looked at is that operand of part number at.

Question(x) == [of |-> x, at |-> 1, operand |-> 1, known |-> Finite({})]

Top == stack[Len(stack)]
Asked == Parts(Top.of)[Top.at][Top.operand]

\* At the end, or after an expression that may have any value.
Done(question) ==
  question.at > Len(Parts(question.of)) \/ (question.operand = 1 /\ ~question.known.finite)

\* The question after an answer to its operand.  All arms of a ?: are looked at.
Further(question, domain) ==
  LET last == question.operand = Len(Parts(question.of)[question.at])
  IN [of |-> question.of, known |-> Joined(question.known, domain),
      at |-> IF last THEN question.at + 1 ELSE question.at,
      operand |-> IF last THEN 1 ELSE question.operand + 1]

Cached(x) == x.kind = "call" /\ x.of \in DOMAIN domains

BeingAskedAny(x) == stack # <<>>                              \* a slip

\* Functions are active for the whole search, variables for one expression
\* that a function returns.
BeingAsked(x) ==
  \E k \in DOMAIN stack :
    /\ stack[k].of = x /\ x.kind # "pointer"
    /\ x.kind = "variable" => \A j \in DOMAIN stack : j > k => stack[j].of.kind # "call"

\* The answer to what is being asked already, which is not cached.
Provisional(x) == IF x.kind = "call" THEN DomainOfType(CalleeOf(x)) ELSE Open

KnownAtOnce(x) == Cached(x) \/ ~Searched(x) \/ BeingAsked(x)

AnswerAtOnce(x) ==
  IF Cached(x) THEN domains[x.of] ELSE IF ~Searched(x) THEN Given(x) ELSE Provisional(x)

\* What a search has found.
Found(question) ==
  IF question.known.finite THEN question.known ELSE Provisional(question.of)

Keeping(x, domain) ==
  IF x.kind # "call" THEN domains
  ELSE [f \in DOMAIN domains \cup {x.of} |-> IF f = x.of THEN domain ELSE domains[f]]

InitDomains ==
  /\ \E k \in DOMAIN Programs : program \in Programs[k]
  /\ domains = <<>> /\ stack = <<>> /\ earlier = <<>>
  /\ runs = [functions |-> [f \in DOMAIN program.functions |-> {}],
             variables |-> [v \in DOMAIN program.variables |-> {}]]

\* call_domain: a call of f is looked at.
AskDomain(f) ==
  /\ stack = <<>> /\ f \notin DOMAIN domains
  /\ IF Searched(Call(f))
     THEN stack' = <<Question(Call(f))>> /\ UNCHANGED domains
     ELSE domains' = Keeping(Call(f), Given(Call(f))) /\ UNCHANGED stack
  /\ UNCHANGED <<program, earlier, runs>>

Searching == stack # <<>> /\ UNCHANGED <<program, earlier, runs>>

\* A call that does not pass this argument, a write that does not count.
PassOver ==
  /\ Searching /\ ~Done(Top) /\ Parts(Top.of)[Top.at] = <<>>
  /\ stack' = [stack EXCEPT ![Len(stack)].at = @ + 1]
  /\ UNCHANGED domains

AnswerOperand ==
  /\ Searching /\ ~Done(Top) /\ Parts(Top.of)[Top.at] # <<>> /\ KnownAtOnce(Asked)
  /\ stack' = [stack EXCEPT ![Len(stack)] = Further(@, AnswerAtOnce(Asked))]
  /\ domains' = IF Searched(Asked) THEN domains ELSE Keeping(Asked, AnswerAtOnce(Asked))

SearchOperand ==
  /\ Searching /\ ~Done(Top) /\ Parts(Top.of)[Top.at] # <<>> /\ ~KnownAtOnce(Asked)
  /\ stack' = Append(stack, Question(Asked))
  /\ UNCHANGED domains

ReturnDomain ==
  /\ Searching /\ Done(Top)
  /\ domains' = Keeping(Top.of, Found(Top))
  /\ stack' = [k \in 1..(Len(stack) - 1) |->
                 IF k = Len(stack) - 1 THEN Further(stack[k], Found(Top)) ELSE stack[k]]

-----------------------------------------------------------------------------
\* What the functions return and the variables hold when the program runs, in
\* any context it may run in, from what they returned and held before.

TypedValue(type, n) == IF type = "bool" /\ n # 0 THEN 1 ELSE n

ValuesOf(x, before) ==
  CASE x.kind = "value" -> {x.value}
    [] x.kind = "call" -> before.functions[x.of]
    [] x.kind = "variable" -> before.variables[x.of]
    [] x.kind = "pointer" ->
         LET v == VariableOf(x)
         IN IF v.scope # "parameter" \/ program.functions[v.of].external THEN Universe
            ELSE UNION {UNION {IF argument[j].kind = "function" THEN before.functions[argument[j].of]
                               ELSE Universe : j \in DOMAIN argument} :
                          argument \in {Arguments(v)[k] : k \in DOMAIN Arguments(v)}}
    [] OTHER -> Universe

ValuesIn(expressions, before) ==
  UNION {UNION {ValuesOf(expressions[k][j], before) : j \in DOMAIN expressions[k]} :
           k \in DOMAIN expressions}

Returned(f, before) ==
  IF f.annotated # {} THEN f.annotated
  ELSE {TypedValue(f.type, n) :
          n \in IF f.returns = <<>> THEN Universe ELSE ValuesIn(f.returns, before)}

HeldBy(v, before) ==
  LET written == IF \E k \in DOMAIN v.writes : v.writes[k].how = "other" THEN Universe
                 ELSE ValuesIn([k \in DOMAIN v.writes |-> v.writes[k].value], before)
  IN CASE v.scope = "parameter" ->
            written \cup ValuesIn(Arguments(v), before)
                    \cup (IF program.functions[v.of].external THEN Universe ELSE {})
       [] v.scope = "global" /\ ~\E k \in DOMAIN v.writes : v.writes[k].how = "initial" ->
            written \cup {0}
       [] OTHER -> written

AllAsked == stack = <<>> /\ DOMAIN domains = DOMAIN program.functions

\* Another analysis of the same unit, which may meet the calls in another order.
AnalyzeAgain ==
  /\ AllAsked /\ earlier = <<>>
  /\ earlier' = domains /\ domains' = <<>>
  /\ UNCHANGED <<program, stack, runs>>

\* Then the program runs: everything is called once more.
Run ==
  /\ AllAsked /\ earlier # <<>>
  /\ runs' = [functions |-> [f \in DOMAIN program.functions |->
                               runs.functions[f] \cup Returned(program.functions[f], runs)],
              variables |-> [v \in DOMAIN program.variables |->
                               runs.variables[v] \cup HeldBy(program.variables[v], runs)]]
  /\ runs' # runs
  /\ UNCHANGED <<program, domains, stack, earlier>>

NextDomains ==
  \/ \E f \in DOMAIN program.functions : AskDomain(f)
  \/ PassOver \/ AnswerOperand \/ SearchOperand \/ ReturnDomain
  \/ AnalyzeAgain \/ Run

DomainsSpec == InitDomains /\ [][NextDomains]_domainVars

-----------------------------------------------------------------------------
\* What may be said of a program.

Operands(p) ==
  [kind : {"value"}, value : Int] \cup [kind : {"opaque"}]
    \cup [kind : {"call", "function"}, of : DOMAIN p.functions]
    \cup [kind : {"variable", "pointer"}, of : DOMAIN p.variables]

Expressions(p) == Seq(Operands(p))

PossibleFunction(p, f) ==
  /\ f.annotated \subseteq Int /\ f.external \in BOOLEAN
  /\ f.returns \in Seq(Expressions(p)) /\ f.sites \in Seq(Seq(Expressions(p)))

PossibleVariable(p, v) ==
  /\ v.scope \in {"local", "global", "parameter"} /\ v.of \in DOMAIN p.functions
  /\ v.place \in Nat \ {0}
  /\ v.writes \in Seq([value : Expressions(p), how : {"initial", "plain", "other"}, before : BOOLEAN])

ASSUME ProgramsAssumption ==
  \A k \in DOMAIN Programs : \A p \in Programs[k] :
    /\ \A f \in DOMAIN p.functions : PossibleFunction(p, p.functions[f])
    /\ \A v \in DOMAIN p.variables : PossibleVariable(p, p.variables[v])

-----------------------------------------------------------------------------
\* The questions there may be.
Questions ==
  {Call(f) : f \in DOMAIN program.functions}
    \cup {[kind |-> "variable", of |-> v] : v \in DOMAIN program.variables}
    \cup {[kind |-> "pointer", of |-> v] :
            v \in {w \in DOMAIN program.variables : program.variables[w].scope = "parameter"}}

\* What an answer rests on, at once and in the end.
Reads(x) ==
  {y \in Questions : Searched(x) /\ \E k \in DOMAIN Parts(x) : \E j \in DOMAIN Parts(x)[k] :
                       Parts(x)[k][j] = y}

RestsOn(x) ==
  LET links == UNION {{y} \X Reads(y) : y \in Questions}
      closed == {names \in SUBSET Questions :
                   x \in names /\ \A link \in links : link[1] \in names => link[2] \in names}
  IN {y \in Questions : \A names \in closed : y \in names}

\* Where the analyser knows better than the program: values that stand for
\* all below zero or all but zero; what bool makes of a value; a write that
\* comes around a loop; parameters that are written, or passed from elsewhere;
\* a global before its first write.
Approximate(x) ==
  IF x.kind = "call"
  THEN /\ CalleeOf(x).annotated = {}
       /\ \/ DomainOfType(CalleeOf(x)).fallible
          \/ CalleeOf(x).type = "bool" /\ ~(ValuesIn(CalleeOf(x).returns, runs) \subseteq {0, 1})
  ELSE LET v == VariableOf(x)
       IN CASE v.scope = "parameter" -> v.writes # <<>> \/ program.functions[v.of].external
            [] v.scope = "local" -> \E k \in DOMAIN v.writes : ~v.writes[k].before
            [] OTHER -> ~\E k \in DOMAIN v.writes : v.writes[k].how = "initial"

\* A finite domain holds every value the function may return, whatever was
\* asked before; else a check that covers the domain would be called exhaustive
\* and leave a value out.  The exceptions are those of Approximate.
DomainsHoldReturns ==
  \A f \in DOMAIN domains :
    domains[f].finite => \/ runs.functions[f] \subseteq domains[f].values
                         \/ \E x \in RestsOn(Call(f)) : Approximate(x)

\* A function whose answer rests on its own.
Recursive(x) == x.kind = "call" /\ \E y \in Reads(x) : x \in RestsOn(y)

\* Is something other than 0 and 1 among the values read here?
OtherThanTruth(x) ==
  IF Searched(x)
  THEN \E k \in DOMAIN Parts(x) : \E j \in DOMAIN Parts(x)[k] :
         Parts(x)[k][j].kind = "value" /\ Parts(x)[k][j].value \notin {0, 1}
  ELSE ~(Given(x).values \subseteq {0, 1})

\* A provisional answer that the final one may not bear out: the domain of the
\* type, while what is returned in the circle is of another type, or not a bool.
Unsteady(x) ==
  /\ Recursive(x)
  /\ \/ \E y \in RestsOn(x) : /\ y.kind = "call" /\ x \in RestsOn(y)
                              /\ Provisional(y) # Provisional(x)
     \/ Provisional(x).finite /\ \E y \in RestsOn(x) : OtherThanTruth(y)

\* The domain of a function does not depend on which calls are looked at first:
\* the findings in one function are the same whatever stands above it.  Excepted
\* is what rests on an unsteady circle: there the provisional answer is kept in
\* the cache of another function.
OrderDoesNotMatter ==
  \A f \in DOMAIN domains \cap DOMAIN earlier :
    domains[f] = earlier[f] \/ \E x \in RestsOn(Call(f)) : Unsteady(x)
=============================================================================
