---------------------------- MODULE HandlerFinder ----------------------------
(***************************************************************************)
(* HandlerFinder.cpp: a search of the text of a function, in source order  *)
(* and blind to its control flow, for checks of the variable that holds    *)
(* the result of a call; and analyze_variable of AnalyzerCalls.cpp, which  *)
(* makes a verdict of what it found.  A text is                            *)
(*   [statements, start, domain, checking, passing]                        *)
(* the call being in the declaration of Result right after the first start *)
(* statements; the functions it can call either check their parameter      *)
(* (checking) or hand it to others (passing).  The statements:             *)
(*   [op |-> "declare", to, from], [op |-> "assign", to, from]             *)
(*   [op |-> "update", to, from]      `to += from`                         *)
(*   [op |-> "step", of]              `of++`                               *)
(*   [op |-> "use", from], [op |-> "share", of]    `f(&of)`                *)
(*   [op |-> "pass", of, callee], [op |-> "return", from]                  *)
(*   [op |-> "if", of, chain], [op |-> "condition", of, cond]              *)
(*   [op |-> "switch", of, switch, direct]   direct: on `of` itself        *)
(* from is [as, of]: it "is" a variable, only "mentions" it, or "plain".   *)
(* to may be "elsewhere": a member or an element.                          *)
(* Beside the search the text is executed once, straight down: the bodies  *)
(* of its checks are empty or leave.                                       *)
(***************************************************************************)
EXTENDS Checks

CONSTANTS
  Texts,               \* families of functions that may be searched: a sequence
  Result               \* the variable the call initialises

IntType == [states |-> IntStates, unsigned |-> FALSE]

StatementKinds ==
  {"declare", "assign", "update", "step", "use", "share", "pass", "return", "if", "condition",
   "switch"}

BodyStatements == {"plain", "jump", "noreturn", "forked jump"}

ConditionsOf(s) ==
  CASE s.op = "if" -> {s.chain.conds[k] : k \in DOMAIN s.chain.conds}
    [] s.op = "condition" -> {s.cond}
    [] OTHER -> {}

\* The i-th statement: a declared variable is a new one.
WellFormedStatement(t, i) ==
  LET s == t.statements[i] IN
  /\ s.op \in StatementKinds
  /\ s.op = "pass" => s.callee \in DOMAIN t.passing
  /\ s.op = "if" =>
       /\ s.chain.conds \in Seq(ConditionsOf(s)) \ {<<>>}
       /\ s.chain = [conds |-> s.chain.conds, otherwise |-> s.chain.otherwise,
                     bodies |-> s.chain.bodies]
       /\ s.chain.bodies \in [DOMAIN s.chain.conds -> SUBSET BodyStatements]
  /\ \A cond \in ConditionsOf(s) : WellFormed(cond)
  /\ s.op = "declare" =>
       /\ s.to \notin {Result, "elsewhere"}
       /\ \A j \in 1..(i - 1) :
            t.statements[j].op \in {"declare", "assign"} => t.statements[j].to # s.to

WellFormedText(t) ==
  /\ t.statements \in Seq({t.statements[i] : i \in DOMAIN t.statements})
  /\ t.start \in Nat
  /\ t.domain.values \subseteq Int /\ t.domain.failures \subseteq Int
  /\ t.domain.finite \in BOOLEAN /\ t.domain.fallible \in BOOLEAN
  /\ IsFiniteSet(DOMAIN t.passing)
  /\ \A f \in DOMAIN t.passing : t.passing[f] \subseteq DOMAIN t.passing
  /\ \A i \in DOMAIN t.statements : WellFormedStatement(t, i)

TextAssumption ==
  Result # "elsewhere" /\ \A family \in DOMAIN Texts : \A t \in Texts[family] : WellFormedText(t)

ASSUME TextAssumption

VARIABLES
  text,                \* the function searched
  at,                  \* the statement visited next
  finder,              \* what the search knows
  verdict,             \* what analyze_variable says in the end
  holding,             \* the run: which variables hold the result
  decided,             \* the values some executed check surely decided
  settled,             \* has some check settled every value by convention?
  read                 \* was the result used, other than to be copied?
searchVars == <<text, at, finder, verdict>>
runVars == <<holding, decided, settled, read>>
handlerVars == <<searchVars, runVars>>

NothingFound ==
  [tracked |-> {Result}, covered |-> {}, use |-> FALSE, check |-> FALSE,
   forwarded |-> FALSE, exhaustive |-> FALSE, invalidated |-> FALSE]

-----------------------------------------------------------------------------
\* function_checks_parameter: the parameters being looked at answer false.

ChecksParameterFirstPass(callee) ==      \* a slip: one level only
  callee \in text.checking \/ text.passing[callee] \cap text.checking # {}

ChecksParameter(callee) ==
  LET checks[active \in SUBSET DOMAIN text.passing] ==
        [f \in DOMAIN text.passing |->
           /\ f \notin active
           /\ \/ f \in text.checking
              \/ \E next \in text.passing[f] : checks[active \cup {f}][next]]
  IN checks[{}][callee]

-----------------------------------------------------------------------------
\* The tracked variables.

Tracks(f, x) == x \in f.tracked
Forwards(f, e) == e.as = "is" /\ Tracks(f, e.of)
Mentions(f, e) == e.as # "plain" /\ Tracks(f, e.of)

AddTracked(f, x) == [f EXCEPT !.tracked = @ \cup {x}]

RemoveTracked(f, x) ==
  [f EXCEPT !.tracked = @ \ {x}, !.invalidated = (f.tracked \subseteq {x})]

Ended(f) == [f EXCEPT !.invalidated = TRUE]
WithUse(f) == [f EXCEPT !.use = TRUE]

\* VisitDeclRefExpr, for what an expression mentions.
Referenced(f, names) ==
  IF ~f.invalidated /\ \E x \in names : Tracks(f, x) THEN WithUse(f) ELSE f

Named(e) == IF e.as = "plain" THEN {} ELSE {e.of}

-----------------------------------------------------------------------------
\* The checks.

AllHandled(f) == [f EXCEPT !.exhaustive = TRUE, !.covered = text.domain.values]

\* mark_if_chain, mark_condition: coverage adds up over the checks met.
Marked(f, result) ==
  LET g == [f EXCEPT !.check = TRUE]
      covered == f.covered \cup (text.domain.values \ result.missing)
  IN IF result.exhaustive THEN AllHandled(g)
     ELSE IF ~text.domain.finite THEN g
     ELSE [g EXCEPT !.covered = covered, !.exhaustive = (covered = text.domain.values)]

\* mark_switch adds to the coverage and leaves the conclusion to others.
MarkedSwitch(f, result) ==
  LET g == [f EXCEPT !.check = TRUE]
  IN IF result.exhaustive THEN AllHandled(g)
     ELSE IF ~text.domain.finite THEN g
     ELSE [g EXCEPT !.covered = @ \cup (text.domain.values \ result.missing)]

\* Every else-if is visited as an if of its own, after the one it belongs to.
FromElseIf(chain, k) ==
  [chain EXCEPT !.conds = SubSeq(@, k, Len(@)), !.bodies = SubSeq(@, k, Len(@))]

MarkedIf(f, chain) ==
  LET marked[k \in 0..Len(chain.conds)] ==
        IF k = 0 THEN f
        ELSE Marked(marked[k - 1], AnalyzeIfChain(FromElseIf(chain, k), text.domain))
  IN marked[Len(chain.conds)]

-----------------------------------------------------------------------------
\* What each visitor makes of a statement; op names the statements it is for.

IfStmt(f, s) ==
  IF Tracks(f, s.of) THEN Referenced(MarkedIf(f, s.chain), {s.of}) ELSE f

Condition(f, s) ==
  IF Tracks(f, s.of) THEN Referenced(Marked(f, AnalyzeCondition(s.cond, text.domain)), {s.of})
  ELSE f

SwitchStmt(f, s) ==
  IF Tracks(f, s.of)
  THEN Referenced(MarkedSwitch(f, AnalyzeSwitch(s.switch, text.domain)), {s.of})
  ELSE f

DeclStmtUnused(f, s) ==                \* a slip: a use that does not count
  IF Forwards(f, s.from) THEN AddTracked(f, s.to)
  ELSE IF Mentions(f, s.from) THEN Ended(f) ELSE f

\* The initialisers are not traversed.
DeclStmt(f, s) ==
  IF Forwards(f, s.from) THEN AddTracked(f, s.to)
  ELSE IF Mentions(f, s.from) THEN Ended(WithUse(f)) ELSE f

\* VisitBinaryOperator, then the operands.
Assignment(f, s) ==
  LET lost == IF s.op = "update" \/ Mentions(f, s.from) THEN WithUse(f) ELSE f
  IN Referenced(
       IF s.op = "assign" /\ s.to # "elsewhere" /\ Forwards(f, s.from) THEN AddTracked(f, s.to)
       ELSE IF Tracks(f, s.to) THEN RemoveTracked(lost, s.to)
       ELSE IF Mentions(f, s.from) THEN Ended(WithUse(f)) ELSE f,
       {s.to} \cup Named(s.from))

UnaryOperatorKept(f, s) ==             \* a slip: goes on tracking the variable
  IF Tracks(f, s.of) THEN WithUse(f) ELSE f

UnaryOperator(f, s) ==
  IF Tracks(f, s.of) THEN Referenced(RemoveTracked(WithUse(f), s.of), {s.of}) ELSE f

DeclRefExpr(f, s) == Referenced(f, IF s.op = "use" THEN Named(s.from) ELSE {s.of})

CallExpr(f, s) ==
  Referenced(IF Tracks(f, s.of) /\ ChecksParameter(s.callee)
             THEN RemoveTracked(AllHandled(f), s.of) ELSE f,
             {s.of})

ReturnStmt(f, s) ==
  IF Forwards(f, s.from) THEN Ended([f EXCEPT !.forwarded = TRUE])
  ELSE Referenced(f, Named(s.from))

OccursAfter(i) == i > text.start

ListeningOn(f, i) == OccursAfter(i)    \* a slip: goes on after the search has ended

\* Only what comes after the call counts, and nothing once the search is over.
Listening(f, i) == OccursAfter(i) /\ ~f.invalidated

Here == text.statements[at]

Visit(ops, found) ==
  /\ at <= Len(text.statements) /\ Here.op \in ops
  /\ finder' = IF Listening(finder, at) THEN found ELSE finder
  /\ at' = at + 1
  /\ UNCHANGED <<text, verdict>>

\* analyze_variable
Verdict(f) ==
  IF f.exhaustive THEN "ExhaustivelyChecked"
  ELSE IF f.forwarded THEN "Forwarded"
  ELSE IF f.check THEN "PartiallyChecked"
  ELSE IF f.use THEN "Consumed" ELSE "Ignored"

-----------------------------------------------------------------------------
\* The run of the text.  Only here conditions mean what C makes of them.

\* A condition is surely true if its last node is, whatever C gives the others.
NodeValues(e) ==
  {0, 1, Held(e)} \cup {e.cond[i].value : i \in {j \in DOMAIN e.cond : IsConstant(e.cond[j])}}

SurelyTrue(cond, value) ==
  LET e == [cond |-> cond, value |-> value, type |-> IntType] IN
  \A m \in [DOMAIN cond -> NodeValues(e)] :
    (\A i \in DOMAIN cond : m[i] \in Meanings(e, i, m)) => m[Len(cond)] # 0

\* The values for which a branch of the check is surely taken.
Decides(s) ==
  {value \in text.domain.values :
     CASE s.op = "if" -> \E k \in DOMAIN s.chain.conds : SurelyTrue(s.chain.conds[k], value)
       [] s.op = "condition" -> SurelyTrue(s.cond, value)
       [] OTHER -> s.direct /\ \E case \in s.switch.cases : value \in case.low..case.high}

\* A final else or default settles what is left, a guard that leaves the rest;
\* where failures are known, all of them must surely satisfy its condition.
Settles(s) ==
  \/ s.op = "switch" /\ s.switch.default
  \/ /\ s.op = "if"
     /\ \/ s.chain.otherwise
        \/ \E k \in DOMAIN s.chain.conds :
             /\ StatementExits(s.chain.bodies[k])
             /\ IF text.domain.fallible
                THEN /\ text.domain.failures # {}
                     /\ \A value \in text.domain.failures : SurelyTrue(s.chain.conds[k], value)
                ELSE IsGuardCondition(s.chain.conds[k])

\* The functions the value reaches, however far: the least set that has them.
Reach(callee) ==
  {f \in DOMAIN text.passing :
     \A reached \in SUBSET DOMAIN text.passing :
       callee \in reached /\ (\A g \in reached : text.passing[g] \subseteq reached) => f \in reached}

Carries(e) == e.as = "is" /\ e.of \in holding
Reads(e) == e.as # "plain" /\ e.of \in holding

Execute(s) ==
  LET checks == s.op \in {"if", "condition", "switch"} /\ s.of \in holding
      checked == s.op = "pass" /\ s.of \in holding /\ Reach(s.callee) \cap text.checking # {}
  IN
  /\ CASE s.op \in {"declare", "assign"} /\ Carries(s.from) ->
            holding' = holding \cup ({s.to} \ {"elsewhere"})
       [] s.op = "update" \/ (s.op \in {"declare", "assign"} /\ ~Carries(s.from)) ->
            holding' = holding \ {s.to}
       [] s.op = "step" -> holding' = holding \ {s.of}
       [] s.op = "share" -> holding' \in {holding, holding \ {s.of}}
       [] OTHER -> UNCHANGED holding
  /\ decided' = IF checks THEN decided \cup Decides(s) ELSE decided
  /\ settled' = (settled \/ checked \/ (checks /\ Settles(s)))
  /\ read' = (read \/ CASE s.op \in {"use", "return"} -> Reads(s.from)
                        [] s.op \in {"assign", "declare"} -> Reads(s.from) /\ ~Carries(s.from)
                        [] s.op = "update" -> Reads(s.from) \/ s.to \in holding
                        [] OTHER -> s.of \in holding)

-----------------------------------------------------------------------------
InitSearch ==
  /\ \E family \in DOMAIN Texts : text \in Texts[family]
  /\ at = 1 /\ verdict = "none"
  /\ finder = NothingFound
  /\ holding = {Result} /\ decided = {} /\ settled = FALSE /\ read = FALSE

Run(s) == IF OccursAfter(at) THEN Execute(s) ELSE UNCHANGED runVars

\* The visitor of each statement, and its execution.
VisitIfStmt == Visit({"if"}, IfStmt(finder, Here)) /\ Run(Here)
VisitCondition == Visit({"condition"}, Condition(finder, Here)) /\ Run(Here)
VisitSwitchStmt == Visit({"switch"}, SwitchStmt(finder, Here)) /\ Run(Here)
TraverseDeclStmt == Visit({"declare"}, DeclStmt(finder, Here)) /\ Run(Here)
VisitBinaryOperator == Visit({"assign", "update"}, Assignment(finder, Here)) /\ Run(Here)
VisitUnaryOperator == Visit({"step"}, UnaryOperator(finder, Here)) /\ Run(Here)
VisitDeclRefExpr == Visit({"use", "share"}, DeclRefExpr(finder, Here)) /\ Run(Here)
VisitCallExpr == Visit({"pass"}, CallExpr(finder, Here)) /\ Run(Here)
TraverseReturnStmt == Visit({"return"}, ReturnStmt(finder, Here)) /\ Run(Here)

AnalyzeVariable ==
  /\ at > Len(text.statements) /\ verdict = "none"
  /\ verdict' = Verdict(finder)
  /\ UNCHANGED <<text, at, finder, runVars>>

NextSearch ==
  \/ VisitIfStmt \/ VisitCondition \/ VisitSwitchStmt
  \/ TraverseDeclStmt \/ VisitBinaryOperator \/ VisitUnaryOperator
  \/ VisitDeclRefExpr \/ VisitCallExpr \/ TraverseReturnStmt
  \/ AnalyzeVariable

SearchSpec == InitSearch /\ [][NextSearch]_handlerVars

-----------------------------------------------------------------------------
\* What the search does not follow: a variable whose address is shared may
\* change unseen, and a switch on `x + 1` is read as a switch on x.
Followed ==
  \A i \in DOMAIN text.statements :
    LET s == text.statements[i] IN s.op # "share" /\ (s.op = "switch" => s.direct)

\* The checks compare the domain's values as they are (KeepsValues).
ValuesKept ==
  \A i \in DOMAIN text.statements : \A cond \in ConditionsOf(text.statements[i]),
                                       value \in text.domain.values \cup text.domain.failures :
    KeepsValues([cond |-> cond, value |-> value, type |-> IntType])

\* A variable the search still tracks holds the result in the run: a check of
\* it is a check of the result (add_tracked_variable, remove_tracked_variable).
TrackedHoldsResult == Followed /\ ~finder.invalidated => finder.tracked \subseteq holding

\* What the search counts as handled is decided by an executed check of the
\* result, or settled by one; its coverage adds up over several checks.
HandledIsDecided ==
  Followed /\ ValuesKept /\ ~settled =>
    /\ finder.covered \subseteq decided
    /\ finder.exhaustive => text.domain.finite /\ text.domain.values \subseteq decided

\* "stored but never used" is said only of a result nothing uses.
IgnoredMeansUnread == verdict = "Ignored" => ~read

\* A parameter is checked when some function its value reaches checks it,
\* whatever circles the calls make: a parameter already being looked at answers
\* false, and the answers that rest on this one are not kept.
CalleesAnswerForAll ==
  \A callee \in DOMAIN text.passing :
    ChecksParameter(callee) <=> Reach(callee) \cap text.checking # {}

\* The search never forgets: once over it stays over and learns nothing more,
\* coverage grows only, and what was exhaustive stays so.
SearchNeverForgets ==
  [][/\ finder.invalidated => UNCHANGED finder
     /\ finder.covered \subseteq finder'.covered
     /\ finder.exhaustive => finder'.exhaustive]_handlerVars
=============================================================================
