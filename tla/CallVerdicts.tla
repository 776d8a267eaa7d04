---------------------------- MODULE CallVerdicts ----------------------------
(***************************************************************************)
(* AnalyzerCalls.cpp and AnalyzerParents.cpp: the verdict on one call from *)
(* what stands around it.  path holds the nodes of the syntax tree above   *)
(* the call, innermost first, each named for the place the call has in it: *)
(*   "paren"       an implicit cast, parentheses, a temporary              *)
(*   "cast" "void" an explicit cast, one to void                           *)
(*   "arithmetic" "minus" "not" "comparison"     an operand                *)
(*   "logical left" "logical right" "comma left" "comma right"             *)
(*   "choice" "arm"                              of a ?:                   *)
(*   "assign" "assign member"   what = stores in a variable, or elsewhere  *)
(*   "operand"     anything else in an expression: an argument, ...        *)
(*   "if" "loop" "switch"       the condition of the statement             *)
(*   "return" "init"            the value returned, or a variable's        *)
(*   "compound"    a statement of a block                                  *)
(*   "body"        the one statement of an if or a loop without braces     *)
(* What the other analyses say of the call is in its record: check, of the *)
(* condition around it; search, of the text after it (HandlerFinder);      *)
(* flow, of the control flow graph ("none" if they find nothing).          *)
(***************************************************************************)
EXTENDS Integers, Sequences, FiniteSets

CONSTANTS
  Calls,               \* the calls that may be analysed
  Options,             \* [mode, operators, references, explicitVoid]
  Depth, VoidDepth     \* how many nodes up the tree the analyser looks

VARIABLES
  call, options,
  handling,            \* [kind, short]; kind "none" before, "skipped" if not analysed
  reported
callVars == <<call, options, handling, reported>>

-----------------------------------------------------------------------------
\* The places named above.
Nodes ==
  {"paren", "cast", "void", "arithmetic", "minus", "not", "comparison", "logical left",
   "logical right", "comma left", "comma right", "choice", "arm", "assign", "assign member",
   "operand", "if", "loop", "switch", "return", "init", "compound", "body"}

Transparent == {"paren", "cast", "void"}
Propagates == Transparent \cup {"comma right", "arithmetic", "minus", "not", "choice", "arm"}
CarriesCondition == Propagates \cup {"comparison", "logical left", "logical right"}

\* The first node above place i that ends the climb: none of the carriers, or
\* one of the ends it is for.  0: it is none of these, or too far up.
ClimbFrom(i, carriers, ends, depth) ==
  LET stops == {k \in DOMAIN call.path :
                  k > i /\ (call.path[k] \in ends \/ call.path[k] \notin carriers)}
  IN IF \E k \in stops : k <= depth /\ call.path[k] \in ends /\ \A j \in stops : k <= j
     THEN CHOOSE k \in stops : \A j \in stops : k <= j ELSE 0

Climb(carriers, ends) == ClimbFrom(0, carriers, ends, Depth)

IsExplicitVoidDiscard == ClimbFrom(0, {"paren"}, {"void"}, VoidDepth) # 0

\* variable_assigned_from_call: the first assignment above, if it is a plain
\* one to a variable.
Assigned == Climb(Propagates, {"assign"})

\* enclosing_assignment_condition, ..._conditional_condition
AssignmentDecides(ends) == ClimbFrom(Assigned, CarriesCondition, ends, Depth) # 0

-----------------------------------------------------------------------------
\* Byte counts.  call.bytes is [known, condition, after, settled]: is an
\* argument the count; the comparisons of the result in the condition around
\* the call, and in the text after it; does the if exit, or have an else.
\* A comparison is [op, against, turned], against the count, <<"count">>, or a
\* constant, <<"constant", c>>; turned if the result stands on the right.

Reversed(op) == CASE op = "<" -> ">" [] op = "<=" -> ">=" [] op = ">" -> "<"
                  [] op = ">=" -> "<=" [] OTHER -> op

NormalizedNever(c) == c.op                                    \* a slip

Normalized(c) == IF c.turned THEN Reversed(c.op) ELSE c.op

ComparesWithCount(comparisons) == \E c \in comparisons : c.against = <<"count">>

\* is_negative_style_byte_count_check
ComparesWithFailure(comparisons) ==
  \E c \in comparisons :
    /\ c.against # <<"count">>
    /\ LET constant == c.against[2] IN
       CASE Normalized(c) = "<" -> constant >= 0
         [] Normalized(c) \in {"<=", "==", "!="} -> constant < 0
         [] Normalized(c) = ">=" -> constant = 0
         [] OTHER -> FALSE

ResultOf(kind) == [kind |-> kind, short |-> FALSE]
ShortTransfer == [kind |-> "PartiallyChecked", short |-> TRUE]

\* The verdict that the comparisons give alone, or else the other one.
ByteCountOr(comparisons, settled, otherwise) ==
  IF ~call.bytes.known THEN otherwise
  ELSE IF ComparesWithCount(comparisons)
  THEN IF settled THEN ResultOf("ExhaustivelyChecked") ELSE otherwise
  ELSE IF ComparesWithFailure(comparisons) THEN ShortTransfer ELSE otherwise

InCondition(settled, otherwise) == ByteCountOr(call.bytes.condition, settled, otherwise)

-----------------------------------------------------------------------------
VariableVerdict ==
  IF ~call.localVariable THEN ResultOf("Forwarded")
  ELSE IF ~call.inFunction THEN ResultOf("Consumed")
  ELSE ByteCountOr(call.bytes.after, TRUE, ResultOf(call.search))

StoredUnconfirmed ==                                          \* a slip
  IF call.flow # "none" THEN ResultOf(call.flow) ELSE VariableVerdict

\* The text alone does not settle a result that is stored: the graph must
\* confirm it, where there is one.
Stored ==
  LET result == VariableVerdict IN
  IF call.bytes.known /\ (result.kind = "ExhaustivelyChecked" \/ result.short) THEN result
  ELSE IF call.flow # "none" THEN ResultOf(call.flow)
  ELSE IF call.graph /\ result.kind \in {"ExhaustivelyChecked", "Forwarded"} THEN ResultOf("Consumed")
  ELSE result

ClassifyCall ==
  IF options.explicitVoid /\ IsExplicitVoidDiscard THEN ResultOf("ExplicitlyIgnored")
  ELSE IF Climb(Propagates, {"switch"}) # 0 THEN ResultOf(call.check)
  ELSE IF Climb(CarriesCondition, {"if"}) # 0
  THEN InCondition(call.bytes.settled, ResultOf(call.check))
  ELSE IF Climb(CarriesCondition, {"loop"}) # 0 THEN InCondition(TRUE, ResultOf(call.check))
  ELSE IF Climb(CarriesCondition, {"choice"}) # 0
  THEN InCondition(TRUE, ResultOf("ExhaustivelyChecked"))
  ELSE IF Climb(Propagates, {"init"}) # 0 THEN Stored
  ELSE IF Assigned # 0
  THEN IF AssignmentDecides({"choice"}) THEN InCondition(TRUE, ResultOf("ExhaustivelyChecked"))
       ELSE IF AssignmentDecides({"if", "loop"}) THEN InCondition(TRUE, ResultOf(call.check))
       ELSE Stored
  ELSE IF Climb(Propagates, {"return"}) # 0 THEN ResultOf("Forwarded")
  ELSE IF call.flow # "none" THEN ResultOf(call.flow)
  ELSE IF Climb(Transparent \cup {"comma right"}, {"compound", "comma left"}) # 0
  THEN ResultOf("Ignored") ELSE ResultOf("Consumed")

-----------------------------------------------------------------------------
\* A helper or an adapter of error pointers may be left unchecked.
Excused(kind) ==
  /\ ~call.fallible /\ kind \in {"Ignored", "Consumed", "PartiallyChecked"}
  /\ call.adapter \/ (call.helper /\ ~call.mustUse)

ShouldReport(kind, mode) ==
  /\ ~Excused(kind)
  /\ CASE mode = "ignored-only" -> kind = "Ignored"
       [] mode = "practical" ->
            \/ kind = "Ignored"
            \/ kind = "Consumed" /\ (call.mustUse \/ call.fallible)
            \/ kind = "PartiallyChecked" /\ (call.fallible \/ (call.finite /\ ~call.boolean))
       [] mode = "strict" ->
            kind \notin {"ExhaustivelyChecked", "ExplicitlyIgnored", "Forwarded"}

\* analyze_call returns at once.
Skipped ==
  \/ ~call.written                            \* should_analyze_location
  \/ call.system /\ call.commonlyIgnored
  \/ call.operator /\ ~options.operators
  \/ call.returns \in {"void", "dependent"}
  \/ call.returns = "reference" /\ ~options.references

InitCall ==
  /\ \E k \in DOMAIN Calls : call \in Calls[k]
  /\ options \in Options
  /\ handling = ResultOf("none") /\ reported = FALSE

Skip ==
  /\ handling.kind = "none" /\ Skipped
  /\ handling' = ResultOf("skipped") /\ UNCHANGED <<call, options, reported>>

AnalyzeCall ==
  /\ handling.kind = "none" /\ ~Skipped
  /\ handling' = ClassifyCall
  /\ reported' = ShouldReport(handling'.kind, options.mode)
  /\ UNCHANGED <<call, options>>

NextCall == Skip \/ AnalyzeCall

CallSpec == InitCall /\ [][NextCall]_callVars

-----------------------------------------------------------------------------
\* What becomes of the value when the program runs: all that the nodes above
\* the call do with it, or with what they make of it.
FatesOf(path) ==
  LET fate[k \in 1..(Len(path) + 1)] ==
        IF k > Len(path) THEN {"discarded"}
        ELSE CASE path[k] \in {"if", "loop", "switch", "choice"} -> {"tested"}
               [] path[k] = "logical left" -> {"tested"} \cup fate[k + 1]
               [] path[k] \in {"assign", "assign member"} -> {"stored"} \cup fate[k + 1]
               [] path[k] = "init" -> {"stored"}
               [] path[k] = "return" -> {"returned"}
               [] path[k] = "void" -> {"dismissed"} \cup fate[k + 1]
               [] path[k] = "operand" -> {"passed"}
               [] path[k] \in {"compound", "body", "comma left"} -> {"discarded"}
               [] OTHER -> fate[k + 1]
  IN fate[1]

Fates == FatesOf(call.path)

\* The call stands somewhere in the condition of a ?:, however it is used there.
InChoice(path) == \E k \in DOMAIN path : path[k] = "choice"

-----------------------------------------------------------------------------
\* What may be said of a call.

Comparisons ==
  [op : {"<", "<=", ">", ">=", "==", "!="}, turned : BOOLEAN,
   against : {<<"count">>} \cup ({"constant"} \X Int)]

\* The nodes below place k.
Below(path, k, nodes) == \A j \in 1..(k - 1) : path[j] \in nodes

\* A plain assignment, or an initialisation, of the value; nothing void is stored.
StoredAt(path, k) ==
  path[k] \in {"init", "assign"} /\ Below(path, k, Propagates \ {"void"})

\* A condition around the call has comparisons of the result if they stand
\* between them, or of the variable assigned in it.
ComparedIn(path, k) ==
  /\ path[k] \in {"if", "loop", "choice"}
  /\ \/ Below(path, k, CarriesCondition \ {"void"}) /\ \E j \in 1..(k - 1) : path[j] = "comparison"
     \/ \E a \in 1..(k - 1) :
          /\ path[a] = "assign" /\ StoredAt(path, a)
          /\ \A j \in (a + 1)..(k - 1) : path[j] \in CarriesCondition

\* Only a graph has an answer: for a value that is stored, of what is done with
\* it after the call; and for all that a ?: has in its condition, for it counts
\* every alias it contains as tested (TraverseConditionalOperator, AnalyzerFlow.cpp:161).
FlowPossible(c) ==
  /\ c.flow \in {"none", "ExhaustivelyChecked", "PartiallyChecked", "Forwarded", "Consumed"}
  /\ c.flow # "none" =>
       /\ c.graph
       /\ \/ "stored" \in FatesOf(c.path)
          \/ InChoice(c.path) /\ c.flow \in {"ExhaustivelyChecked", "Consumed"}

BytesPossible(c) ==
  /\ c.bytes.known \in BOOLEAN /\ c.bytes.settled \in BOOLEAN
  /\ c.bytes.condition \subseteq Comparisons /\ c.bytes.after \subseteq Comparisons
  /\ c.bytes.condition # {} => \E k \in DOMAIN c.path : ComparedIn(c.path, k)
  /\ c.bytes.after # {} => \E k \in DOMAIN c.path : StoredAt(c.path, k)

Possible(c) ==
  /\ c.path \in Seq(Nodes)
  /\ c.check \in {"ExhaustivelyChecked", "PartiallyChecked"}
  /\ c.search \in {"ExhaustivelyChecked", "PartiallyChecked", "Forwarded", "Consumed", "Ignored"}
  /\ FlowPossible(c) /\ BytesPossible(c)

ASSUME CallsAssumption == \A k \in DOMAIN Calls : \A c \in Calls[k] : Possible(c)

ASSUME DepthAssumption == Depth \in Nat /\ VoidDepth \in Nat

ASSUME OptionsAssumption ==
  \A o \in Options : o.mode \in {"ignored-only", "practical", "strict"} /\ o.explicitVoid \in BOOLEAN

-----------------------------------------------------------------------------
\* Does more than the order of the text say that a stored result is handled?
\* For a byte count it does not: its call is settled before the graph is asked.
Confirmed == ~call.graph \/ call.bytes.known
               \/ call.flow \in {"ExhaustivelyChecked", "Forwarded", "PartiallyChecked"}

\* The condition of a ?: has the call in it, as an argument say, and the graph
\* takes all it has in it for tested.
TakenForTested == InChoice(call.path) /\ call.flow = "ExhaustivelyChecked"

\* The verdict fits what happens to the value.  A result is handled only if
\* something tests it or hands it on; one that is stored only if the control
\* flow graph agrees, where there is one ("stored result has no reachable
\* CFG-proven handling", AnalyzerCalls.cpp:719, 767); and a result is called
\* ignored only if nothing looks at it.
VerdictMatchesFate ==
  LET stored == "stored" \in Fates
  IN CASE handling.kind = "ExhaustivelyChecked" ->
            "tested" \in Fates \/ (stored /\ Confirmed) \/ TakenForTested
       [] handling.kind = "Forwarded" -> "returned" \in Fates \/ (stored /\ Confirmed)
       [] handling.kind = "PartiallyChecked" -> "tested" \in Fates \/ stored
       [] handling.kind = "ExplicitlyIgnored" -> "dismissed" \in Fates
       [] handling.kind = "Ignored" ->
            IF stored THEN call.search = "Ignored" /\ call.flow = "none"
            ELSE Fates \cap {"tested", "returned", "passed"} = {}
       [] OTHER -> TRUE

\* Does the comparison only tell failure from the rest?
OnlyTellsFailure(c) ==
  /\ c.against # <<"count">>
  /\ LET Holds(r) ==
           LET left == IF c.turned THEN c.against[2] ELSE r
               right == IF c.turned THEN r ELSE c.against[2]
           IN CASE c.op = "<" -> left < right  [] c.op = "<=" -> left <= right
                [] c.op = ">" -> left > right  [] c.op = ">=" -> left >= right
                [] c.op = "==" -> left = right [] c.op = "!=" -> left # right
     IN (\A r \in 0..3 : Holds(r) <=> Holds(0)) /\ ~(Holds(-1) <=> Holds(0))

\* The one comparison that passes for a check all the same: > -1.
GreaterThanMinusOne(c) == c.op = (IF c.turned THEN "<" ELSE ">")

\* "checking only for a negative return misses partial" transfers
\* (AnalyzerCalls.cpp:504): if the comparisons of a read or write in the condition
\* around it, or of the variable it is stored in after it, can only tell a
\* failure, then the call is reported, however they are written, but for > -1.
ShortTransfersReported ==
  LET comparisons == IF call.bytes.condition # {} THEN call.bytes.condition \cup call.bytes.after
                     ELSE IF "tested" \in Fates THEN {} ELSE call.bytes.after
  IN /\ handling.kind \notin {"none", "skipped"} /\ options.mode # "ignored-only"
     /\ call.bytes.known /\ call.fallible /\ call.localVariable /\ call.inFunction
     /\ Len(call.path) <= Depth /\ comparisons # {}
     /\ \A c \in comparisons : OnlyTellsFailure(c) /\ ~GreaterThanMinusOne(c)
     => reported
=============================================================================
