------------------------------ MODULE CallsMC ------------------------------
(***************************************************************************)
(* The verdict on a call wherever it stands, and the values the functions  *)
(* of small programs may return.  A behaviour is about one or the other.   *)
(***************************************************************************)
EXTENDS CallVerdicts, ReturnDomains

-----------------------------------------------------------------------------
\* Calls.

Carriers == {"paren", "void", "arithmetic", "comparison", "logical left", "comma right",
             "arm", "choice", "assign", "assign member"}
Ends == {"if", "loop", "switch", "return", "init", "compound", "body", "comma left", "operand"}
Stores == {"assign", "assign member", "init"}

PathsOf(n, carriers) == {Append(p, e) : p \in [1..n -> carriers], e \in Ends}
Stored1(path) == Stores \cap {path[k] : k \in DOMAIN path} # {}

Unstored == UNION {{p \in PathsOf(n, Carriers \ Stores) : ~Stored1(p)} : n \in 0..3}
StoredPaths == UNION {{p \in PathsOf(n, Carriers) : Stored1(p)} : n \in 0..2}
TooDeep == PathsOf(4, {"paren", "comparison", "assign"})

Kinds == {"ExhaustivelyChecked", "PartiallyChecked", "Forwarded", "Consumed", "Ignored"}
NoBytes == [known |-> FALSE, condition |-> {}, after |-> {}, settled |-> FALSE]

CallsAt(paths, checks, searches, flows, graph) ==
  [path : paths, check : checks, search : searches, flow : flows, graph : {graph},
   localVariable : {TRUE}, inFunction : {TRUE}, bytes : {NoBytes}, fallible : {FALSE},
   adapter : {FALSE}, helper : {FALSE}, mustUse : {FALSE}, finite : {TRUE}, boolean : {FALSE},
   written : {TRUE}, system : {FALSE}, commonlyIgnored : {FALSE}, operator : {FALSE},
   returns : {"value"}]

Checks == {"ExhaustivelyChecked", "PartiallyChecked"}
Flows == {"none", "ExhaustivelyChecked", "PartiallyChecked", "Forwarded", "Consumed"}

\* An argument of a call in the condition of a ?:.
InArgument ==
  CallsAt({<<node, "operand", "choice", e>> : node \in {"paren", "comparison", "arm"}, e \in Ends},
          {"PartiallyChecked"}, {"Consumed"}, {"none", "ExhaustivelyChecked", "Consumed"}, TRUE)

\* A variable that is not local, or no function around the call.
Elsewhere ==
  {[c EXCEPT !.localVariable = l, !.inFunction = ~l] :
     l \in BOOLEAN, c \in CallsAt({<<"init">>, <<"assign", "compound">>}, {"PartiallyChecked"},
                                  Kinds, {"none", "Consumed"}, TRUE)}

\* What the callee is like.
Callees ==
  [path : {<<"compound">>, <<"operand">>, <<"if">>}, check : {"PartiallyChecked"},
   search : {"Ignored"}, flow : {"none"}, graph : {TRUE}, localVariable : {TRUE},
   inFunction : {TRUE}, bytes : {NoBytes}, fallible : BOOLEAN, adapter : BOOLEAN,
   helper : BOOLEAN, mustUse : BOOLEAN, finite : BOOLEAN, boolean : BOOLEAN,
   written : BOOLEAN, system : {TRUE}, commonlyIgnored : BOOLEAN, operator : BOOLEAN,
   returns : {"value", "reference", "void"}]

\* Reads and writes.
Comparison(op, against, turned) == [op |-> op, against |-> against, turned |-> turned]
AnyComparison ==
  {Comparison(op, against, turned) : op \in {"<", "<=", ">", ">=", "==", "!="}, turned \in BOOLEAN,
     against \in {<<"count">>} \cup {<<"constant", c>> : c \in -2..2}}
SomeComparisons ==
  {{c} : c \in AnyComparison}
    \cup {{Comparison("<", <<"constant", 0>>, FALSE), c} : c \in AnyComparison}

Transfer(path, condition, after) ==
  {[c EXCEPT !.fallible = TRUE,
             !.bytes = [known |-> TRUE, condition |-> condition, after |-> after, settled |-> s]] :
     s \in BOOLEAN,
     c \in {d \in CallsAt({path}, Checks, {"ExhaustivelyChecked", "Consumed"},
                           {"none", "ExhaustivelyChecked"}, TRUE) : FlowPossible(d)}}
Transfers ==
  UNION {Transfer(path, c, {}) : c \in SomeComparisons,
           path \in {<<"comparison", "if">>, <<"comparison", "logical left", "loop">>,
                     <<"comparison", "choice", "return">>}}
    \cup UNION {Transfer(path, {}, c) : c \in SomeComparisons,
                  path \in {<<"init">>, <<"assign", "compound">>, <<"assign", "body">>}}
    \cup UNION {Transfer(<<"assign", "paren", "comparison", "if">>, c, c) : c \in SomeComparisons}

SomeCalls ==
  <<CallsAt(Unstored, Checks, {"Consumed"}, {"none"}, TRUE),
    {c \in CallsAt(StoredPaths, {"PartiallyChecked"}, Kinds, Flows, TRUE) : FlowPossible(c)},
    CallsAt(StoredPaths, {"PartiallyChecked"}, Kinds, {"none"}, FALSE),
    CallsAt({p \in TooDeep : ~Stored1(p)}, Checks, {"Consumed"}, {"none"}, TRUE),
    CallsAt({p \in TooDeep : Stored1(p)}, {"PartiallyChecked"}, Kinds, {"none", "Forwarded"}, TRUE),
    InArgument, Elsewhere, Callees, Transfers>>

SomeOptions ==
  {[mode |-> "practical", operators |-> FALSE, references |-> FALSE, explicitVoid |-> TRUE],
   [mode |-> "strict", operators |-> TRUE, references |-> TRUE, explicitVoid |-> FALSE],
   [mode |-> "ignored-only", operators |-> FALSE, references |-> TRUE, explicitVoid |-> TRUE]}

-----------------------------------------------------------------------------
\* Programs.

V(n) == <<[kind |-> "value", value |-> n]>>
Opaque == <<[kind |-> "opaque"]>>
C(f) == <<Call(f)>>
F(f) == <<[kind |-> "function", of |-> f]>>
X(v) == <<[kind |-> "variable", of |-> v]>>
P(v) == <<[kind |-> "pointer", of |-> v]>>
Either(l, r) == l \o r

FunctionOf(type, returns) ==
  [type |-> type, annotated |-> {}, contract |-> "none", returns |-> returns, sites |-> <<>>,
   external |-> FALSE]
NoVariables == <<>>

Names == {"f", "g", "h"}
Bodies ==
  {<<>>, <<V(0)>>, <<V(1), V(2)>>, <<V(1), Opaque>>, <<Either(V(2), C("f")), V(0)>>}
    \cup {<<C(f)>> : f \in Names} \cup {<<V(1), C(f)>> : f \in Names}
Functions == {FunctionOf(type, body) : type \in {"int", "bool"}, body \in Bodies}

\* All call graphs of three functions.
CallGraphs == [functions : [Names -> Functions], variables : {NoVariables}]

\* Annotations and contracts.
Promised ==
  {[FunctionOf(type, body) EXCEPT !.annotated = a, !.contract = c] :
     type \in {"int", "bool"}, body \in {<<>>, <<V(2)>>, <<C("f")>>},
     a \in {{}, {0, 2}}, c \in {"none", "negative", "nonzero"}}
Contracts ==
  [functions : [f : {FunctionOf("int", <<C("g"), V(1)>>), FunctionOf("int", <<C("h"), C("g")>>),
                     FunctionOf("bool", <<C("h"), C("g")>>)},
                g : Promised, h : Promised],
   variables : {NoVariables}]

\* One variable of each scope, and calls of g that pass them on.
Write(value, how, before) == [value |-> value, how |-> how, before |-> before]
Writes ==
  {<<>>, <<Write(V(1), "initial", TRUE)>>, <<Write(V(1), "initial", FALSE)>>,
   <<Write(V(1), "plain", TRUE), Write(C("h"), "plain", TRUE)>>,
   <<Write(V(1), "initial", TRUE), Write(V(2), "plain", FALSE)>>,
   <<Write(V(1), "initial", TRUE), Write(V(2), "other", TRUE)>>,
   <<Write(V(1), "plain", TRUE), Write(V(0), "other", FALSE)>>,
   <<Write(X("local"), "plain", TRUE)>>, <<Write(X("global"), "initial", TRUE)>>,
   <<Write(X("parameter"), "initial", TRUE)>>, <<Write(C("g"), "initial", TRUE)>>}
SomeWrites == {<<>>, <<Write(C("g"), "initial", TRUE), Write(V(0), "plain", FALSE)>>,
               <<Write(X("local"), "plain", TRUE)>>, <<Write(V(3), "initial", TRUE)>>}
Variable(scope, writes) == [scope |-> scope, of |-> "g", place |-> 1, writes |-> writes]
PassesValues ==
  {<<>>, <<<<V(1)>>>>, <<<<V(0)>>, <<>>>>, <<<<X("local")>>, <<V(2)>>>>, <<<<C("f")>>>>,
   <<<<X("parameter")>>, <<V(1)>>>>, <<<<Either(V(1), X("global"))>>>>}
PassesFunctions ==
  {<<<<F("h")>>, <<F("f")>>>>, <<<<F("h")>>, <<Opaque>>>>, <<<<F("h")>>, <<>>>>,
   <<<<Either(F("h"), F("f"))>>>>}
G(body, sites, external) ==
  [FunctionOf("int", body) EXCEPT !.sites = sites, !.external = external]
Variables ==
  [functions :
     [f : {FunctionOf("int", <<X("local"), X("global")>>), FunctionOf("bool", <<C("g"), X("local")>>)},
      g : {G(<<X("parameter")>>, s, e) : s \in PassesValues, e \in BOOLEAN}
            \cup {G(<<P("parameter")>>, s, e) : s \in PassesFunctions, e \in BOOLEAN}
            \cup {G(<<X("global")>>, <<>>, FALSE)},
      h : {FunctionOf("int", <<V(2)>>)}],
   variables :
     [local : {Variable("local", w) : w \in Writes},
      global : {Variable("global", w) : w \in SomeWrites},
      parameter : {Variable("parameter", w) : w \in {<<>>, <<Write(V(0), "plain", TRUE)>>}}]]

Values == -2..3

SomePrograms == <<CallGraphs, Contracts, Variables>>

-----------------------------------------------------------------------------
VARIABLE about         \* "a call" or "a program"
mcVars == <<about, callVars, domainVars>>

Init ==
  \/ about = "a call" /\ InitCall /\ program = <<>> /\ domains = <<>>
       /\ stack = <<>> /\ earlier = <<>> /\ runs = <<>>
  \/ /\ about = "a program" /\ InitDomains
     /\ call = CHOOSE c \in Elsewhere : TRUE
     /\ options = CHOOSE o \in SomeOptions : TRUE
     /\ handling = ResultOf("none") /\ reported = FALSE

Next ==
  \/ about = "a call" /\ NextCall /\ UNCHANGED <<about, domainVars>>
  \/ about = "a program" /\ NextDomains /\ UNCHANGED <<about, callVars>>

Spec == Init /\ [][Next]_mcVars
=============================================================================
