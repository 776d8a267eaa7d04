------------------------------ MODULE ValueFlow ------------------------------
(***************************************************************************)
(* Is the stored result of one call handled?  (analyze_flow_aliases of     *)
(* AnalyzerFlow.cpp over CFGValueFlow.cpp.)  A first work list finds the   *)
(* expressions that hold the result on every path to them; the function's  *)
(* text is then searched for checks of these aliases; what looks handled   *)
(* is looked at again by a second work list, for a path on which the       *)
(* result is used and never checked.  Then a run of the analysed function. *)
(*                                                                         *)
(* A function is a constant: blocks of statements over integer variables   *)
(* (members of a record count as variables) and pointers to them.          *)
(*   [op |-> "set", to, from]        `to = from`, or its declaration       *)
(*   [op |-> "choose", to, from, other]   `to = c ? from : other`          *)
(*   [op |-> "use", of]              arithmetic: `of + 1`                  *)
(*   [op |-> "step", of]             `of++`                                *)
(*   [op |-> "pass", of, checked]    `f(of)`, and does f check it fully?   *)
(*   [op |-> "return", of]                                                 *)
(* and an operand [as, of] is a "var", a "deref" of a pointer, the         *)
(* "address" of a variable, the "call" or "other".                         *)
(*                                                                         *)
(* A block ends in a terminator [kind, tests, covers, settles, chain]: an  *)
(* "if", "switch", "loop", "ternary", "part" (the left of && or ||) or     *)
(* "none"; the operand its condition tests; the values of the domain it is *)
(* true of; does it settle every value by convention (a final else or      *)
(* default, a guard that exits)?  An if's chain lists the blocks of its    *)
(* else-ifs, itself first.  An open-ended domain has a value that no       *)
(* condition covers.                                                       *)
(***************************************************************************)
EXTENDS Worklist, FiniteSets, SequencesExt

CONSTANTS
  Ints, Pointers,      \* variables that may hold the result, or point to one
  Domain,              \* the values of the call's return domain
  Body,                \* block -> sequence of statements
  Terminator,          \* block -> its terminator
  Search,              \* block -> the search it belongs to
  Live,                \* block of the first search -> the same in the second
  AfterCall            \* {<<block, index>>} that follow the call in the text

Origins == {"No", "Yes", "Maybe"}
Searches == {"aliases", "live"}
Targets == [targets : SUBSET Ints, unknown : BOOLEAN]

\* Lvalues and operands, by type.
Places == [as : {"var"}, of : Ints] \cup [as : {"deref"}, of : Pointers]
PointerPlaces == [as : {"var"}, of : Pointers]
Values == Places \cup [as : {"call", "other"}, of : Ints]
PointerValues == PointerPlaces \cup [as : {"address", "other"}, of : Ints]
Operands == Values \cup PointerValues

Elements ==
  [op : {"set"}, to : Places, from : Values]
  \cup [op : {"set"}, to : PointerPlaces, from : PointerValues]
  \cup [op : {"choose"}, to : Places, from : Values, other : Values]
  \cup [op : {"choose"}, to : PointerPlaces, from : PointerValues, other : PointerValues]
  \cup [op : {"step"}, of : Places \cup PointerPlaces]
  \cup [op : {"use", "return"}, of : Operands]
  \cup [op : {"pass"}, of : Operands, checked : BOOLEAN]

\* What a pointer points to that points to none of the variables.
Outside == "?"

FirstBlocks == {b \in Blocks : Search[b] = "aliases"}

ASSUME ValueFlowAssumption ==
  /\ Ints \cap Pointers = {} /\ IsFiniteSet(Ints)
  /\ {Outside, "other", "result", "checked"} \cap (Ints \cup Pointers) = {}
  /\ Search \in [Blocks -> Searches] /\ Entries \subseteq FirstBlocks
  /\ Body \in [Blocks -> Seq(Elements)]
  /\ \A b \in Blocks :
       /\ Terminator[b].tests \in Operands
       /\ Successors[b] = <<>> => Body[b] = <<>>
       /\ \A i \in 1..Len(Successors[b]) :
            Successors[b][i] # NoBlock => Search[Successors[b][i]] = Search[b]

\* Both searches are of the same function.
ASSUME LiveAssumption ==
  /\ Live \in [FirstBlocks -> Blocks \ FirstBlocks]
  /\ \A b \in FirstBlocks :
       /\ Body[Live[b]] = Body[b]
       /\ Terminator[Live[b]].kind = Terminator[b].kind
       /\ Terminator[Live[b]].tests = Terminator[b].tests
       /\ Terminator[Live[b]].covers = Terminator[b].covers
       /\ Terminator[Live[b]].settles = Terminator[b].settles
       /\ Len(Successors[Live[b]]) = Len(Successors[b])
       /\ \A i \in 1..Len(Successors[b]) :
            Successors[b][i] # NoBlock => Successors[Live[b]][i] = Live[Successors[b][i]]

\* State: absent values are "No", absent pointers may point anywhere.
ValueFlowStates ==
  [values : [Ints -> Origins], pointers : [Pointers -> Targets], uncheckedUse : BOOLEAN]

NoTarget == [targets |-> {}, unknown |-> FALSE]
Anywhere == [targets |-> {}, unknown |-> TRUE]

NothingHeld ==
  [values |-> [v \in Ints |-> "No"], pointers |-> [p \in Pointers |-> Anywhere],
   uncheckedUse |-> FALSE]

VARIABLES
  search,              \* "aliases", "live" or "done"
  aliases,             \* occurrences that hold the result on every path
  verdict,             \* what the search of the text, then the second, says
  first,               \* the inputs of the first search, once it is over
  at, store,           \* the run: next statement, what each variable holds
  used                 \* has it computed with an unchecked result?
searchVars == <<search, aliases, verdict, first>>
runVars == <<at, store, used>>
vars == <<flowVars, searchVars, runVars>>

-----------------------------------------------------------------------------
\* State::join.

JoinOriginOptimist(a, b) == IF a = "No" THEN b ELSE IF b = "No" THEN a ELSE
                            IF a = b THEN a ELSE "Maybe"   \* a slip

JoinOrigin(a, b) == IF a = b THEN a ELSE "Maybe"

JoinTargets(a, b) ==
  [targets |-> a.targets \cup b.targets, unknown |-> a.unknown \/ b.unknown]

JoinedFlow(s, other) ==
  [values |-> [v \in Ints |-> JoinOrigin(s.values[v], other.values[v])],
   pointers |-> [p \in Pointers |-> JoinTargets(s.pointers[p], other.pointers[p])],
   uncheckedUse |-> s.uncheckedUse \/ other.uncheckedUse]

Join(s, other) == {[merged |-> JoinedFlow(s, other), changed |-> JoinedFlow(s, other) # s]}

-----------------------------------------------------------------------------
\* Evaluation.

\* Where an lvalue may be; beyond that, anywhere if UnknownLocation.
Locations(s, e) ==
  CASE e.as = "var"   -> {e.of}
    [] e.as = "deref" -> s.pointers[e.of].targets
    [] OTHER          -> {}

UnknownLocation(s, e) == e.as = "deref" /\ s.pointers[e.of].unknown

\* read_origin
ReadOrigin(s, locations) ==
  LET read == {s.values[v] : v \in locations}
  IN IF read = {} THEN "No" ELSE IF Cardinality(read) = 1 THEN CHOOSE o \in read : TRUE ELSE "Maybe"

OriginOf(s, e) ==
  IF e.as = "call" THEN "Yes"
  ELSE IF UnknownLocation(s, e) THEN "Maybe"
  ELSE ReadOrigin(s, Locations(s, e) \cap Ints)

PointerOf(s, e) ==
  CASE e.as = "var" /\ e.of \in Pointers -> s.pointers[e.of]
    [] e.as = "address"                  -> [targets |-> {e.of}, unknown |-> FALSE]
    [] OTHER                             -> NoTarget

WriteWeak(s, locations, origin, pointer) ==       \* a slip: adds, never removes
  [s EXCEPT !.values = [v \in Ints |-> IF v \in locations /\ origin # "No" THEN origin ELSE s.values[v]],
            !.pointers = [p \in Pointers |-> IF p \in locations THEN pointer ELSE s.pointers[p]]]

\* Every location the lvalue may be receives the value.
Write(s, locations, origin, pointer) ==
  [s EXCEPT !.values = [v \in Ints |-> IF v \in locations THEN origin ELSE s.values[v]],
            !.pointers = [p \in Pointers |-> IF p \in locations THEN pointer ELSE s.pointers[p]]]

IsAliasPerhaps(origin) == origin # "No"           \* a slip

\* evaluate: an expression is an alias where it surely holds the result.
IsAlias(origin) == origin = "Yes"

HasTrackedOrigin(s) == \E v \in Ints : s.values[v] # "No"

ClearTrackedOrigins(s) == [s EXCEPT !.values = [v \in Ints |-> "No"]]

\* What a statement does to the state of a search.
Apply(which, s, stmt) ==
  CASE stmt.op = "set" ->
         Write(s, Locations(s, stmt.to), OriginOf(s, stmt.from), PointerOf(s, stmt.from))
    [] stmt.op = "choose" ->
         Write(s, Locations(s, stmt.to),
               JoinOrigin(OriginOf(s, stmt.from), OriginOf(s, stmt.other)),
               JoinTargets(PointerOf(s, stmt.from), PointerOf(s, stmt.other)))
    [] stmt.op = "use" /\ which = "live" /\ OriginOf(s, stmt.of) # "No" ->
         [s EXCEPT !.uncheckedUse = TRUE]
    [] stmt.op = "step" -> Write(s, Locations(s, stmt.of) \cap Ints, "No", NoTarget)
    [] stmt.op = "return" /\ OriginOf(s, stmt.of) # "No" -> ClearTrackedOrigins(s)
    [] OTHER -> s

StateBefore(b, i, s) ==
  FoldLeft(LAMBDA acc, stmt : Apply(Search[b], acc, stmt), s, SubSeq(Body[b], 1, i - 1))

StateAtEnd(b, s) == StateBefore(b, Len(Body[b]) + 1, s)

\* Does a check of the result at the end of b handle it, seen from b alone?
HandlesHere(b) ==
  \/ Terminator[b].covers = Domain
  \/ Terminator[b].kind \in {"if", "switch"} /\ Terminator[b].settles

\* transfer_block, transfer_block_for_live_paths.
TransferBlock(b, s) ==
  LET end == StateAtEnd(b, s)
  IN IF /\ Search[b] = "live" /\ Terminator[b].kind # "none"
        /\ IsAlias(OriginOf(end, Terminator[b].tests)) /\ HandlesHere(b)
     THEN ClearTrackedOrigins(end)
     ELSE end

AlongEdge(b, i, s) == s

-----------------------------------------------------------------------------
\* FlowHandlingFinder and ResultAccumulator.  Index 0 is the condition.

Examining == {"use", "pass", "return"}
Occurrences(b) == {0} \cup {i \in 1..Len(Body[b]) : Body[b][i].op \in Examining}
Examined(b, i) == IF i = 0 THEN Terminator[b].tests ELSE Body[b][i].of

\* The occurrences that hold the result on every path, once the list is empty.
AliasesFor(inputs) ==
  {o \in UNION {{<<b, i>> : i \in Occurrences(b)} : b \in DOMAIN inputs} :
     IsAlias(OriginOf(IF o[2] = 0 THEN StateAtEnd(o[1], inputs[o[1]])
                      ELSE StateBefore(o[1], o[2], inputs[o[1]]), Examined(o[1], o[2])))}

Checks(found) ==
  {o[1] : o \in {a \in found \cap AfterCall : a[2] = 0 /\ Terminator[a[1]].kind \notin {"none", "part"}}}

\* The values a check handles: an else-if counts when it tests an alias too.
Covered(b, found) ==
  LET t == Terminator[b] IN
  IF t.kind = "if"
    THEN UNION {Terminator[c].covers : c \in {d \in ToSet(t.chain) : <<d, 0>> \in found}}
    ELSE t.covers

ExhaustiveCheck(b, found) ==
  \/ Terminator[b].kind = "ternary"
  \/ Terminator[b].kind \in {"if", "switch"} /\ Terminator[b].settles
  \/ Covered(b, found) = Domain

Statements(found, op) ==
  {o \in found \cap AfterCall : o[2] # 0 /\ Body[o[1]][o[2]].op = op}

HandlingFound(found) ==
  LET checks == Checks(found) IN
  IF \/ \E b \in checks : ExhaustiveCheck(b, found)
     \/ \E o \in Statements(found, "pass") : Body[o[1]][o[2]].checked
     \/ checks # {} /\ UNION {Covered(b, found) : b \in checks} = Domain
    THEN "exhaustive"
  ELSE IF Statements(found, "return") # {} THEN "forwarded"
  ELSE IF checks # {} THEN "partial"
  ELSE "none"

Accepted == {"exhaustive", "forwarded"}

\* The first search is over; what looks handled is searched a second time.
SearchText ==
  /\ search = "aliases" /\ Done
  /\ aliases' = AliasesFor(input)
  /\ verdict' = HandlingFound(AliasesFor(input))
  /\ first' = input
  /\ IF HandlingFound(AliasesFor(input)) \in Accepted
       THEN \E entry \in Entries \cap Reached :
              /\ search' = "live"
              /\ input' = [b \in {Live[entry]} |-> EntryState]
              /\ queue' = <<Live[entry]>>
              /\ active' = NoBlock /\ output' = EntryState /\ edge' = 1
       ELSE search' = "done" /\ UNCHANGED flowVars
  /\ UNCHANGED runVars

Exits == {b \in Reached : Len(Successors[b]) = 0}

\* has_unhandled_live_path
UnhandledLivePath ==
  \E b \in Exits : input[b].uncheckedUse /\ HasTrackedOrigin(input[b])

JudgeAlways ==          \* a slip: the second search is not asked
  /\ search = "live" /\ Done
  /\ search' = "done"
  /\ UNCHANGED <<verdict, aliases, first, flowVars, runVars>>

Judge ==
  /\ search = "live" /\ Done
  /\ verdict' = IF UnhandledLivePath THEN "consumed" ELSE verdict
  /\ search' = "done"
  /\ UNCHANGED <<aliases, first, flowVars, runVars>>

-----------------------------------------------------------------------------
\* A run of the analysed function, over the blocks of the first search.  A
\* variable holds a "result" of the call, a result that was "checked", or
\* something "other"; a pointer the variable it points to, or Outside.

NoRun == <<NoBlock, 0>>
Statement == Body[at[1]][at[2]]
InBlock == at # NoRun /\ at[2] <= Len(Body[at[1]])
AtEnd == at # NoRun /\ at[2] > Len(Body[at[1]])

\* The variable an lvalue denotes.
Place(e) == IF e.as = "deref" THEN store[e.of] ELSE e.of

ValueOf(e) ==
  CASE e.as = "call"    -> "result"
    [] e.as = "address" -> e.of
    [] e.as = "other"   -> "other"
    [] OTHER            -> IF Place(e) = Outside THEN "other" ELSE store[Place(e)]

HoldsResult(e) == ValueOf(e) \in {"result", "checked"}

\* A check of a result is a check of all its copies.
AllChecked == [v \in DOMAIN store |-> IF store[v] = "result" THEN "checked" ELSE store[v]]

\* What the variable at a place holds once v is written there.
Stored(place, v) == IF place \in Pointers /\ v \notin Ints THEN Outside ELSE v

Sources(stmt) == IF stmt.op = "choose" THEN {stmt.from, stmt.other} ELSE {stmt.from}

StartRun ==
  /\ search = "done" /\ at = NoRun
  /\ \E entry \in Entries \cap DOMAIN first : at' = <<entry, 1>>
  /\ UNCHANGED <<flowVars, searchVars, store, used>>

Assign ==
  /\ InBlock /\ Statement.op \in {"set", "choose", "step"}
  /\ LET place == Place(IF Statement.op = "step" THEN Statement.of ELSE Statement.to)
         values == IF Statement.op = "step" THEN {"other"}
                   ELSE {ValueOf(e) : e \in Sources(Statement)}
     IN \E v \in values :
          store' = IF place = Outside THEN store ELSE [store EXCEPT ![place] = Stored(place, v)]
  /\ at' = [at EXCEPT ![2] = @ + 1]
  /\ UNCHANGED <<flowVars, searchVars, used>>

Read ==
  /\ InBlock /\ Statement.op \in Examining
  /\ used' = (used \/ (Statement.op = "use" /\ ValueOf(Statement.of) = "result"))
  /\ store' = IF Statement.op = "return" /\ HoldsResult(Statement.of) THEN AllChecked ELSE store
  /\ at' = [at EXCEPT ![2] = @ + 1]
  /\ UNCHANGED <<flowVars, searchVars>>

\* Which branch is taken is left open.
Branch ==
  /\ AtEnd
  /\ \E i \in 1..Len(Successors[at[1]]) :
       /\ Successors[at[1]][i] # NoBlock
       /\ at' = <<Successors[at[1]][i], 1>>
  /\ store' = IF /\ Terminator[at[1]].kind # "none"
                 /\ HoldsResult(Terminator[at[1]].tests) /\ HandlesHere(at[1])
                THEN AllChecked ELSE store
  /\ UNCHANGED <<flowVars, searchVars, used>>

Init ==
  /\ FlowInit
  /\ search = "aliases" /\ aliases = {} /\ verdict = "none"
  /\ first = [b \in {} |-> EntryState]
  /\ at = NoRun /\ used = FALSE
  /\ store = [v \in Ints \cup Pointers |-> IF v \in Ints THEN "other" ELSE Outside]

Next ==
  \/ FlowStep /\ UNCHANGED <<searchVars, runVars>>
  \/ SearchText \/ Judge
  \/ StartRun \/ Assign \/ Read \/ Branch

Spec == Init /\ [][Next]_vars

-----------------------------------------------------------------------------
\* Somewhere a write, or a step, goes through a pointer that may point to
\* several variables or elsewhere: the analysis lets it reach all it knows of.
Written(stmt) == IF stmt.op = "step" THEN stmt.of ELSE stmt.to
AmbiguousWrite(inputs) ==
  \E b \in DOMAIN inputs : \E i \in 1..Len(Body[b]) :
    /\ Body[b][i].op \in {"set", "choose", "step"}
    /\ Written(Body[b][i]).as = "deref"
    /\ LET s == StateBefore(b, i, inputs[b])
           to == Written(Body[b][i])
       IN Cardinality(Locations(s, to)) > 1 \/ UnknownLocation(s, to)

\* Somewhere the function returns what is the result on some paths only: the
\* analysis takes that for forwarding the result.
DoubtfulReturn(inputs) ==
  \E b \in DOMAIN inputs : \E i \in 1..Len(Body[b]) :
    /\ Body[b][i].op = "return"
    /\ OriginOf(StateBefore(b, i, inputs[b]), Body[b][i].of) = "Maybe"

\* Somewhere a pointer receives what the analysis cannot follow, the value of a
\* call, say, or is moved: it is then taken to point nowhere, or where it did.
StrayPointer ==
  \E b \in DOMAIN first : \E i \in 1..Len(Body[b]) :
    LET stmt == Body[b][i] IN
    /\ stmt.op \in {"set", "choose", "step"} /\ Written(stmt) \in PointerPlaces
    /\ stmt.op = "step" \/ \E e \in Sources(stmt) : e.as = "other"

\* An alias really holds a result of the call whenever a run gets there, whatever
\* was copied, overwritten or joined before: a check of something else must not
\* count as handling.
AliasesHoldResult ==
  at # NoRun /\ ~AmbiguousWrite(first) /\ ~StrayPointer =>
    LET o == IF InBlock THEN at ELSE <<at[1], 0>>
    IN o \in aliases => HoldsResult(Examined(o[1], o[2]))

\* "stored result is not handled on every reachable CFG path": no run computes
\* with a result that is accepted as handled, and then leaves with a result that
\* was never checked still in a variable.
UncheckedPathReported ==
  /\ at # NoRun /\ Len(Successors[at[1]]) = 0
  /\ used /\ \E v \in Ints : store[v] = "result"
  /\ ~AmbiguousWrite(input) /\ ~DoubtfulReturn(input) /\ ~StrayPointer
  => verdict \notin Accepted

-----------------------------------------------------------------------------
\* The inductive invariants behind these two.

RunTypeOK ==
  /\ at \in {NoRun} \cup (FirstBlocks \X Nat)
  /\ used \in BOOLEAN
  /\ DOMAIN store = Ints \cup Pointers
  /\ \A v \in Ints : store[v] \in {"other", "result", "checked"}
  /\ \A p \in Pointers : store[p] \in Ints \cup {Outside}

\* The first search is of the first blocks, from one entry.
BeginningInv ==
  search = "aliases" =>
    /\ Reached \subseteq FirstBlocks /\ EntryInv
    /\ \A c, d \in Entries \cap Reached : c = d

\* What the first search has found, the second search and the run rely on.
FirstInv ==
  search # "aliases" =>
    /\ DOMAIN first \subseteq FirstBlocks /\ aliases = AliasesFor(first)
    /\ \A b \in DOMAIN first :
         /\ first[b] \in ValueFlowStates /\ (b \in Entries => first[b] = EntryState)
         /\ \A i \in 1..Len(Successors[b]) : Successors[b][i] # NoBlock =>
              /\ Successors[b][i] \in DOMAIN first
              /\ Covers(first[Successors[b][i]], OnEdge(b, i, Transfer(b, first[b])))

\* What is accepted was searched a second time, and no such path found.
SecondInv ==
  /\ search = "live" \/ (search = "done" /\ verdict \in Accepted) =>
       \A entry \in Entries \cap DOMAIN first :
         Live[entry] \in Reached /\ Covers(input[Live[entry]], EntryState)
  /\ search = "done" => Done /\ (verdict \in Accepted => ~UnhandledLivePath)

\* A run stays in blocks that the searches have reached.
PlaceInv ==
  at # NoRun =>
    /\ search = "done" /\ at[1] \in DOMAIN first /\ at[2] \in 1..(Len(Body[at[1]]) + 1)
    /\ verdict \in Accepted => Live[at[1]] \in Reached

\* What each search says of the place the run is at.
FirstNow == IF at = NoRun THEN NothingHeld ELSE StateBefore(at[1], at[2], first[at[1]])
LiveNow == IF at = NoRun THEN NothingHeld ELSE StateBefore(Live[at[1]], at[2], input[Live[at[1]]])

\* A state is true of the variables: what it says to hold the result does, and a
\* pointer points to one of its targets.
True(s, variables) ==
  /\ \A v \in Ints : s.values[v] = "Yes" => variables[v] \in {"result", "checked"}
  /\ \A p \in Pointers : s.pointers[p].unknown \/ variables[p] \in s.pointers[p].targets

\* It misses nothing: no unchecked result where it says there is none, no use.
Misses(s, variables, use) ==
  \/ \E v \in Ints : s.values[v] = "No" /\ variables[v] = "result"
  \/ use /\ ~s.uncheckedUse

FirstTrueInv ==
  at = NoRun \/ (~AmbiguousWrite(first) /\ ~StrayPointer) => True(FirstNow, store)

LiveTrueInv ==
  at = NoRun \/ (/\ verdict \in Accepted
                /\ ~AmbiguousWrite(input) /\ ~DoubtfulReturn(input) /\ ~StrayPointer)
    => True(LiveNow, store) /\ ~Misses(LiveNow, store, used)
=============================================================================
