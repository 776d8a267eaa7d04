------------------------------ MODULE Lifetime ------------------------------
(***************************************************************************)
(* The lifetime analysis of one function (analyze_lifetime of              *)
(* AnalyzerSafety.cpp): a state says which tokens each pointer variable    *)
(* may hold and whether a token was freed.  A token is the declaration     *)
(* that was given an object last, not the allocation itself.  Then a run   *)
(* of the analysed function over a heap, so that what the analysis reports *)
(* can be held against what the function does.                             *)
(*                                                                         *)
(* A function is a constant: blocks of statements over pointer variables.  *)
(*   [op |-> "alloc", to]           malloc, new, or an unknown call        *)
(*   [op |-> "clear", to]           `to = NULL`                            *)
(*   [op |-> "copy", to, from]      `to = from`                            *)
(*   [op |-> "memcpy", to, from]    `memcpy(&to, &from, sizeof to)`        *)
(*   [op |-> "choose", to, from, other]    `to = c ? from : other`         *)
(*   [op |-> "free", of]            `free(of);` or `delete of;`            *)
(*   [op |-> "freeUsed", of]        a deallocation inside an expression    *)
(*                                  that is an element of the CFG as well  *)
(*   [op |-> "realloc", to, of]     `to = realloc(of, n)`                  *)
(*   [op |-> "use", of]             `*of`, or of passed to a function      *)
(* A diagnostic is known by its place, <<block, index of the statement>>.  *)
(***************************************************************************)
EXTENDS Worklist, FiniteSets, SequencesExt

CONSTANTS
  Decls,               \* pointer variables
  Parameters,          \* those that are parameters
  Body,                \* block -> sequence of statements
  Condition,           \* block -> the variable its condition reads, or Opaque
  Opaque,
  MaxObjects           \* bound: objects a run allocates

Statements ==
  [op : {"alloc", "clear"}, to : Decls]
  \cup [op : {"copy", "memcpy"}, to : Decls, from : Decls]
  \cup [op : {"choose"}, to : Decls, from : Decls, other : Decls]
  \cup [op : {"free", "freeUsed", "use"}, of : Decls]
  \cup [op : {"realloc"}, to : Decls, of : Decls]

ASSUME LifetimeAssumption ==
  /\ Parameters \subseteq Decls /\ IsFiniteSet(Decls)
  /\ Opaque \notin Decls
  /\ Body \in [Blocks -> Seq(Statements)]
  /\ Condition \in [Blocks -> Decls \cup {Opaque}]

TokenStates == {"Live", "Freed", "MaybeFreed"}

\* Absent tokens are live, absent values empty; where a token was freed only
\* places a note.
LifetimeStates == [values : [Decls -> SUBSET Decls], tokens : [Decls -> TokenStates]]

\* The parameters' tokens are fresh.
FreshParameters ==
  [values |-> [d \in Decls |-> IF d \in Parameters THEN {d} ELSE {}],
   tokens |-> [d \in Decls |-> "Live"]]

VARIABLES
  at,                  \* <<block, index of its next statement>> of the run
  store,               \* variable -> object it points to, or Null
  heap                 \* object -> "live", "freed", or "kept" by a failed realloc
runVars == <<at, store, heap>>
vars == <<flowVars, runVars>>

-----------------------------------------------------------------------------
JoinTokenStateMust(a, b) == IF a = b THEN a ELSE "Live"   \* a slip

JoinTokenState(a, b) == IF a = b THEN a ELSE "MaybeFreed"

\* LifetimeState::join.
Joined(s, other) ==
  [values |-> [d \in Decls |-> s.values[d] \cup other.values[d]],
   tokens |-> [t \in Decls |-> JoinTokenState(s.tokens[t], other.tokens[t])]]

Join(s, other) == {[merged |-> Joined(s, other), changed |-> Joined(s, other) # s]}

SetValue(s, d, held) == [s EXCEPT !.values[d] = held]

\* set_fresh: d is the token of whatever it points to now.
SetFresh(s, d) == [s EXCEPT !.values[d] = {d}, !.tokens[d] = "Live"]

MarkFreed(s, held) ==
  [s EXCEPT !.tokens = [t \in Decls |-> IF t \in held THEN "Freed" ELSE s.tokens[t]]]

MaybeFreed(s, held) == \E t \in held : s.tokens[t] # "Live"

\* A variable without a token gets its own when it is read.
Read(s, d) == IF s.values[d] = {} THEN SetFresh(s, d) ELSE s

Free(s, d) == MarkFreed(Read(s, d), Read(s, d).values[d])

\* What a statement does to the state.  realloc and freeUsed are elements of
\* the CFG twice: the call by itself, and within the enclosing expression.
Apply(s, stmt) ==
  CASE stmt.op = "alloc"  -> SetFresh(s, stmt.to)
    [] stmt.op = "clear"  -> SetValue(s, stmt.to, {})
    [] stmt.op = "copy"   -> SetValue(Read(s, stmt.from), stmt.to, Read(s, stmt.from).values[stmt.from])
    [] stmt.op = "memcpy" -> SetValue(s, stmt.to, s.values[stmt.from])
    [] stmt.op = "choose" ->
         LET r == Read(Read(s, stmt.from), stmt.other)
         IN SetValue(r, stmt.to, r.values[stmt.from] \cup r.values[stmt.other])
    [] stmt.op = "free"   -> Free(s, stmt.of)
    [] stmt.op = "freeUsed" -> Free(Free(s, stmt.of), stmt.of)
    [] stmt.op = "realloc" -> SetFresh(Free(Free(s, stmt.of), stmt.of), stmt.to)
    [] stmt.op = "use"    -> Read(s, stmt.of)

\* The condition is the last element of its block.
ApplyCondition(s, c) == IF c = Opaque THEN s ELSE Read(s, c)

StateBefore(b, i, s) == FoldLeft(Apply, s, SubSeq(Body[b], 1, i - 1))

TransferBlock(b, s) == ApplyCondition(StateBefore(b, Len(Body[b]) + 1, s), Condition[b])

\* Nothing is learnt from an edge.
AlongEdge(b, i, s) == s

-----------------------------------------------------------------------------
\* Diagnostics.

ReportsRepeatedRealloc(s, stmt) ==       \* a slip: diagnose_repeated_free is true
  LET freedTwice == stmt.op \in {"freeUsed", "realloc"}
      touched == Read(s, stmt.of)
  IN MaybeFreed(touched, touched.values[stmt.of]) \/ freedTwice

\* A pointer that may be freed is used or freed again.  Evaluating a consumed
\* deallocation a second time finds what the first time freed; for an assigned
\* realloc the second time is not diagnosed.
Reports(s, stmt) ==
  LET touched == Read(s, stmt.of)
  IN MaybeFreed(touched, touched.values[stmt.of]) \/ stmt.op = "freeUsed"

Touching == {"use", "free", "freeUsed", "realloc"}

Diagnosed(b) ==
  {<<b, i>> : i \in
     {j \in 1..Len(Body[b]) :
        /\ Body[b][j].op \in Touching
        /\ Reports(StateBefore(b, j, input[b]), Body[b][j])}}

\* What analyze_lifetime reports, once the work list is empty.
Reported == UNION {Diagnosed(b) : b \in Reached}

-----------------------------------------------------------------------------
\* A run of the analysed function.

Null == 0
NoRun == <<NoBlock, 0>>
Objects == 1..Len(heap)

StartRun ==
  /\ Done /\ at = NoRun
  /\ \E entry \in Entries \cap Reached : at' = <<entry, 1>>
  /\ UNCHANGED <<flowVars, store, heap>>

Statement == Body[at[1]][at[2]]
InBlock == at # NoRun /\ at[2] <= Len(Body[at[1]])

\* The object touched by the next statement has been freed.
TouchesFreed ==
  /\ InBlock /\ Statement.op \in Touching
  /\ store[Statement.of] # Null /\ heap[store[Statement.of]] = "freed"

Marked(object, state) == IF object = Null THEN heap ELSE [heap EXCEPT ![object] = state]

\* d receives a new object of a heap whose objects are h.
NewObject(d, h) ==
  /\ Len(h) < MaxObjects
  /\ heap' = Append(h, "live")
  /\ store' = [store EXCEPT ![d] = Len(h) + 1]

\* The allocation failed and left h behind.
NoObject(d, h) == heap' = h /\ store' = [store EXCEPT ![d] = Null]

Allocate ==
  /\ InBlock /\ Statement.op = "alloc"
  /\ NewObject(Statement.to, heap) \/ NoObject(Statement.to, heap)

Move ==
  /\ InBlock /\ Statement.op \in {"clear", "copy", "memcpy", "choose"}
  /\ \E v \in CASE Statement.op = "clear"  -> {Null}
                [] Statement.op = "choose" -> {store[Statement.from], store[Statement.other]}
                [] OTHER                   -> {store[Statement.from]} :
       store' = [store EXCEPT ![Statement.to] = v]
  /\ UNCHANGED heap

Release ==
  /\ InBlock /\ Statement.op \in {"free", "freeUsed"}
  /\ heap' = Marked(store[Statement.of], "freed")
  /\ UNCHANGED store

Reallocate ==
  /\ InBlock /\ Statement.op = "realloc"
  /\ \/ NewObject(Statement.to, Marked(store[Statement.of], "freed"))
     \/ NoObject(Statement.to, IF TouchesFreed THEN heap ELSE Marked(store[Statement.of], "kept"))

\* A null pointer dereferenced ends the run.
Use ==
  /\ InBlock /\ Statement.op = "use" /\ store[Statement.of] # Null
  /\ UNCHANGED <<store, heap>>

Execute ==
  /\ Allocate \/ Move \/ Release \/ Reallocate \/ Use
  /\ at' = [at EXCEPT ![2] = @ + 1]
  /\ UNCHANGED flowVars

\* The first successor is taken when the condition's variable is not null.
TakenEdges(b) ==
  {i \in 1..Len(Successors[b]) :
     \/ Len(Successors[b]) # 2 \/ Condition[b] = Opaque
     \/ (i = 1) = (store[Condition[b]] # Null)}

Branch ==
  /\ at # NoRun /\ ~InBlock
  /\ \E i \in TakenEdges(at[1]) :
       /\ Successors[at[1]][i] # NoBlock
       /\ at' = <<Successors[at[1]][i], 1>>
  /\ UNCHANGED <<flowVars, store, heap>>

\* Parameters point to live objects of their own.
Init ==
  /\ FlowInit
  /\ at = NoRun
  /\ heap = [n \in 1..Cardinality(Parameters) |-> "live"]
  /\ store \in [Decls -> 0..Cardinality(Parameters)]
  /\ \A d \in Decls : store[d] = Null <=> d \notin Parameters
  /\ \A c, d \in Parameters : c # d => store[c] # store[d]

Next ==
  \/ FlowStep /\ UNCHANGED runVars
  \/ StartRun \/ Execute \/ Branch

Spec == Init /\ [][Next]_vars

-----------------------------------------------------------------------------
\* The variables a statement gives a fresh token, or may.
Renewed(s, stmt) ==
  CASE stmt.op = "alloc" -> {stmt.to}
    [] stmt.op = "realloc" -> {stmt.to} \cup {d \in {stmt.of} : s.values[d] = {}}
    [] stmt.op \in {"clear", "memcpy"} -> {}
    [] stmt.op = "copy" -> {d \in {stmt.from} : s.values[d] = {}}
    [] stmt.op = "choose" -> {d \in {stmt.from, stmt.other} : s.values[d] = {}}
    [] OTHER -> {d \in {stmt.of} : s.values[d] = {}}

\* Another variable holds d's token.
Shared(s, d) == \E e \in Decls \ {d} : d \in s.values[e]

\* Somewhere a token is renewed while another variable still holds it for the
\* object before: from then on it stands for two objects.
TokenReused ==
  \E b \in Reached :
    \/ \E i \in 1..Len(Body[b]) :
         LET s == StateBefore(b, i, input[b])
         IN \E d \in Renewed(s, Body[b][i]) : Shared(s, d)
    \/ /\ Condition[b] # Opaque
       /\ LET s == StateBefore(b, Len(Body[b]) + 1, input[b])
          IN s.values[Condition[b]] = {} /\ Shared(s, Condition[b])

\* A freed object is never used or freed again at a place the analysis is silent
\* about, whatever the aliases, branches and loops on the way there, unless the
\* function makes a token stand for two objects.
FreedTouchReported ==
  TouchesFreed /\ ~TokenReused => at \in Reported

\* Where the analysis need not guess (no branch, no loop, no choice, no token for
\* two objects, no deallocation inside another expression), a report is a real
\* error: the object has been freed, or the pointer is null, or a realloc of the
\* object, which the analysis takes to succeed, has failed.
Guesses ==
  \/ Forks
  \/ \E b \in Reached : \E i \in 1..Len(Body[b]) : Body[b][i].op \in {"choose", "freeUsed"}
ReportsAreReal ==
  InBlock /\ Statement.op \in Touching /\ at \in Reported /\ ~TokenReused /\ ~Guesses
    => store[Statement.of] = Null \/ heap[store[Statement.of]] # "live"

-----------------------------------------------------------------------------
\* The inductive invariants behind FreedTouchReported and ReportsAreReal.

RunTypeOK ==
  /\ at \in {NoRun} \cup (Blocks \X Nat)
  /\ heap \in Seq({"live", "freed", "kept"})
  /\ store \in [Decls -> 0..Len(heap)]

\* A run starts when the analysis is done and stays in blocks it has reached.
PlaceInv ==
  at # NoRun => Done /\ at[1] \in Reached /\ at[2] \in 1..(Len(Body[at[1]]) + 1)

\* What the analysis says of the place the run is at.
Now == IF at = NoRun THEN FreshParameters ELSE StateBefore(at[1], at[2], input[at[1]])

\* tok names the token of each object: a variable's values include the token of
\* the object it points to, and the token of a freed object is not live.
Names(tok, s, variables, objects) ==
  \A d \in Decls : variables[d] # Null =>
    /\ tok[variables[d]] \in s.values[d]
    /\ objects[variables[d]] = "freed" => s.tokens[tok[variables[d]]] # "Live"

Describes(s, variables, objects) ==
  \E tok \in [1..Len(objects) -> Decls] : Names(tok, s, variables, objects)

DescribedInv == at = NoRun \/ ~TokenReused => Describes(Now, store, heap)

\* Variables that hold the same token point to the same object, and it is gone
\* where the token is no longer live.
Exact(s, variables, objects) ==
  \A d \in Decls : \A t \in s.values[d] :
    /\ \A e \in Decls : t \in s.values[e] => variables[e] = variables[d]
    /\ variables[d] # Null /\ s.tokens[t] # "Live" => objects[variables[d]] # "live"

ExactInv == at = NoRun \/ (~TokenReused /\ ~Guesses) => Exact(Now, store, heap)
=============================================================================
