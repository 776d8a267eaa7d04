---------------------------- MODULE NullStateFlow ----------------------------
(***************************************************************************)
(* The null-state analysis of one function: the abstract states of         *)
(* NullStateModel.inc, the transfer of a block and of an edge of           *)
(* NullStateTransfer.inc, driven by Worklist, and then a run of the        *)
(* analysed function itself, so that what the analysis says of a           *)
(* dereference can be held against what the function does.                 *)
(*                                                                         *)
(* A function is a constant: blocks of statements over a few local         *)
(* pointers and non-arrow member lvalues.  A member lvalue is named by its *)
(* occurrence in the source (an Expr of the AST); KeyOf gives its stable   *)
(* key, the object it denotes.  Statements:                                *)
(*   [op |-> "set", to, from]    initialisation of or assignment to a      *)
(*                               pointer variable, memcpy of one included  *)
(*   [op |-> "store", to, from]  assignment to a member occurrence         *)
(*   [op |-> "use", of, site]    `*e`, `e->m`, `e[i]` or a call through e  *)
(*   [op |-> "choose", to, subject, then, else]                            *)
(*                               `to = subject ? then : else`              *)
(* An operand is NullConstant, the nullable call Source, Other (an address, *)
(* a call not looked for), a variable or a member occurrence.              *)
(***************************************************************************)
EXTENDS Worklist, NullFacts, FiniteSets, SequencesExt

CONSTANTS
  Decls,               \* local pointer variables
  Members,             \* occurrences of member lvalues
  KeyOf,               \* occurrence -> stable key
  Body,                \* block -> sequence of statements
  Condition            \* block -> its last condition, or Opaque

NullConstant == "NULL"
Source == "find()"
Other == "&object"
Keys == {KeyOf[m] : m \in Members}
Lvalues == Decls \cup Members
Operands == Lvalues \cup {NullConstant, Source, Other}

Statements ==
  [op : {"set"}, to : Decls, from : Operands]
  \cup [op : {"store"}, to : Members, from : Operands]
  \cup [op : {"use"}, of : Lvalues, site : Nat]
  \cup [op : {"choose"}, to : Decls, subject : Lvalues, then : Operands, else : Operands]

\* Conditions: the operand tested, whether it is compared with NULL or used as
\* a truth value, and whether the condition is true when it is not null.
Test(e, form, sense) == [of |-> e, form |-> form, sense |-> sense]

\* A condition that says nothing of a pointer.
Opaque == Test(Other, "truth", TRUE)

ASSUME NullStateAssumption ==
  /\ Decls \cap (Members \cup Keys) = {} /\ IsFiniteSet(Members)
  /\ {NullConstant, Source, Other} \cap Lvalues = {}
  /\ Body \in [Blocks -> Seq(Statements)]
  /\ \A b \in Blocks :
       \/ Condition[b] = Opaque
       \/ Condition[b] \in [of : Lvalues, form : {"truth", "compare"}, sense : BOOLEAN]

\* The three maps of State, NoFact standing for an absent key.
NullStateSet ==
  [decls : [Decls -> StoredFacts], exprs : [Members -> StoredFacts],
   keys : [Keys -> StoredFacts]]

EmptyState ==
  [decls |-> [d \in Decls |-> NoFact], exprs |-> [m \in Members |-> NoFact],
   keys |-> [k \in Keys |-> NoFact]]

VARIABLES
  at,                  \* <<block, index of its next statement>> of the run
  store                \* what each variable and member object holds
runVars == <<at, store>>
vars == <<flowVars, runVars>>

-----------------------------------------------------------------------------
\* State.

\* fact_for_expr
FactForExpr(s, m) == IF s.exprs[m] # NoFact THEN s.exprs[m] ELSE s.keys[KeyOf[m]]

\* State::set
SetDecl(s, d, f) == [s EXCEPT !.decls[d] = IF f.origin = "No" THEN NoFact ELSE f]

\* set_expr: the occurrence and its key; an absent origin erases both.
SetExpr(s, m, f) ==
  LET stored == IF f.origin = "No" THEN NoFact ELSE f
  IN [s EXCEPT !.exprs[m] = stored, !.keys[KeyOf[m]] = stored]

\* Two slips in refine that the properties below must notice.

RefineOnlySubject(s, ns, subject) ==   \* aliases of the subject are left alone
  IF subject \in Decls THEN [s EXCEPT !.decls[subject].nullState = ns]
  ELSE IF subject \in Members
    THEN SetExpr(s, subject, [FactForExpr(s, subject) EXCEPT !.nullState = ns])
  ELSE s

RefineEverything(s, ns, subject) ==   \* facts of origin Maybe as well
  LET refined(f) == IF f.origin # "No" THEN [f EXCEPT !.nullState = ns] ELSE f
  IN [decls |-> [d \in Decls |-> refined(s.decls[d])],
      exprs |-> [m \in Members |-> refined(s.exprs[m])],
      keys |-> [k \in Keys |-> refined(s.keys[k])]]

\* refine: a subject that holds the result only on some paths is refined alone;
\* otherwise every pointer that holds the result on all paths is.
Refine(s, ns, subject) ==
  LET certain(f) == IF f.origin = "Yes" THEN [f EXCEPT !.nullState = ns] ELSE f
  IN IF subject \in Decls /\ s.decls[subject].origin = "Maybe"
       THEN [s EXCEPT !.decls[subject].nullState = ns]
     ELSE IF subject \in Members /\ FactForExpr(s, subject).origin = "Maybe"
       THEN SetExpr(s, subject, [FactForExpr(s, subject) EXCEPT !.nullState = ns])
     ELSE [decls |-> [d \in Decls |-> certain(s.decls[d])],
           exprs |-> [m \in Members |-> certain(s.exprs[m])],
           keys |-> [k \in Keys |-> certain(s.keys[k])]]

-----------------------------------------------------------------------------
\* State::join.

\* One turn of the loop over the expressions: set_expr overwrites the key too.
JoinExpr(acc, other, m) ==
  LET old == FactForExpr(acc.merged, m)
      new == JoinFact(old, FactForExpr(other, m))
  IN [merged |-> SetExpr(acc.merged, m, new), changed |-> acc.changed \/ old # new]

\* The loop over the stable keys, which starts from the overwritten ones.
JoinKeys(acc, other) ==
  LET new == [k \in Keys |-> JoinFact(acc.merged.keys[k], other.keys[k])]
  IN [merged |-> [acc.merged EXCEPT !.keys = new],
      changed |-> acc.changed \/ new # acc.merged.keys]

\* Occurrences are joined in the order of an unordered_set.
Orders(ms) == {o \in [1..Cardinality(ms) -> ms] : \A m \in ms : \E i \in DOMAIN o : o[i] = m}

Joins(s, other) ==
  LET decls == JoinDecls(s.decls, other.decls)
      start == [merged |-> [s EXCEPT !.decls = decls], changed |-> decls # s.decls]
      recorded == {m \in Members : s.exprs[m] # NoFact \/ other.exprs[m] # NoFact}
  IN {JoinKeys(FoldLeft(LAMBDA acc, m : JoinExpr(acc, other, m), start, order), other) :
        order \in Orders(recorded)}

-----------------------------------------------------------------------------
\* Evaluation.

Fact(s, e) ==
  CASE e = NullConstant -> [origin |-> "Yes", nullState |-> "Null"]
    [] e = Source       -> [origin |-> "Yes", nullState |-> "MaybeNull"]
    [] e \in Decls      -> s.decls[e]
    [] e \in Members    -> FactForExpr(s, e)
    [] OTHER            -> NoFact

\* fact_for_conditional_branch: the branch that names the subject is refined.
\* Unlike evaluate, fact_for_expression knows nothing of NULL.
BranchFact(s, e, subject, ns) ==
  LET f == IF e = NullConstant THEN NoFact ELSE Fact(s, e)
  IN IF f.origin # "No" /\ e = subject THEN [f EXCEPT !.nullState = ns] ELSE f

ChoiceFact(s, stmt) ==
  JoinFact(BranchFact(s, stmt.then, stmt.subject, "NonNull"),
           BranchFact(s, stmt.else, stmt.subject, "Null"))

\* What a statement does to the state.
Apply(s, stmt) ==
  CASE stmt.op = "set"   -> SetDecl(s, stmt.to, Fact(s, stmt.from))
    [] stmt.op = "choose" -> SetDecl(s, stmt.to, ChoiceFact(s, stmt))
    [] stmt.op = "store" -> SetExpr(s, stmt.to, Fact(s, stmt.from))
    [] OTHER             -> s

\* The state before the i-th statement of b.
StateBefore(b, i, s) == FoldLeft(Apply, s, SubSeq(Body[b], 1, i - 1))

TransferBlock(b, s) == StateBefore(b, Len(Body[b]) + 1, s)

\* condition_constraint: is anything learnt, and which subject is refined?  A
\* member used as a truth value has no declaration, and so no subject.
Recognized(s, c) == c # Opaque /\ Fact(s, c.of).origin # "No"
Subject(c) == IF c.form = "truth" /\ c.of \in Members THEN Other ELSE c.of

SuccessorsSwapped(b, i, s) ==   \* a slip: the true edge is the second one
  LET c == Condition[b] IN
  IF Len(Successors[b]) = 2 /\ Recognized(s, c)
    THEN Refine(s, IF (i = 2) = c.sense THEN "NonNull" ELSE "Null", Subject(c))
    ELSE s

StateForSuccessor(b, i, s) ==
  LET c == Condition[b] IN
  IF Len(Successors[b]) = 2 /\ Recognized(s, c)
    THEN Refine(s, IF (i = 1) = c.sense THEN "NonNull" ELSE "Null", Subject(c))
    ELSE s

\* The dereferences of b that are diagnosed from its input.
Diagnosed(b) ==
  {Body[b][i].site : i \in
     {j \in 1..Len(Body[b]) :
        /\ Body[b][j].op = "use"
        /\ Unchecked(Fact(StateBefore(b, j, input[b]), Body[b][j].of))}}

\* The result of unsafe_dereferences_for, once the work list is empty.
Unsafe == UNION {Diagnosed(b) : b \in Reached}

-----------------------------------------------------------------------------
\* A run of the analysed function: "nil" is a null result of the nullable call,
\* "zero" a null pointer constant, "obj" a valid pointer.

Cells == Decls \cup Keys
Cell(e) == IF e \in Members THEN KeyOf[e] ELSE e

Values(e) ==
  CASE e = NullConstant -> {"zero"}
    [] e = Source       -> {"nil", "obj"}
    [] e = Other        -> {"obj"}
    [] OTHER            -> {store[Cell(e)]}

Assigned(stmt) ==
  IF stmt.op = "choose"
    THEN Values(IF store[Cell(stmt.subject)] = "obj" THEN stmt.then ELSE stmt.else)
    ELSE Values(stmt.from)

NoRun == <<NoBlock, 0>>

StartRun ==
  /\ Done /\ at = NoRun
  /\ \E entry \in Entries \cap Reached : at' = <<entry, 1>>
  /\ UNCHANGED <<flowVars, store>>

Statement == Body[at[1]][at[2]]
InBlock == at # NoRun /\ at[2] <= Len(Body[at[1]])

\* The value about to be dereferenced.
Dereferenced == store[Cell(Statement.of)]

Execute ==
  /\ InBlock
  /\ \/ /\ Statement.op # "use"
        /\ \E v \in Assigned(Statement) : store' = [store EXCEPT ![Cell(Statement.to)] = v]
     \/ /\ Statement.op = "use" /\ Dereferenced = "obj"
        /\ UNCHANGED store
  /\ at' = [at EXCEPT ![2] = @ + 1]
  /\ UNCHANGED flowVars

\* The successors the condition allows.
TakenEdges(b) ==
  LET c == Condition[b] IN
  {i \in 1..Len(Successors[b]) :
     \/ Len(Successors[b]) # 2 \/ c = Opaque
     \/ (i = 1) = ((store[Cell(c.of)] = "obj") = c.sense)}

Branch ==
  /\ at # NoRun /\ ~InBlock
  /\ \E i \in TakenEdges(at[1]) :
       /\ Successors[at[1]][i] # NoBlock
       /\ at' = <<Successors[at[1]][i], 1>>
  /\ UNCHANGED <<flowVars, store>>

Init ==
  /\ FlowInit
  /\ at = NoRun
  /\ store = [c \in Cells |-> "obj"]

Next ==
  \/ FlowStep /\ UNCHANGED runVars
  \/ StartRun \/ Execute \/ Branch

SafetySpec == Init /\ [][Next]_vars

\* The analyzer's loop keeps running.
Spec == SafetySpec /\ WF_flowVars(FlowStep)

-----------------------------------------------------------------------------
\* A statement that makes the call, if only in one branch of a choice.
Calls(stmt) ==
  \/ stmt.op \in {"set", "store"} /\ stmt.from = Source
  \/ stmt.op = "choose" /\ Source \in {stmt.then, stmt.else}

\* Somewhere the call is made while another variable surely holds NULL, or the
\* result of a call before: from there on the analysis takes the two for one
\* pointer, as in a loop that keeps the previous node of a list.
Recalled ==
  \E b \in Reached : \E i \in 1..Len(Body[b]) :
    /\ Calls(Body[b][i])
    /\ \E d \in Decls \ {Body[b][i].to} : StateBefore(b, i, input[b]).decls[d].origin = "Yes"

\* docs/nullability.md: "If one path can still carry an unchecked nullable
\* result, the dereference is reported."  No run dereferences a null result of
\* the call at a site that the analysis is silent about.
UnsafeDerefReported ==
  InBlock /\ Statement.op = "use" /\ Dereferenced = "nil" => Statement.site \in Unsafe \/ Recalled

\* Why refining one pointer may refine them all: the variables that hold the
\* result on every path to a block hold the same pointer when a run gets there,
\* but for those that hold a NULL constant.
AliasesAgree ==
  at # NoRun /\ at[2] = 1 =>
    \/ \A c, d \in Decls :
         /\ input[at[1]].decls[c].origin = "Yes"
         /\ input[at[1]].decls[d].origin = "Yes"
         => store[c] = store[d] \/ "zero" \in {store[c], store[d]}
    \/ Recalled

\* A variable that holds a null result when a run enters a block is one the
\* block's input knows may be null.
NullResultsKnown ==
  at # NoRun /\ at[2] = 1 =>
    \/ \A d \in Decls : store[d] = "nil" => Unchecked(input[at[1]].decls[d])
    \/ Recalled

-----------------------------------------------------------------------------
\* The inductive invariants behind these three.

RunTypeOK ==
  /\ store \in [Cells -> {"nil", "zero", "obj"}]
  /\ at # NoRun =>
       Done /\ at \in Reached \X Nat /\ at[2] \in 1..(Len(Body[at[1]]) + 1)

\* What the analysis says of the place the run is at.
Now == IF at = NoRun THEN EmptyState ELSE StateBefore(at[1], at[2], input[at[1]])

\* A state knows the variables: those that surely hold the result hold one result,
\* or a NULL constant, and whatever holds a null result may be unchecked.
Knows(s, variables) ==
  /\ \E result \in {"nil", "obj"} :
       \A d \in Decls : s.decls[d].origin = "Yes" => variables[d] \in {result, "zero"}
  /\ \A d \in Decls : variables[d] = "nil" => Unchecked(s.decls[d])

KnownInv == at = NoRun \/ ~Recalled => Knows(Now, store)

-----------------------------------------------------------------------------
\* When the exemption applies.

\* One place makes the call, as in the program, where it is one expression.
OneCall ==
  \A b, c \in Reached : \A i \in 1..Len(Body[b]), j \in 1..Len(Body[c]) :
    Calls(Body[b][i]) /\ Calls(Body[c][j]) => b = c /\ i = j

AssignsNull(stmt) == stmt.op \in {"set", "store"} /\ stmt.from = NullConstant

UsesNull == \E b \in Reached : \E i \in 1..Len(Body[b]) : AssignsNull(Body[b][i])

\* A result that outlives the next call is never surely the result: the first
\* time around the loop it was something else, unless that was NULL.
RecalledNeedsNull == Recalled => UsesNull \/ ~OneCall

NothingCertain(s) == \A d \in Decls : s.decls[d].origin # "Yes"
Calling(b) == \E i \in 1..Len(Body[b]) : Calls(Body[b][i])

\* Until the call is reached nothing is certain, and so nothing is when it is
\* made for the first time, or joined with that.
UncertainInv ==
  \/ UsesNull \/ ~OneCall
  \/ \E b \in Reached : Calling(b) /\ NothingCertain(input[b])
  \/ /\ \A b \in Reached : ~Calling(b) /\ NothingCertain(input[b])
     /\ NothingCertain(output)
=============================================================================
