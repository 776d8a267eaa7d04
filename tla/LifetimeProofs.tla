--------------------------- MODULE LifetimeProofs ---------------------------
(***************************************************************************)
(* For every function and any set of pointer variables: the work list of   *)
(* the lifetime analysis runs dry only at a fixpoint; along every run the  *)
(* state at the run's place describes store and heap, so that each touch   *)
(* of a freed object is reported; and where nothing is guessed the state   *)
(* is exact, so that each report is real.                                  *)
(***************************************************************************)
EXTENDS Lifetime, WorklistProofs, FiniteSetTheorems

\* A statement names variables of the function.
IsStatement(stmt) ==
  /\ stmt.op \in {"alloc", "clear", "copy", "memcpy", "choose", "free", "freeUsed", "realloc", "use"}
  /\ stmt.op \in {"alloc", "clear", "copy", "memcpy", "choose", "realloc"} => stmt.to \in Decls
  /\ stmt.op \in {"copy", "memcpy", "choose"} => stmt.from \in Decls
  /\ stmt.op = "choose" => stmt.other \in Decls
  /\ stmt.op \in {"free", "freeUsed", "realloc", "use"} => stmt.of \in Decls

\* The helpers of Apply stay within the states.
LEMMA HelpersAreTyped ==
  ASSUME NEW s \in LifetimeStates, NEW d \in Decls, NEW held \in SUBSET Decls
  PROVE  /\ SetValue(s, d, held) \in LifetimeStates
         /\ SetFresh(s, d) \in LifetimeStates
         /\ MarkFreed(s, held) \in LifetimeStates
         /\ Read(s, d) \in LifetimeStates
         /\ s.values[d] \in SUBSET Decls
<1> USE DEF LifetimeStates, TokenStates
<1>1. SetValue(s, d, held) \in LifetimeStates
  BY DEF SetValue
<1>2. SetFresh(s, d) \in LifetimeStates
  BY DEF SetFresh
<1>3. MarkFreed(s, held) \in LifetimeStates
  BY DEF MarkFreed
<1>4. Read(s, d) \in LifetimeStates
  BY <1>2 DEF Read
<1>5. QED
  BY <1>1, <1>2, <1>3, <1>4

\* Freeing what a variable may hold stays within the states.
LEMMA FreeIsTyped ==
  ASSUME NEW s \in LifetimeStates, NEW d \in Decls
  PROVE  Free(s, d) \in LifetimeStates
<1>1. Read(s, d) \in LifetimeStates
  BY HelpersAreTyped
<1>2. Read(s, d).values[d] \in SUBSET Decls
  BY <1>1, HelpersAreTyped
<1>3. QED
  BY <1>1, <1>2, HelpersAreTyped DEF Free

\* Every statement takes a state of the analysis to a state of the analysis.
THEOREM StatementIsTyped ==
  ASSUME NEW s \in LifetimeStates, NEW stmt, IsStatement(stmt)
  PROVE  Apply(s, stmt) \in LifetimeStates
<1> USE DEF IsStatement
<1>1. CASE stmt.op = "alloc"
  BY <1>1, HelpersAreTyped DEF Apply
<1>2. CASE stmt.op = "clear"
  BY <1>2, HelpersAreTyped DEF Apply
<1>3. CASE stmt.op = "copy"
  <2>1. Read(s, stmt.from) \in LifetimeStates
    BY <1>3, HelpersAreTyped
  <2>2. Read(s, stmt.from).values[stmt.from] \in SUBSET Decls
    BY <1>3, <2>1, HelpersAreTyped
  <2>3. QED
    BY <1>3, <2>1, <2>2, HelpersAreTyped DEF Apply
<1>4. CASE stmt.op = "memcpy"
  <2>1. s.values[stmt.from] \in SUBSET Decls
    BY <1>4, HelpersAreTyped
  <2>2. QED
    BY <1>4, <2>1, HelpersAreTyped DEF Apply
<1>5. CASE stmt.op = "choose"
  <2> DEFINE r == Read(Read(s, stmt.from), stmt.other)
  <2>1. r \in LifetimeStates
    BY <1>5, HelpersAreTyped
  <2>2. r.values[stmt.from] \cup r.values[stmt.other] \in SUBSET Decls
    BY <1>5, <2>1 DEF LifetimeStates
  <2>3. SetValue(r, stmt.to, r.values[stmt.from] \cup r.values[stmt.other]) \in LifetimeStates
    BY <1>5, <2>1, <2>2, HelpersAreTyped
  <2>4. QED
    BY <1>5, <2>3 DEF Apply
<1>6. CASE stmt.op = "free"
  BY <1>6, FreeIsTyped DEF Apply
<1>7. CASE stmt.op = "freeUsed"
  BY <1>7, FreeIsTyped DEF Apply
<1>8. CASE stmt.op = "realloc"
  <2>1. Free(Free(s, stmt.of), stmt.of) \in LifetimeStates
    BY <1>8, FreeIsTyped
  <2>2. QED
    BY <1>8, <2>1, HelpersAreTyped DEF Apply
<1>9. CASE stmt.op = "use"
  BY <1>9, HelpersAreTyped DEF Apply
<1>10. QED
  BY <1>1, <1>2, <1>3, <1>4, <1>5, <1>6, <1>7, <1>8, <1>9

\* The statements of a body are of these forms.
LEMMA ApplyIsTyped ==
  \A s \in LifetimeStates, stmt \in Statements : Apply(s, stmt) \in LifetimeStates
<1> TAKE s \in LifetimeStates, stmt \in Statements
<1>1. IsStatement(stmt)
  BY DEF Statements, IsStatement
<1>2. QED
  BY <1>1, StatementIsTyped

\* A block is applied one statement after the other, from state to state.
LEMMA FoldLeftComputes ==
  ASSUME NEW s \in LifetimeStates, NEW q \in Seq(Statements)
  PROVE  \E g \in [0..Len(q) -> LifetimeStates] :
           /\ g[0] = s
           /\ \A k \in 1..Len(q) : g[k] = Apply(g[k - 1], q[k])
           /\ FoldLeft(Apply, s, q) = g[Len(q)]
<1> DEFINE n == Len(q)
           step == [k \in 1..n |-> [v \in LifetimeStates |-> Apply(v, q[k])]]
           IsFold(it) == it = [r \in SUBSET (DOMAIN q) |->
                                 IF r = {} THEN s ELSE Apply(it[r \ {Max(r)}], q[Max(r)])]
<1>1. n \in Nat /\ DOMAIN q = 1..n /\ \A k \in 1..n : q[k] \in Statements
  OBVIOUS
<1>2. step \in [1..n -> [LifetimeStates -> LifetimeStates]]
  BY <1>1, ApplyIsTyped
<1>3. \E it : IsFold(it)
  <2> HIDE DEF step, n
  <2>1. PICK it \in [SUBSET (1..n) -> LifetimeStates] :
          Iterates(it, s, n, step)
    BY <1>1, <1>2, FoldExists
  <2>2. ASSUME NEW r \in SUBSET (1..n), r # {}
        PROVE  step[Max(r)][it[r \ {Max(r)}]] = Apply(it[r \ {Max(r)}], q[Max(r)])
    <3>1. Max(r) \in 1..n
      BY <1>1, <2>2, MaxOfNumbers
    <3>2. it[r \ {Max(r)}] \in LifetimeStates
      OBVIOUS
    <3>3. QED
      BY <3>1, <3>2 DEF step
  <2>3. IsFold(it)
    BY <1>1, <2>1, <2>2 DEF Iterates
  <2>4. QED
    BY <2>3
<1>4. PICK it : IsFold(it) /\ FoldLeft(Apply, s, q) = it[DOMAIN q]
  <2>1. FoldLeft(Apply, s, q) = (CHOOSE it : IsFold(it))[DOMAIN q]
    BY DEF FoldLeft, MapThenFoldSet
  <2>2. IsFold(CHOOSE it : IsFold(it))
    <3> HIDE DEF IsFold
    <3> QED BY <1>3
  <2>3. QED
    BY <2>1, <2>2
<1> DEFINE g == [k \in 0..n |-> it[1..k]]
<1>5. g[0] = s
  <2>1. 1..0 = {}
    OBVIOUS
  <2>2. QED
    BY <1>1, <1>4, <2>1
<1>6. ASSUME NEW k \in 1..n PROVE g[k] = Apply(g[k - 1], q[k])
  <2>0. k \in Nat /\ k \in 1..k /\ (1..k) \ {k} = 1..(k - 1) /\ \A i \in 1..k : i \in 1..n
    BY <1>1
  <2>1. 1..k \in SUBSET (DOMAIN q) /\ 1..k # {} /\ (1..k) \ {k} = 1..(k - 1) /\ k \in 1..k /\ k \in Nat
    <3> HIDE DEF n
    <3> QED BY <1>1, <2>0
  <2>2. Max(1..k) = k
    BY <2>1, MaxOfInterval
  <2>3. it[1..k] = Apply(it[1..(k - 1)], q[k])
    BY <1>4, <2>1, <2>2
  <2>4. QED
    BY <1>1, <2>3
<1>7. \A k \in 0..n : g[k] \in LifetimeStates
  <2> DEFINE T == {k \in 0..n : g[k] \in LifetimeStates}
  <2> HIDE DEF g, n
  <2>1. 0 \in T
    BY <1>1, <1>5
  <2>2. ASSUME NEW k \in 1..n, k - 1 \in T PROVE k \in T
    BY <1>1, <1>6, <2>2, ApplyIsTyped
  <2>3. T = 0..n
    <3>1. T \in SUBSET (0..n)
      BY DEF T
    <3> HIDE DEF T
    <3>2. QED
      BY <1>1, <2>1, <2>2, <3>1, IntervalInduction
  <2>4. QED
    BY <2>3
<1>8. g \in [0..n -> LifetimeStates]
  BY <1>7
<1>9. FoldLeft(Apply, s, q) = g[n]
  BY <1>1, <1>4
<1>10. QED
  BY <1>5, <1>6, <1>8, <1>9

\* So is every beginning of it.
LEMMA FoldLeftSteps ==
  ASSUME NEW s \in LifetimeStates, NEW q \in Seq(Statements)
  PROVE  /\ FoldLeft(Apply, s, SubSeq(q, 1, 0)) = s
         /\ \A i \in 0..Len(q) : FoldLeft(Apply, s, SubSeq(q, 1, i)) \in LifetimeStates
         /\ \A i \in 1..Len(q) :
              FoldLeft(Apply, s, SubSeq(q, 1, i)) = Apply(FoldLeft(Apply, s, SubSeq(q, 1, i - 1)), q[i])
<1>1. PICK g \in [0..Len(q) -> LifetimeStates] :
         /\ g[0] = s
         /\ \A k \in 1..Len(q) : g[k] = Apply(g[k - 1], q[k])
         /\ FoldLeft(Apply, s, q) = g[Len(q)]
  BY FoldLeftComputes
<1>2. ASSUME NEW i \in 0..Len(q) PROVE FoldLeft(Apply, s, SubSeq(q, 1, i)) = g[i]
  <2> DEFINE p == SubSeq(q, 1, i)
  <2>1. p \in Seq(Statements) /\ Len(p) = i /\ \A k \in 1..i : p[k] = q[k]
    OBVIOUS
  <2> HIDE DEF p
  <2>2. PICK h \in [0..Len(p) -> LifetimeStates] :
         /\ h[0] = s
         /\ \A k \in 1..Len(p) : h[k] = Apply(h[k - 1], p[k])
         /\ FoldLeft(Apply, s, p) = h[Len(p)]
    BY <2>1, FoldLeftComputes
  <2>3. \A k \in 1..i : h[k - 1] = g[k - 1] => h[k] = g[k]
    BY <1>1, <2>1, <2>2
  <2>4. i \in Nat /\ h[0] = g[0]
    BY <1>1, <2>2
  <2>5. \A k \in 0..i : h[k] = g[k]
    <3> DEFINE T == {k \in 0..i : h[k] = g[k]}
    <3>1. T \in SUBSET (0..i) /\ 0 \in T
      BY <2>4
    <3>2. \A k \in 1..i : k - 1 \in T => k \in T
      BY <2>3, <2>4
    <3>3. T = 0..i
      <4> HIDE DEF T
      <4> QED BY <2>4, <3>1, <3>2, IntervalInduction
    <3>4. QED
      BY <3>3
  <2>6. QED
    BY <2>1, <2>2, <2>4, <2>5 DEF p
<1>3. Len(q) \in Nat
  OBVIOUS
<1>4. QED
  BY <1>1, <1>2, <1>3

\* The state before each statement of a block, from its input on.
LEMMA StatesInTurn ==
  ASSUME NEW b \in Blocks, NEW s \in LifetimeStates
  PROVE  /\ StateBefore(b, 1, s) = s
         /\ \A i \in 1..(Len(Body[b]) + 1) : StateBefore(b, i, s) \in LifetimeStates
         /\ \A i \in 1..Len(Body[b]) : StateBefore(b, i + 1, s) = Apply(StateBefore(b, i, s), Body[b][i])
<1>1. PICK q \in Seq(Statements) : q = Body[b]
  BY LifetimeAssumption
<1>2. Len(q) \in Nat
  OBVIOUS
<1>3. ASSUME NEW i \in 1..(Len(q) + 1)
      PROVE  StateBefore(b, i, s) = FoldLeft(Apply, s, SubSeq(q, 1, i - 1)) /\ i - 1 \in 0..Len(q)
  BY <1>1, <1>2 DEF StateBefore
<1>4. \A i \in 1..Len(q) : i \in 1..(Len(q) + 1) /\ i + 1 \in 1..(Len(q) + 1) /\ (i + 1) - 1 = i
  BY <1>2
<1>5. 1 \in 1..(Len(q) + 1) /\ 1 - 1 = 0
  BY <1>2
<1>6. /\ FoldLeft(Apply, s, SubSeq(q, 1, 0)) = s
      /\ \A i \in 0..Len(q) : FoldLeft(Apply, s, SubSeq(q, 1, i)) \in LifetimeStates
      /\ \A i \in 1..Len(q) :
           FoldLeft(Apply, s, SubSeq(q, 1, i)) = Apply(FoldLeft(Apply, s, SubSeq(q, 1, i - 1)), q[i])
  BY FoldLeftSteps
<1>7. \A i \in 1..Len(q) : StateBefore(b, i + 1, s) = Apply(StateBefore(b, i, s), q[i])
  BY <1>3, <1>4, <1>6
<1>8. \A i \in 1..(Len(q) + 1) : StateBefore(b, i, s) \in LifetimeStates
  BY <1>3, <1>6
<1>9. QED
  BY <1>1, <1>3, <1>5, <1>6, <1>7, <1>8

\* A block, its condition included, takes states to states.
LEMMA TransferIsTyped ==
  ASSUME NEW b \in Blocks, NEW s \in LifetimeStates
  PROVE  TransferBlock(b, s) \in LifetimeStates
<1>1. StateBefore(b, Len(Body[b]) + 1, s) \in LifetimeStates
  <2>1. Len(Body[b]) + 1 \in 1..(Len(Body[b]) + 1)
    BY LifetimeAssumption
  <2>2. QED
    BY <2>1, StatesInTurn
<1>2. Condition[b] \in Decls \cup {Opaque}
  BY LifetimeAssumption
<1>3. QED
  BY <1>1, <1>2, HelpersAreTyped DEF TransferBlock, ApplyCondition

\* Joins are joined pointwise, and a state is unchanged by what it covers.
LEMMA JoinedIsTyped ==
  ASSUME NEW s \in LifetimeStates, NEW t \in LifetimeStates
  PROVE  Joined(s, t) \in LifetimeStates
  BY DEF Joined, JoinTokenState, LifetimeStates, TokenStates

LEMMA JoinedChangesNothing ==
  ASSUME NEW s \in LifetimeStates, NEW t \in LifetimeStates
  PROVE  Joined(s, t) = s <=>
           /\ \A d \in Decls : t.values[d] \subseteq s.values[d]
           /\ \A d \in Decls : s.tokens[d] = "MaybeFreed" \/ s.tokens[d] = t.tokens[d]
<1> USE DEF LifetimeStates, TokenStates
<1>1. ASSUME Joined(s, t) = s, NEW d \in Decls
      PROVE  /\ t.values[d] \subseteq s.values[d]
             /\ s.tokens[d] = "MaybeFreed" \/ s.tokens[d] = t.tokens[d]
  <2>1. s.values[d] = s.values[d] \cup t.values[d]
    BY <1>1 DEF Joined
  <2>2. s.tokens[d] = JoinTokenState(s.tokens[d], t.tokens[d])
    BY <1>1 DEF Joined
  <2>3. QED
    BY <2>1, <2>2 DEF JoinTokenState
<1>2. ASSUME \A d \in Decls : t.values[d] \subseteq s.values[d],
             \A d \in Decls : s.tokens[d] = "MaybeFreed" \/ s.tokens[d] = t.tokens[d]
      PROVE  Joined(s, t) = s
  <2>1. [d \in Decls |-> s.values[d] \cup t.values[d]] = s.values
    <3>1. \A d \in Decls : s.values[d] \cup t.values[d] = s.values[d]
      BY <1>2
    <3>2. QED
      BY <3>1
  <2>2. [d \in Decls |-> JoinTokenState(s.tokens[d], t.tokens[d])] = s.tokens
    <3>1. \A d \in Decls : JoinTokenState(s.tokens[d], t.tokens[d]) = s.tokens[d]
      BY <1>2 DEF JoinTokenState
    <3>2. QED
      BY <3>1
  <2>3. s = [values |-> s.values, tokens |-> s.tokens]
    OBVIOUS
  <2>4. QED
    BY <2>1, <2>2, <2>3 DEF Joined
<1>3. QED
  BY <1>1, <1>2

\* What a state covers, the state joined with a further path covers as well,
\* and it covers that path.
LEMMA JoinedCoversMore ==
  ASSUME NEW s \in LifetimeStates, NEW t \in LifetimeStates, NEW e \in LifetimeStates
  PROVE  /\ Joined(Joined(s, t), t) = Joined(s, t)
         /\ Joined(s, e) = s => Joined(Joined(s, t), e) = Joined(s, t)
<1>1. Joined(s, t) \in LifetimeStates
  BY JoinedIsTyped
<1>2. \A d \in Decls : /\ Joined(s, t).values[d] = s.values[d] \cup t.values[d]
                       /\ Joined(s, t).tokens[d] = JoinTokenState(s.tokens[d], t.tokens[d])
  BY DEF Joined
<1>3. Joined(Joined(s, t), t) = Joined(s, t)
  <2>1. \A d \in Decls : t.values[d] \subseteq Joined(s, t).values[d]
    BY <1>2
  <2>2. \A d \in Decls : \/ Joined(s, t).tokens[d] = "MaybeFreed"
                         \/ Joined(s, t).tokens[d] = t.tokens[d]
    BY <1>2 DEF JoinTokenState
  <2>3. QED
    BY <1>1, <2>1, <2>2, JoinedChangesNothing
<1>4. ASSUME Joined(s, e) = s
      PROVE  Joined(Joined(s, t), e) = Joined(s, t)
  <2>1. \A d \in Decls : e.values[d] \subseteq Joined(s, t).values[d]
    BY <1>2, <1>4, JoinedChangesNothing
  <2>2. \A d \in Decls : s.tokens[d] = "MaybeFreed" \/ s.tokens[d] = e.tokens[d]
    BY <1>4, JoinedChangesNothing
  <2>3. \A d \in Decls : \/ Joined(s, t).tokens[d] = "MaybeFreed"
                         \/ Joined(s, t).tokens[d] = e.tokens[d]
    BY <1>2, <2>2 DEF JoinTokenState
  <2>4. QED
    BY <1>1, <2>1, <2>3, JoinedChangesNothing
<1>5. QED
  BY <1>3, <1>4

\* The laws WorklistEndsAtFixpoint asks for hold of LifetimeState::join,
\* whatever the variables: it reports a change exactly when there is one, keeps
\* what it joined and forgets nothing, so no path is lost in a fixpoint.
THEOREM LifetimeStatesAccumulate ==
  ASSUME \A s, t \in LifetimeStates : JoinOutcomes(s, t) = Join(s, t)
  PROVE  JoinAccumulates(LifetimeStates)
<1> DEFINE result(s, t) == [merged |-> Joined(s, t), changed |-> Joined(s, t) # s]
<1>outcome. \A s, t \in LifetimeStates : JoinOutcomes(s, t) = {result(s, t)}
  BY DEF Join
<1>fields. \A s, t : result(s, t).merged = Joined(s, t) /\ result(s, t).changed = (Joined(s, t) # s)
  OBVIOUS
<1> HIDE DEF result
<1>1. ASSUME NEW s \in LifetimeStates, NEW t \in LifetimeStates
      PROVE  Covers(s, t) <=> Joined(s, t) = s
  <2>1. Covers(s, t) <=> ~result(s, t).changed
    BY <1>outcome DEF Covers
  <2>2. result(s, t).changed = (Joined(s, t) # s)
    BY <1>fields
  <2>3. QED
    BY <2>1, <2>2
<1>2. ASSUME NEW s \in LifetimeStates, NEW t \in LifetimeStates
      PROVE  /\ Covers(s, s)
             /\ \A joined \in JoinOutcomes(s, t) :
                  /\ joined.merged \in LifetimeStates
                  /\ joined.changed \in BOOLEAN
                  /\ ~joined.changed => Covers(s, t)
                  /\ Covers(joined.merged, t)
                  /\ \A e \in LifetimeStates : Covers(s, e) => Covers(joined.merged, e)
  <2>1. Covers(s, s)
    BY <1>1, JoinedChangesNothing
  <2>2. Joined(s, t) \in LifetimeStates
    BY JoinedIsTyped
  <2>3. /\ JoinOutcomes(s, t) = {result(s, t)}
        /\ result(s, t).merged = Joined(s, t)
        /\ result(s, t).changed = (Joined(s, t) # s)
    BY <1>outcome, <1>fields
  <2>4. Joined(s, t) = s => Covers(s, t)
    BY <1>1
  <2>5. Covers(Joined(s, t), t)
    BY <1>1, <2>2, JoinedCoversMore
  <2>6. \A e \in LifetimeStates : Covers(s, e) => Covers(Joined(s, t), e)
    BY <1>1, <2>2, JoinedCoversMore
  <2>7. ~result(s, t).changed => Covers(s, t)
    BY <2>3, <2>4
  <2>8. result(s, t).changed \in BOOLEAN
    BY <2>3
  <2>9. \A joined \in JoinOutcomes(s, t) : joined = result(s, t)
    BY <2>3
  <2>10. QED
    BY <2>1, <2>2, <2>3, <2>5, <2>6, <2>7, <2>8, <2>9
<1>3. QED
  BY <1>2 DEF JoinAccumulates

\* The work list drives the lifetime analysis (LifetimeMC substitutes these
\* operators for the parameters of Worklist).
DrivesLifetime ==
  /\ States = LifetimeStates
  /\ EntryState = FreshParameters
  /\ \A b \in Blocks, s \in LifetimeStates :
       /\ Transfer(b, s) = TransferBlock(b, s)
       /\ \A i \in 1..Len(Successors[b]) : OnEdge(b, i, s) = AlongEdge(b, i, s)
  /\ \A s, t \in LifetimeStates : JoinOutcomes(s, t) = Join(s, t)

LEMMA LifetimeFlowLaws ==
  ASSUME DrivesLifetime
  PROVE  FlowIsTyped(States) /\ JoinAccumulates(States)
<1>1. JoinAccumulates(LifetimeStates)
  BY LifetimeStatesAccumulate DEF DrivesLifetime
<1>2. FlowIsTyped(LifetimeStates)
  BY TransferIsTyped DEF FlowIsTyped, DrivesLifetime, AlongEdge
<1>3. QED
  BY <1>1, <1>2 DEF DrivesLifetime

\* The inputs from which use-after-free and double free are diagnosed are a
\* fixpoint, for every control-flow graph and any number of variables.
THEOREM LifetimeEndsAtFixpoint ==
  ASSUME DrivesLifetime
  PROVE  Spec => []FixpointReached
<1>1. FlowSpec => []FixpointReached
  BY LifetimeFlowLaws, WorklistEndsAtFixpoint
<1>2. Init => FlowInit
  BY DEF Init
<1>3. [Next]_vars => [FlowStep]_flowVars
  BY DEF Next, vars, flowVars, StartRun, Execute, Branch
<1>4. QED
  BY <1>1, <1>2, <1>3, PTL DEF Spec, FlowSpec

-----------------------------------------------------------------------------
\* Every run of the function stays within what the analysis says of it.

\* What reading a variable adds: its own token, when it had none.
LEMMA ReadAdds ==
  ASSUME NEW s \in LifetimeStates, NEW c \in Decls
  PROVE  /\ Read(s, c) \in LifetimeStates
         /\ Read(s, c).values[c] # {}
         /\ \A d \in Decls : s.values[d] \subseteq Read(s, c).values[d]
         /\ \A d \in Decls \ {c} : Read(s, c).values[d] = s.values[d]
         /\ s.values[c] # {} => Read(s, c) = s
         /\ s.values[c] = {} => Read(s, c).values[c] = {c}
         /\ \A t \in Decls : (t = c /\ s.values[c] = {}) \/ Read(s, c).tokens[t] = s.tokens[t]
<1>1. Read(s, c) \in LifetimeStates
  BY HelpersAreTyped
<1>2. CASE s.values[c] = {}
  BY <1>1, <1>2 DEF Read, SetFresh, LifetimeStates
<1>3. CASE s.values[c] # {}
  BY <1>1, <1>3 DEF Read
<1>4. QED
  BY <1>2, <1>3

\* Only a variable without a token gets one, and it holds no object.
LEMMA ReadNames ==
  ASSUME NEW s \in LifetimeStates, NEW c \in Decls, NEW tok, NEW variables, NEW objects,
         Names(tok, s, variables, objects), s.values[c] = {} => ~Shared(s, c)
  PROVE  Names(tok, Read(s, c), variables, objects)
<1> SUFFICES ASSUME NEW d \in Decls, variables[d] # Null
             PROVE  /\ tok[variables[d]] \in Read(s, c).values[d]
                    /\ objects[variables[d]] = "freed" => Read(s, c).tokens[tok[variables[d]]] # "Live"
  BY DEF Names
<1> DEFINE t == tok[variables[d]]
<1>1. t \in s.values[d] /\ (objects[variables[d]] = "freed" => s.tokens[t] # "Live")
  BY DEF Names
<1>2. t \in Decls
  BY <1>1 DEF LifetimeStates
<1>3. t \in Read(s, c).values[d]
  BY <1>1, ReadAdds
<1>4. ~(t = c /\ s.values[c] = {})
  <2> SUFFICES ASSUME t = c, s.values[c] = {} PROVE FALSE
    OBVIOUS
  <2>1. d # c
    BY <1>1
  <2>2. QED
    BY <1>1, <2>1 DEF Shared
<1>5. Read(s, c).tokens[t] = s.tokens[t]
  <2>1. \A x \in Decls : (x = c /\ s.values[c] = {}) \/ Read(s, c).tokens[x] = s.tokens[x]
    BY ReadAdds
  <2>2. QED
    BY <1>2, <1>4, <2>1
<1>6. QED
  BY <1>1, <1>3, <1>5

\* Reading one variable does not make the token of another shared.
LEMMA ReadKeepsUnshared ==
  ASSUME NEW s \in LifetimeStates, NEW c \in Decls, NEW d \in Decls, ~Shared(s, d)
  PROVE  ~Shared(Read(s, c), d)
<1> SUFFICES ASSUME NEW e \in Decls \ {d}, d \in Read(s, c).values[e] PROVE FALSE
  BY DEF Shared
<1>1. d \notin s.values[e]
  BY DEF Shared
<1>2. e = c /\ s.values[c] = {}
  <2>1. \A x \in Decls \ {c} : Read(s, c).values[x] = s.values[x]
    BY ReadAdds
  <2>2. s.values[c] # {} => Read(s, c) = s
    BY ReadAdds
  <2>3. e = c
    BY <1>1, <2>1
  <2>4. QED
    BY <1>1, <2>2, <2>3
<1>3. QED
  BY <1>2, ReadAdds

\* A new object gets the token of the variable it is stored in.
LEMMA FreshNames ==
  ASSUME NEW s \in LifetimeStates, NEW d \in Decls, NEW n \in Nat, NEW objects \in Seq({"live", "freed", "kept"}),
         n = Len(objects), NEW tok \in [1..n -> Decls], NEW variables \in [Decls -> 0..n],
         Names(tok, s, variables, objects), ~Shared(s, d)
  PROVE  /\ Describes(SetFresh(s, d), [variables EXCEPT ![d] = n + 1], Append(objects, "live"))
         /\ Describes(SetFresh(s, d), [variables EXCEPT ![d] = Null], objects)
<1> DEFINE f == SetFresh(s, d)
<1>1. /\ f.values[d] = {d}
      /\ \A e \in Decls \ {d} : f.values[e] = s.values[e]
      /\ \A t \in Decls \ {d} : f.tokens[t] = s.tokens[t]
  BY DEF SetFresh, LifetimeStates
<1>2. ASSUME NEW e \in Decls \ {d}, variables[e] # Null
      PROVE  /\ variables[e] \in 1..n
             /\ tok[variables[e]] \in f.values[e]
             /\ objects[variables[e]] = "freed" => f.tokens[tok[variables[e]]] # "Live"
  <2>1. variables[e] \in 1..n
    BY <1>2 DEF Null
  <2>2. /\ tok[variables[e]] \in s.values[e]
        /\ objects[variables[e]] = "freed" => s.tokens[tok[variables[e]]] # "Live"
    BY <1>2 DEF Names
  <2>3. tok[variables[e]] # d /\ tok[variables[e]] \in Decls
    BY <2>1, <2>2 DEF Shared
  <2>4. QED
    BY <1>1, <2>1, <2>2, <2>3
<1> HIDE DEF f
<1>3. Describes(f, [variables EXCEPT ![d] = n + 1], Append(objects, "live"))
  <2> DEFINE tok2 == [o \in 1..(n + 1) |-> IF o = n + 1 THEN d ELSE tok[o]]
             vars2 == [variables EXCEPT ![d] = n + 1]
             objs2 == Append(objects, "live")
  <2>1. /\ Len(objs2) = n + 1 /\ objs2[n + 1] = "live"
        /\ \A o \in 1..n : objs2[o] = objects[o]
    OBVIOUS
  <2>2. tok2 \in [1..(n + 1) -> Decls] /\ tok2[n + 1] = d /\ \A o \in 1..n : tok2[o] = tok[o]
    OBVIOUS
  <2>3. vars2[d] = n + 1 /\ \A e \in Decls \ {d} : vars2[e] = variables[e]
    OBVIOUS
  <2> HIDE DEF tok2, vars2, objs2
  <2>4. Names(tok2, f, vars2, objs2)
    BY <1>1, <1>2, <2>1, <2>2, <2>3 DEF Names
  <2>5. Describes(f, vars2, objs2)
    BY <2>1, <2>2, <2>4 DEF Describes
  <2>6. QED
    BY <2>5 DEF vars2, objs2
<1>4. Describes(f, [variables EXCEPT ![d] = Null], objects)
  <2>1. Names(tok, f, [variables EXCEPT ![d] = Null], objects)
    BY <1>2 DEF Names
  <2>2. QED
    BY <2>1 DEF Describes
<1>5. QED
  BY <1>3, <1>4 DEF f

\* A variable that receives one of the values its new tokens stand for.
LEMMA MoveNames ==
  ASSUME NEW s \in LifetimeStates, NEW d \in Decls, NEW held \in SUBSET Decls, NEW tok,
         NEW variables \in [Decls -> Nat], NEW objects, NEW v,
         Names(tok, s, variables, objects),
         v # Null => /\ tok[v] \in held
                     /\ objects[v] = "freed" => s.tokens[tok[v]] # "Live"
  PROVE  Names(tok, SetValue(s, d, held), [variables EXCEPT ![d] = v], objects)
<1>1. /\ SetValue(s, d, held).values[d] = held
      /\ \A e \in Decls \ {d} : SetValue(s, d, held).values[e] = s.values[e]
      /\ SetValue(s, d, held).tokens = s.tokens
  BY DEF SetValue, LifetimeStates
<1>2. QED
  BY <1>1 DEF Names

\* A deallocation of what a variable holds.
LEMMA FreeNames ==
  ASSUME NEW s \in LifetimeStates, NEW c \in Decls, NEW tok, NEW variables, NEW objects, NEW after,
         Names(tok, s, variables, objects), s.values[c] = {} => ~Shared(s, c),
         \A d \in Decls : variables[d] # Null /\ variables[d] # variables[c] /\ after[variables[d]] = "freed"
                            => objects[variables[d]] = "freed"
  PROVE  Names(tok, Free(s, c), variables, after)
<1> DEFINE r == Read(s, c)
<1>1. r \in LifetimeStates /\ Names(tok, r, variables, objects)
  BY ReadAdds, ReadNames
<1> HIDE DEF r
<1>2. /\ Free(s, c).values = r.values
      /\ \A t \in Decls : Free(s, c).tokens[t] = IF t \in r.values[c] THEN "Freed" ELSE r.tokens[t]
  BY <1>1 DEF Free, MarkFreed, LifetimeStates, r
<1>3. ASSUME NEW d \in Decls, variables[d] # Null
      PROVE  /\ tok[variables[d]] \in Free(s, c).values[d]
             /\ after[variables[d]] = "freed" => Free(s, c).tokens[tok[variables[d]]] # "Live"
  <2>1. tok[variables[d]] \in r.values[d]
    BY <1>1, <1>3 DEF Names
  <2>2. tok[variables[d]] \in Decls
    BY <1>1, <2>1 DEF LifetimeStates
  <2>3. CASE tok[variables[d]] \in r.values[c]
    BY <1>2, <2>1, <2>2, <2>3
  <2>4. CASE tok[variables[d]] \notin r.values[c]
    <3>1. variables[d] # variables[c]
      BY <1>1, <1>3, <2>4 DEF Names
    <3>2. objects[variables[d]] = "freed" => r.tokens[tok[variables[d]]] # "Live"
      BY <1>1, <1>3 DEF Names
    <3>3. QED
      BY <1>2, <1>3, <2>1, <2>2, <2>4, <3>1, <3>2
  <2>5. QED
    BY <2>3, <2>4
<1>4. QED
  BY <1>3 DEF Names

\* Marking an object leaves the number of objects and the other objects alone.
LEMMA MarkedObject ==
  ASSUME heap \in Seq({"live", "freed", "kept"}), NEW o \in 0..Len(heap),
         NEW state \in {"live", "freed", "kept"}
  PROVE  /\ Marked(o, state) \in Seq({"live", "freed", "kept"})
         /\ Len(Marked(o, state)) = Len(heap)
         /\ \A n \in 1..Len(heap) : n # o => Marked(o, state)[n] = heap[n]
         /\ \A n \in 1..Len(heap) : n = o => Marked(o, state)[n] = state
<1>1. CASE o = Null
  BY <1>1 DEF Marked, Null
<1>2. CASE o # Null
  <2>1. o \in 1..Len(heap)
    BY <1>2 DEF Null
  <2>2. Marked(o, state) = [heap EXCEPT ![o] = state]
    BY <1>2 DEF Marked
  <2>3. QED
    BY <2>1, <2>2
<1>3. QED
  BY <1>1, <1>2

\* The statement a run executes, and what it is.
LEMMA RunningStatement ==
  ASSUME FlowTypeOK, RunTypeOK, PlaceInv, InBlock
  PROVE  /\ at[1] \in Blocks /\ at[1] \in Reached /\ at[2] \in 1..Len(Body[at[1]])
         /\ Statement \in Statements /\ IsStatement(Statement)
         /\ input[at[1]] \in States
<1>1. at \in Blocks \X Nat /\ at # NoRun
  BY DEF RunTypeOK, InBlock
<1>2. at[1] \in Reached /\ at[2] \in 1..(Len(Body[at[1]]) + 1) /\ at[2] <= Len(Body[at[1]])
  BY <1>1 DEF PlaceInv, InBlock
<1>3. Body[at[1]] \in Seq(Statements)
  BY <1>1, LifetimeAssumption
<1>4. at[2] \in 1..Len(Body[at[1]])
  BY <1>1, <1>2, <1>3
<1>5. Statement \in Statements
  BY <1>3, <1>4 DEF Statement
<1>6. IsStatement(Statement)
  BY <1>5 DEF Statements, IsStatement
<1>7. QED
  BY <1>1, <1>2, <1>4, <1>5, <1>6 DEF FlowTypeOK

\* Store and heap keep their types.
LEMMA RunTypeStep ==
  ASSUME FlowTypeOK, RunTypeOK, PlaceInv, [Next]_vars
  PROVE  RunTypeOK'
<1> USE DEF RunTypeOK
<1>1. CASE Execute
  <2>1. InBlock
    BY <1>1 DEF Execute, Allocate, Move, Release, Reallocate, Use
  <2>2. IsStatement(Statement)
    BY <2>1, RunningStatement
  <2>3. at' \in Blocks \X Nat
    BY <1>1, <2>1 DEF Execute, InBlock
  <2>4. ASSUME NEW d \in Decls, NEW h \in Seq({"live", "freed", "kept"}), Len(h) = Len(heap),
               NewObject(d, h) \/ NoObject(d, h)
        PROVE  heap' \in Seq({"live", "freed", "kept"}) /\ store' \in [Decls -> 0..Len(heap')]
    <3>1. CASE NewObject(d, h)
      <4>1. heap' = Append(h, "live") /\ store' = [store EXCEPT ![d] = Len(h) + 1]
        BY <3>1 DEF NewObject
      <4>2. heap' \in Seq({"live", "freed", "kept"}) /\ Len(heap') = Len(heap) + 1
        BY <2>4, <4>1
      <4>3. Len(heap) \in Nat
        OBVIOUS
      <4>4. store' \in [Decls -> 0..(Len(heap) + 1)]
        BY <2>4, <4>1, <4>3
      <4>5. QED
        BY <4>2, <4>4
    <3>2. CASE NoObject(d, h)
      BY <2>4, <3>2 DEF NoObject, Null
    <3>3. QED
      BY <2>4, <3>1, <3>2
  <2>5. CASE Allocate
    BY <2>2, <2>3, <2>4, <2>5 DEF Allocate, IsStatement
  <2>6. CASE Move
    BY <2>2, <2>3, <2>6 DEF Move, IsStatement, Null
  <2>7. CASE Release
    <3>1. store[Statement.of] \in 0..Len(heap)
      BY <2>2, <2>7 DEF Release, IsStatement
    <3>2. QED
      BY <2>3, <2>7, <3>1, MarkedObject DEF Release
  <2>8. CASE Reallocate
    <3>1. Statement.to \in Decls /\ store[Statement.of] \in 0..Len(heap)
      BY <2>2, <2>8 DEF Reallocate, IsStatement
    <3>2. \A state \in {"freed", "kept"} :
            /\ Marked(store[Statement.of], state) \in Seq({"live", "freed", "kept"})
            /\ Len(Marked(store[Statement.of], state)) = Len(heap)
      BY <3>1, MarkedObject
    <3>3. PICK h \in Seq({"live", "freed", "kept"}) :
            Len(h) = Len(heap) /\ (NewObject(Statement.to, h) \/ NoObject(Statement.to, h))
      BY <2>8, <3>2 DEF Reallocate
    <3>4. QED
      BY <2>3, <2>4, <3>1, <3>3
  <2>9. CASE Use
    BY <2>3, <2>9 DEF Use
  <2>10. QED
    BY <1>1, <2>5, <2>6, <2>7, <2>8, <2>9 DEF Execute
<1>2. CASE StartRun
  BY <1>2, WorklistAssumption DEF StartRun
<1>3. CASE Branch
  <2>1. PICK i \in TakenEdges(at[1]) :
          Successors[at[1]][i] # NoBlock /\ at' = <<Successors[at[1]][i], 1>>
    BY <1>3 DEF Branch
  <2>2. at[1] \in Blocks
    BY <1>3 DEF Branch
  <2>3. Successors[at[1]][i] \in Blocks
    BY <2>1, <2>2, WorklistAssumption DEF TakenEdges
  <2>4. QED
    BY <1>3, <2>1, <2>3 DEF Branch
<1>4. CASE UNCHANGED runVars
  BY <1>4 DEF runVars
<1>5. QED
  BY <1>1, <1>2, <1>3, <1>4 DEF Next, vars

\* What a run does to store and heap, the statement does to the state.
LEMMA ExecuteDescribes ==
  ASSUME RunTypeOK, NEW s \in LifetimeStates, IsStatement(Statement), Execute,
         Describes(s, store, heap), \A d \in Renewed(s, Statement) : ~Shared(s, d)
  PROVE  Describes(Apply(s, Statement), store', heap')
<1>1. PICK tok \in [1..Len(heap) -> Decls] : Names(tok, s, store, heap)
  BY DEF Describes
<1>2. PICK n \in Nat : n = Len(heap)
  BY DEF RunTypeOK
<1>3. heap \in Seq({"live", "freed", "kept"}) /\ store \in [Decls -> 0..n]
  BY <1>2 DEF RunTypeOK
<1> USE DEF IsStatement
<1>4. CASE Allocate
  <2>1. Statement.op = "alloc" /\ Statement.to \in Decls
    BY <1>4 DEF Allocate
  <2>2. ~Shared(s, Statement.to)
    BY <2>1 DEF Renewed
  <2>3. /\ Describes(SetFresh(s, Statement.to), [store EXCEPT ![Statement.to] = n + 1], Append(heap, "live"))
        /\ Describes(SetFresh(s, Statement.to), [store EXCEPT ![Statement.to] = Null], heap)
    BY <1>1, <1>2, <1>3, <2>1, <2>2, FreshNames
  <2>4. Apply(s, Statement) = SetFresh(s, Statement.to)
    BY <2>1 DEF Apply
  <2>5. QED
    BY <1>2, <1>4, <2>3, <2>4 DEF Allocate, NewObject, NoObject
<1>5. CASE Move
  <2> USE <1>5 DEF Move
  <2>1. /\ Statement.op \in {"clear", "copy", "memcpy", "choose"} /\ Statement.to \in Decls
        /\ Statement.op # "clear" => Statement.from \in Decls
        /\ Statement.op = "choose" => Statement.other \in Decls
    OBVIOUS
  <2>2. ASSUME NEW t \in LifetimeStates, Names(tok, t, store, heap), NEW held \in SUBSET Decls, NEW v,
               v # Null => /\ tok[v] \in held
                           /\ heap[v] = "freed" => t.tokens[tok[v]] # "Live",
               Apply(s, Statement) = SetValue(t, Statement.to, held),
               store' = [store EXCEPT ![Statement.to] = v]
        PROVE  Describes(Apply(s, Statement), store', heap')
    <3>1. store \in [Decls -> Nat] /\ heap' = heap
      BY <1>3
    <3>2. Names(tok, SetValue(t, Statement.to, held), [store EXCEPT ![Statement.to] = v], heap)
      BY <2>1, <2>2, <3>1, MoveNames
    <3>3. Names(tok, Apply(s, Statement), store', heap')
      BY <2>2, <3>1, <3>2
    <3>4. tok \in [1..Len(heap') -> Decls]
      BY <1>1, <3>1
    <3>5. QED
      BY <3>3, <3>4 DEF Describes
  <2>3. CASE Statement.op = "clear"
    <3>1. store' = [store EXCEPT ![Statement.to] = Null]
      BY <2>3
    <3>2. Apply(s, Statement) = SetValue(s, Statement.to, {})
      BY <2>3 DEF Apply
    <3>3. QED
      BY <1>1, <2>2, <3>1, <3>2
  <2>4. CASE Statement.op = "memcpy"
    <3>1. store' = [store EXCEPT ![Statement.to] = store[Statement.from]]
      BY <2>4
    <3>2. Apply(s, Statement) = SetValue(s, Statement.to, s.values[Statement.from])
      BY <2>4 DEF Apply
    <3>3. s.values[Statement.from] \in SUBSET Decls
      BY <2>1, <2>4, HelpersAreTyped
    <3>4. store[Statement.from] # Null =>
            /\ tok[store[Statement.from]] \in s.values[Statement.from]
            /\ heap[store[Statement.from]] = "freed" => s.tokens[tok[store[Statement.from]]] # "Live"
      BY <1>1, <2>1, <2>4 DEF Names
    <3>5. QED
      BY <1>1, <2>2, <3>1, <3>2, <3>3, <3>4
  <2>5. CASE Statement.op = "copy"
    <3> DEFINE t == Read(s, Statement.from)
    <3>1. store' = [store EXCEPT ![Statement.to] = store[Statement.from]]
      BY <2>5
    <3>2. Apply(s, Statement) = SetValue(t, Statement.to, t.values[Statement.from])
      BY <2>5 DEF Apply
    <3>3. s.values[Statement.from] = {} => ~Shared(s, Statement.from)
      BY <2>5 DEF Renewed
    <3>4. t \in LifetimeStates /\ Names(tok, t, store, heap)
      BY <1>1, <2>1, <2>5, <3>3, ReadAdds, ReadNames
    <3> HIDE DEF t
    <3>5. t.values[Statement.from] \in SUBSET Decls
      BY <2>1, <2>5, <3>4, HelpersAreTyped
    <3>6. store[Statement.from] # Null =>
            /\ tok[store[Statement.from]] \in t.values[Statement.from]
            /\ heap[store[Statement.from]] = "freed" => t.tokens[tok[store[Statement.from]]] # "Live"
      BY <2>1, <2>5, <3>4 DEF Names
    <3>7. QED
      BY <2>2, <3>1, <3>2, <3>4, <3>5, <3>6
  <2>6. CASE Statement.op = "choose"
    <3> DEFINE r == Read(s, Statement.from)
               t == Read(r, Statement.other)
               held == t.values[Statement.from] \cup t.values[Statement.other]
    <3>0. Statement.from \in Decls /\ Statement.other \in Decls
      BY <2>1, <2>6
    <3>1. PICK e \in {Statement.from, Statement.other} :
            store' = [store EXCEPT ![Statement.to] = store[e]]
      BY <2>6
    <3>2. Apply(s, Statement) = SetValue(t, Statement.to, held)
      BY <2>6 DEF Apply
    <3>3. /\ s.values[Statement.from] = {} => ~Shared(s, Statement.from)
          /\ s.values[Statement.other] = {} => ~Shared(s, Statement.other)
      BY <2>6 DEF Renewed
    <3>4. r \in LifetimeStates /\ Names(tok, r, store, heap)
      BY <1>1, <3>0, <3>3, ReadAdds, ReadNames
    <3>5. r.values[Statement.other] = {} => ~Shared(r, Statement.other)
      <4>1. s.values[Statement.other] \subseteq r.values[Statement.other]
        BY <3>0, ReadAdds
      <4>2. QED
        BY <3>0, <3>3, <4>1, ReadKeepsUnshared
    <3> HIDE DEF r
    <3>6. t \in LifetimeStates /\ Names(tok, t, store, heap)
      BY <3>0, <3>4, <3>5, ReadAdds, ReadNames
    <3> HIDE DEF t
    <3>7. held \in SUBSET Decls
      BY <3>0, <3>6, HelpersAreTyped
    <3>8. store[e] # Null =>
            /\ tok[store[e]] \in held
            /\ heap[store[e]] = "freed" => t.tokens[tok[store[e]]] # "Live"
      BY <3>0, <3>1, <3>6 DEF Names
    <3> HIDE DEF held
    <3>9. QED
      BY <2>2, <3>1, <3>2, <3>6, <3>7, <3>8
  <2>7. QED
    BY <2>1, <2>3, <2>4, <2>5, <2>6
<1>6. ASSUME Statement.of \in Decls, s.values[Statement.of] = {} => ~Shared(s, Statement.of),
             NEW h \in Seq({"live", "freed", "kept"}), Len(h) = n,
             \A d \in Decls : store[d] # Null /\ store[d] # store[Statement.of] /\ h[store[d]] = "freed"
                                => heap[store[d]] = "freed"
      PROVE  /\ Free(s, Statement.of) \in LifetimeStates
             /\ Names(tok, Free(s, Statement.of), store, h)
             /\ Free(Free(s, Statement.of), Statement.of) \in LifetimeStates
             /\ Names(tok, Free(Free(s, Statement.of), Statement.of), store, h)
             /\ \A d \in Decls : ~Shared(s, d) => ~Shared(Free(Free(s, Statement.of), Statement.of), d)
  <2> DEFINE c == Statement.of
             f == Free(s, c)
  <2>1. f \in LifetimeStates /\ Names(tok, f, store, h)
    BY <1>1, <1>6, FreeIsTyped, FreeNames
  <2>2. f.values = Read(s, c).values
    BY DEF Free, MarkFreed
  <2>3. f.values[c] # {}
    BY <1>6, <2>2, ReadAdds
  <2>4. Free(f, c).values = f.values
    <3> HIDE DEF f
    <3>1. Read(f, c) = f
      BY <2>3 DEF Read
    <3>2. Free(f, c) = MarkFreed(f, f.values[c])
      BY <3>1 DEF Free
    <3>3. QED
      BY <2>1, <3>2 DEF MarkFreed, LifetimeStates
  <2> HIDE DEF f
  <2>5. Free(f, c) \in LifetimeStates /\ Names(tok, Free(f, c), store, h)
    BY <1>6, <2>1, <2>3, FreeIsTyped, FreeNames
  <2>6. ASSUME NEW d \in Decls, ~Shared(s, d) PROVE ~Shared(Free(f, c), d)
    <3>1. ~Shared(Read(s, c), d)
      BY <1>6, <2>6, ReadKeepsUnshared
    <3>2. QED
      BY <2>2, <2>4, <3>1 DEF Shared
  <2>7. QED
    BY <2>1, <2>5, <2>6 DEF f
<1>7. CASE Release
  <2>1. /\ Statement.op \in {"free", "freeUsed"} /\ Statement.of \in Decls
        /\ heap' = Marked(store[Statement.of], "freed") /\ store' = store
    BY <1>7 DEF Release
  <2>2. s.values[Statement.of] = {} => ~Shared(s, Statement.of)
    BY <2>1 DEF Renewed
  <2>3. store[Statement.of] \in 0..Len(heap)
    BY <1>2, <1>3, <2>1
  <2>4. /\ heap' \in Seq({"live", "freed", "kept"}) /\ Len(heap') = n
        /\ \A o \in 1..Len(heap) : o # store[Statement.of] => heap'[o] = heap[o]
    <3>1. /\ Marked(store[Statement.of], "freed") \in Seq({"live", "freed", "kept"})
          /\ Len(Marked(store[Statement.of], "freed")) = Len(heap)
          /\ \A o \in 1..Len(heap) :
               o # store[Statement.of] => Marked(store[Statement.of], "freed")[o] = heap[o]
      BY <1>3, <2>3, MarkedObject
    <3>2. QED
      BY <1>2, <2>1, <3>1
  <2>5. \A d \in Decls : store[d] # Null /\ store[d] # store[Statement.of] /\ heap'[store[d]] = "freed"
                             => heap[store[d]] = "freed"
    BY <1>2, <1>3, <2>4 DEF Null
  <2>6. /\ Names(tok, Free(s, Statement.of), store, heap')
        /\ Names(tok, Free(Free(s, Statement.of), Statement.of), store, heap')
    BY <1>6, <2>1, <2>2, <2>4, <2>5
  <2>7. \/ Apply(s, Statement) = Free(s, Statement.of)
        \/ Apply(s, Statement) = Free(Free(s, Statement.of), Statement.of)
    BY <2>1 DEF Apply
  <2>8. Names(tok, Apply(s, Statement), store', heap')
    BY <2>1, <2>6, <2>7
  <2>9. QED
    BY <1>1, <1>2, <2>4, <2>8 DEF Describes
<1>8. CASE Reallocate
  <2>1. Statement.op = "realloc" /\ Statement.of \in Decls /\ Statement.to \in Decls
    BY <1>8 DEF Reallocate
  <2>2. /\ s.values[Statement.of] = {} => ~Shared(s, Statement.of)
        /\ ~Shared(s, Statement.to)
    BY <2>1 DEF Renewed
  <2>3. store[Statement.of] \in 0..Len(heap)
    BY <1>2, <1>3, <2>1
  <2>4. ASSUME NEW h \in {heap, Marked(store[Statement.of], "freed"), Marked(store[Statement.of], "kept")}
        PROVE  /\ h \in Seq({"live", "freed", "kept"}) /\ Len(h) = n
               /\ \A o \in 1..Len(heap) : o # store[Statement.of] => h[o] = heap[o]
    <3>1. /\ Marked(store[Statement.of], "freed") \in Seq({"live", "freed", "kept"})
          /\ Len(Marked(store[Statement.of], "freed")) = Len(heap)
          /\ \A o \in 1..Len(heap) :
               o # store[Statement.of] => Marked(store[Statement.of], "freed")[o] = heap[o]
      BY <1>3, <2>3, MarkedObject
    <3>2. /\ Marked(store[Statement.of], "kept") \in Seq({"live", "freed", "kept"})
          /\ Len(Marked(store[Statement.of], "kept")) = Len(heap)
          /\ \A o \in 1..Len(heap) :
               o # store[Statement.of] => Marked(store[Statement.of], "kept")[o] = heap[o]
      BY <1>3, <2>3, MarkedObject
    <3>3. QED
      BY <1>2, <1>3, <3>1, <3>2
  <2>5. PICK h \in {heap, Marked(store[Statement.of], "freed"), Marked(store[Statement.of], "kept")} :
          NewObject(Statement.to, h) \/ NoObject(Statement.to, h)
    BY <1>8 DEF Reallocate
  <2>6. \A d \in Decls : store[d] # Null /\ store[d] # store[Statement.of] /\ h[store[d]] = "freed"
                             => heap[store[d]] = "freed"
    BY <1>2, <1>3, <2>4 DEF Null
  <2> DEFINE f == Free(Free(s, Statement.of), Statement.of)
  <2>7. h \in Seq({"live", "freed", "kept"}) /\ Len(h) = n
    BY <2>4
  <2>8. f \in LifetimeStates /\ Names(tok, f, store, h) /\ ~Shared(f, Statement.to)
    BY <1>6, <2>1, <2>2, <2>6, <2>7
  <2>9. Apply(s, Statement) = SetFresh(f, Statement.to)
    BY <2>1 DEF Apply
  <2> HIDE DEF f
  <2>10. /\ Describes(SetFresh(f, Statement.to), [store EXCEPT ![Statement.to] = n + 1], Append(h, "live"))
         /\ Describes(SetFresh(f, Statement.to), [store EXCEPT ![Statement.to] = Null], h)
    BY <1>1, <1>2, <1>3, <2>1, <2>7, <2>8, FreshNames
  <2>11. QED
    BY <2>5, <2>7, <2>9, <2>10 DEF NewObject, NoObject
<1>9. CASE Use
  <2>1. /\ Statement.op = "use" /\ Statement.of \in Decls
        /\ heap' = heap /\ store' = store
    BY <1>9 DEF Use
  <2>2. s.values[Statement.of] = {} => ~Shared(s, Statement.of)
    BY <2>1 DEF Renewed
  <2>3. Apply(s, Statement) = Read(s, Statement.of)
    BY <2>1 DEF Apply
  <2>4. Names(tok, Apply(s, Statement), store', heap')
    BY <1>1, <2>1, <2>2, <2>3, ReadNames
  <2>5. QED
    BY <1>1, <2>1, <2>4 DEF Describes
<1>10. QED
  BY <1>4, <1>5, <1>7, <1>8, <1>9 DEF Execute

\* A state describes all that a state it covers describes.
LEMMA CoveringDescribes ==
  ASSUME NEW s \in LifetimeStates, NEW t \in LifetimeStates, Joined(t, s) = t,
         NEW variables, NEW objects, Describes(s, variables, objects)
  PROVE  Describes(t, variables, objects)
<1>1. PICK tok \in [1..Len(objects) -> Decls] : Names(tok, s, variables, objects)
  BY DEF Describes
<1>2. /\ \A d \in Decls : s.values[d] \subseteq t.values[d] /\ s.values[d] \subseteq Decls
      /\ \A d \in Decls : t.tokens[d] = "MaybeFreed" \/ t.tokens[d] = s.tokens[d]
  BY JoinedChangesNothing DEF LifetimeStates
<1>3. Names(tok, t, variables, objects)
  BY <1>1, <1>2 DEF Names
<1>4. QED
  BY <1>1, <1>3 DEF Describes

\* What the analysis says of the place a run is at is a state.
LEMMA NowIsTyped ==
  ASSUME DrivesLifetime, FlowTypeOK, PlaceInv
  PROVE  /\ Now \in LifetimeStates
         /\ at # NoRun => /\ at[1] \in Blocks /\ input[at[1]] \in LifetimeStates
                          /\ Body[at[1]] \in Seq(Statements)
                          /\ Now = StateBefore(at[1], at[2], input[at[1]])
<1>1. CASE at = NoRun
  BY <1>1, WorklistAssumption DEF Now, DrivesLifetime
<1>2. CASE at # NoRun
  <2>1. at[1] \in Blocks /\ input[at[1]] \in LifetimeStates /\ at[2] \in 1..(Len(Body[at[1]]) + 1)
    BY <1>2 DEF PlaceInv, FlowTypeOK, DrivesLifetime
  <2>2. Body[at[1]] \in Seq(Statements)
    BY <2>1, LifetimeAssumption
  <2>3. Now = StateBefore(at[1], at[2], input[at[1]])
    BY <1>2 DEF Now
  <2>4. Now \in LifetimeStates
    BY <2>1, <2>3, StatesInTurn
  <2>5. QED
    BY <2>1, <2>2, <2>3, <2>4
<1>3. QED
  BY <1>1, <1>2

\* A run starts at an entry, of which the analysis says what holds of parameters.
LEMMA StartMoves ==
  ASSUME DrivesLifetime, FlowTypeOK, EntryInv, PlaceInv, StartRun
  PROVE  /\ PlaceInv' /\ at = NoRun /\ Now = FreshParameters /\ Now' = FreshParameters
         /\ UNCHANGED <<flowVars, store, heap>>
<1>1. PICK entry \in Entries \cap Reached : at' = <<entry, 1>>
  BY DEF StartRun
<1>2. Done /\ at = NoRun /\ UNCHANGED <<flowVars, store, heap>>
  BY DEF StartRun
<1>3. entry \in Blocks /\ Body[entry] \in Seq(Statements)
  BY WorklistAssumption, LifetimeAssumption
<1>4. input[entry] = FreshParameters /\ input[entry] \in LifetimeStates
  BY DEF EntryInv, DrivesLifetime, FlowTypeOK
<1>5. StateBefore(entry, 1, input[entry]) = FreshParameters
  BY <1>3, <1>4, StatesInTurn
<1>6. at'[1] = entry /\ at'[2] = 1 /\ at' # NoRun /\ 1 \in 1..(Len(Body[entry]) + 1)
  BY <1>1, <1>3, WorklistAssumption DEF NoRun
<1>7. Done' /\ Reached' = Reached /\ input' = input
  BY <1>2 DEF flowVars, Done, Reached
<1>8. PlaceInv'
  BY <1>6, <1>7 DEF PlaceInv, NoRun
<1>9. Now' = FreshParameters /\ Now = FreshParameters
  BY <1>2, <1>5, <1>6, <1>7 DEF Now, NoRun
<1>10. QED
  BY <1>2, <1>8, <1>9

\* A statement takes the run to what the statement does to the state.
LEMMA ExecuteMoves ==
  ASSUME DrivesLifetime, FlowTypeOK, RunTypeOK, PlaceInv, Execute
  PROVE  /\ PlaceInv' /\ at # NoRun /\ at' # NoRun /\ IsStatement(Statement)
         /\ Now \in LifetimeStates /\ Now' = Apply(Now, Statement)
         /\ (TokenReused' <=> TokenReused) /\ (Guesses' <=> Guesses)
         /\ ~TokenReused => \A d \in Renewed(Now, Statement) : ~Shared(Now, d)
         /\ ~Guesses => Statement.op \notin {"choose", "freeUsed"}
<1> DEFINE b == at[1]
           i == at[2]
<1>1. InBlock /\ at # NoRun
  BY DEF Execute, Allocate, Move, Release, Reallocate, Use, InBlock
<1>2. /\ b \in Blocks /\ b \in Reached /\ i \in 1..Len(Body[b])
      /\ IsStatement(Statement) /\ input[b] \in LifetimeStates
  BY <1>1, RunningStatement DEF DrivesLifetime
<1>3. Len(Body[b]) \in Nat /\ Statement = Body[b][i]
  BY <1>2, LifetimeAssumption DEF Statement
<1>4. Now = StateBefore(b, i, input[b]) /\ Now \in LifetimeStates
  BY <1>1, NowIsTyped
<1>5. StateBefore(b, i + 1, input[b]) = Apply(Now, Statement)
  BY <1>2, <1>3, <1>4, StatesInTurn
<1>6. at' = <<b, i + 1>> /\ UNCHANGED flowVars
  BY <1>1 DEF Execute, RunTypeOK, InBlock
<1>7. at'[1] = b /\ at'[2] = i + 1 /\ at' # NoRun
  BY <1>2, <1>6, WorklistAssumption DEF NoRun
<1>8. Done' /\ Reached' = Reached /\ input' = input
  BY <1>1, <1>6 DEF flowVars, Done, Reached, PlaceInv
<1>9. (TokenReused' <=> TokenReused) /\ (Guesses' <=> Guesses)
  BY <1>8 DEF TokenReused, Guesses, Forks
<1>10. i + 1 \in 1..(Len(Body[b]) + 1)
  BY <1>2, <1>3
<1>11. ~TokenReused => \A d \in Renewed(Now, Statement) : ~Shared(Now, d)
  BY <1>2, <1>3, <1>4 DEF TokenReused
<1>12. ~Guesses => Statement.op \notin {"choose", "freeUsed"}
  BY <1>2, <1>3 DEF Guesses
<1> HIDE DEF b, i
<1>13. PlaceInv'
  BY <1>2, <1>7, <1>8, <1>10 DEF PlaceInv, NoRun
<1>14. Now' = Apply(Now, Statement)
  BY <1>5, <1>7, <1>8 DEF Now, NoRun
<1>15. QED
  BY <1>1, <1>2, <1>4, <1>7, <1>9, <1>11, <1>12, <1>13, <1>14

\* A branch takes the run to a block whose input covers what the condition
\* leaves, and is just that where the analysis never joins.
LEMMA BranchMoves ==
  ASSUME DrivesLifetime, FlowInv, StraightInv, RunTypeOK, PlaceInv, Branch
  PROVE  /\ PlaceInv' /\ at # NoRun /\ at' # NoRun /\ Now \in LifetimeStates /\ Now' \in LifetimeStates
         /\ at[1] \in Blocks
         /\ ApplyCondition(Now, Condition[at[1]]) \in LifetimeStates
         /\ Joined(Now', ApplyCondition(Now, Condition[at[1]])) = Now'
         /\ ~Guesses => Now' = ApplyCondition(Now, Condition[at[1]])
         /\ ~TokenReused /\ Condition[at[1]] # Opaque /\ Now.values[Condition[at[1]]] = {}
              => ~Shared(Now, Condition[at[1]])
         /\ UNCHANGED <<flowVars, store, heap>>
<1>0. FlowTypeOK /\ FixpointReached
  BY FlowInvFixpoint DEF FlowInv
<1> DEFINE b == at[1]
<1>1. PICK i \in TakenEdges(b) : Successors[b][i] # NoBlock /\ at' = <<Successors[b][i], 1>>
  BY DEF Branch
<1> DEFINE c == Successors[b][i]
           out == ApplyCondition(Now, Condition[b])
<1>2. at # NoRun /\ ~InBlock /\ UNCHANGED <<flowVars, store, heap>>
  BY DEF Branch
<1>3. /\ b \in Blocks /\ b \in Reached /\ at[2] \in 1..(Len(Body[b]) + 1) /\ Done
      /\ input[b] \in LifetimeStates /\ Body[b] \in Seq(Statements)
      /\ Now \in LifetimeStates /\ Now = StateBefore(b, at[2], input[b])
  BY <1>0, <1>2, NowIsTyped DEF PlaceInv
<1>4. at[2] = Len(Body[b]) + 1
  BY <1>2, <1>3 DEF InBlock
<1>5. i \in 1..Len(Successors[b])
  BY <1>1 DEF TakenEdges
<1>6. TransferBlock(b, input[b]) = out /\ out \in LifetimeStates
  BY <1>3, <1>4, TransferIsTyped DEF TransferBlock
<1>7. Transfer(b, input[b]) = out /\ OnEdge(b, i, out) = out
  BY <1>3, <1>5, <1>6 DEF DrivesLifetime, AlongEdge
<1>8. c \in Reached /\ Covers(input[c], out)
  BY <1>0, <1>1, <1>3, <1>5, <1>7 DEF FixpointReached, Delivered
<1>9. c \in Blocks /\ input[c] \in LifetimeStates
  BY <1>0, <1>8 DEF FlowTypeOK, DrivesLifetime
<1>10. ASSUME ~Guesses PROVE input[c] = out
  <2>1. ~Forks
    BY <1>10 DEF Guesses
  <2>2. c \notin Entries
    BY <1>3, <1>5, EntryAssumption
  <2>3. PICK d \in Reached : \E j \in 1..Len(Successors[d]) : ComesFrom(c, d, j)
    BY <1>8, <2>1, <2>2 DEF StraightInv
  <2>4. PICK j \in 1..Len(Successors[d]) : ComesFrom(c, d, j)
    BY <2>3
  <2>5. d = b
    BY <1>1, <1>3, <1>5, <2>1, <2>4 DEF Forks, ComesFrom
  <2>6. j = i
    <3>1. Len(Successors[b]) \in Nat /\ Len(Successors[b]) <= 1
      BY <1>3, <2>1, WorklistAssumption DEF Forks
    <3>2. QED
      BY <1>5, <2>4, <2>5, <3>1
  <2>7. QED
    BY <1>7, <2>4, <2>5, <2>6 DEF ComesFrom
<1> HIDE DEF c, out
<1>11. Joined(input[c], out) = input[c]
  <2> DEFINE outcome == [merged |-> Joined(input[c], out), changed |-> Joined(input[c], out) # input[c]]
  <2>1. JoinOutcomes(input[c], out) = {outcome}
    BY <1>6, <1>9 DEF DrivesLifetime, Join
  <2>2. outcome.changed = (Joined(input[c], out) # input[c])
    OBVIOUS
  <2> HIDE DEF outcome
  <2>3. ~outcome.changed
    BY <1>8, <2>1 DEF Covers
  <2>4. QED
    BY <2>2, <2>3
<1>12. ~TokenReused /\ Condition[b] # Opaque /\ Now.values[Condition[b]] = {} => ~Shared(Now, Condition[b])
  BY <1>3, <1>4 DEF TokenReused
<1>13. at'[1] = c /\ at'[2] = 1 /\ at' # NoRun /\ 1 \in 1..(Len(Body[c]) + 1)
  <2>1. Len(Body[c]) \in Nat
    BY <1>9, LifetimeAssumption
  <2>2. QED
    BY <1>1, <1>9, <2>1, WorklistAssumption DEF NoRun, c
<1>14. Done' /\ Reached' = Reached /\ input' = input
  BY <1>2, <1>3 DEF flowVars, Done, Reached
<1>15. PlaceInv'
  BY <1>8, <1>13, <1>14 DEF PlaceInv, NoRun
<1>16. Now' = input[c]
  <2>1. StateBefore(c, 1, input[c]) = input[c]
    BY <1>9, StatesInTurn
  <2>2. QED
    BY <1>13, <1>14, <2>1 DEF Now, NoRun
<1>17. QED
  BY <1>2, <1>3, <1>6, <1>9, <1>10, <1>11, <1>12, <1>13, <1>15, <1>16 DEF out, NoRun

\* Until the analysis is done there is no run, and afterwards the analysis is over.
LEMMA FlowMoves ==
  ASSUME PlaceInv, FlowStep /\ UNCHANGED runVars
  PROVE  /\ PlaceInv' /\ at = NoRun /\ at' = NoRun
         /\ Now = FreshParameters /\ Now' = FreshParameters
         /\ UNCHANGED <<store, heap>>
<1>1. at = NoRun
  BY DoneIsFinal DEF PlaceInv
<1>2. QED
  BY <1>1 DEF PlaceInv, Now, runVars, NoRun

\* The run goes on being described, statement after statement and from block to
\* block: the inputs are a fixpoint.
LEMMA RunStep ==
  ASSUME DrivesLifetime, FlowInv, EntryInv, StraightInv, RunTypeOK, PlaceInv, DescribedInv, [Next]_vars
  PROVE  PlaceInv' /\ DescribedInv'
<1>0. FlowTypeOK
  BY DEF FlowInv
<1>1. CASE FlowStep /\ UNCHANGED runVars
  BY <1>1, FlowMoves DEF DescribedInv
<1>2. CASE UNCHANGED vars
  BY <1>2 DEF vars, flowVars, runVars, PlaceInv, DescribedInv, Now, TokenReused, Done, Reached, NoRun
<1>3. CASE StartRun
  BY <1>0, <1>3, StartMoves DEF DescribedInv
<1>4. CASE Execute
  <2>1. /\ PlaceInv' /\ at # NoRun /\ at' # NoRun /\ IsStatement(Statement)
        /\ Now \in LifetimeStates /\ Now' = Apply(Now, Statement)
        /\ (TokenReused' <=> TokenReused)
        /\ ~TokenReused => \A d \in Renewed(Now, Statement) : ~Shared(Now, d)
    BY <1>0, <1>4, ExecuteMoves
  <2>2. ASSUME ~TokenReused PROVE Describes(Apply(Now, Statement), store', heap')
    BY <1>4, <2>1, <2>2, ExecuteDescribes DEF DescribedInv
  <2>3. QED
    BY <2>1, <2>2 DEF DescribedInv, NoRun
<1>5. CASE Branch
  <2> DEFINE c == Condition[at[1]]
             out == ApplyCondition(Now, c)
  <2>1. /\ PlaceInv' /\ at # NoRun /\ at' # NoRun /\ Now \in LifetimeStates /\ Now' \in LifetimeStates
        /\ at[1] \in Blocks /\ out \in LifetimeStates /\ Joined(Now', out) = Now'
        /\ ~TokenReused /\ c # Opaque /\ Now.values[c] = {} => ~Shared(Now, c)
        /\ UNCHANGED <<flowVars, store, heap>>
    BY <1>5, BranchMoves
  <2>2. ASSUME ~TokenReused PROVE Describes(out, store, heap)
    <3>1. PICK tok \in [1..Len(heap) -> Decls] : Names(tok, Now, store, heap)
      BY <2>1, <2>2 DEF DescribedInv, Describes
    <3>2. Names(tok, out, store, heap)
      <4>1. c \in Decls \cup {Opaque}
        BY <2>1, LifetimeAssumption
      <4>2. CASE c = Opaque
        BY <3>1, <4>2 DEF ApplyCondition
      <4>3. CASE c # Opaque
        BY <2>1, <2>2, <3>1, <4>1, <4>3, ReadNames DEF ApplyCondition
      <4>4. QED
        BY <4>2, <4>3
    <3>3. QED
      BY <3>1, <3>2 DEF Describes
  <2> HIDE DEF out
  <2>3. ASSUME ~TokenReused PROVE Describes(Now', store, heap)
    <3>1. Describes(out, store, heap)
      BY <2>2, <2>3
    <3>2. PICK t \in LifetimeStates : t = Now'
      BY <2>1
    <3>3. Joined(t, out) = t
      BY <2>1, <3>2
    <3>4. QED
      BY <2>1, <3>1, <3>2, <3>3, CoveringDescribes
  <2>4. TokenReused' <=> TokenReused
    BY <2>1 DEF flowVars, TokenReused, Reached
  <2>5. QED
    BY <2>1, <2>3, <2>4 DEF DescribedInv, NoRun
<1>6. QED
  BY <1>1, <1>2, <1>3, <1>4, <1>5 DEF Next

-----------------------------------------------------------------------------
\* Where nothing is guessed, what the analysis says is exact.

\* Reading a variable without a token gives it one of its own.
LEMMA ReadExact ==
  ASSUME NEW s \in LifetimeStates, NEW c \in Decls, NEW variables, NEW objects,
         Exact(s, variables, objects), s.values[c] = {} => ~Shared(s, c)
  PROVE  Exact(Read(s, c), variables, objects)
<1>1. CASE s.values[c] # {}
  BY <1>1, ReadAdds
<1>2. CASE s.values[c] = {}
  <2> DEFINE r == Read(s, c)
  <2>1. /\ r.values[c] = {c} /\ r.tokens[c] = "Live"
        /\ \A d \in Decls \ {c} : r.values[d] = s.values[d] /\ c \notin s.values[d]
        /\ \A t \in Decls \ {c} : r.tokens[t] = s.tokens[t]
        /\ \A d \in Decls : s.values[d] \subseteq Decls
    BY <1>2 DEF Read, SetFresh, LifetimeStates, Shared
  <2> HIDE DEF r
  <2>2. ASSUME NEW d \in Decls, NEW t \in r.values[d]
        PROVE  /\ \A e \in Decls : t \in r.values[e] => variables[e] = variables[d]
               /\ variables[d] # Null /\ r.tokens[t] # "Live" => objects[variables[d]] # "live"
    <3>1. CASE d = c
      BY <2>1, <2>2, <3>1
    <3>2. CASE d # c
      <4>1. t \in s.values[d] /\ t # c /\ t \in Decls
        BY <2>1, <2>2, <3>2
      <4>2. \A e \in Decls : t \in r.values[e] => t \in s.values[e]
        BY <2>1, <4>1
      <4>3. QED
        BY <2>1, <4>1, <4>2 DEF Exact
    <3>3. QED
      BY <3>1, <3>2
  <2>3. QED
    BY <2>2 DEF Exact, r
<1>3. QED
  BY <1>1, <1>2

\* A variable with a token of its own says nothing of the others.
LEMMA FreshExact ==
  ASSUME NEW s \in LifetimeStates, NEW d \in Decls, NEW variables \in [Decls -> Nat], NEW objects,
         NEW v, NEW after, Exact(s, variables, objects), ~Shared(s, d),
         \A e \in Decls : variables[e] # Null /\ after[variables[e]] = "live" => objects[variables[e]] = "live"
  PROVE  Exact(SetFresh(s, d), [variables EXCEPT ![d] = v], after)
<1> DEFINE f == SetFresh(s, d)
           vars2 == [variables EXCEPT ![d] = v]
<1>1. /\ f.values[d] = {d} /\ f.tokens[d] = "Live"
      /\ \A e \in Decls \ {d} : f.values[e] = s.values[e] /\ d \notin s.values[e]
      /\ \A t \in Decls \ {d} : f.tokens[t] = s.tokens[t]
      /\ \A e \in Decls : s.values[e] \subseteq Decls
  BY DEF SetFresh, LifetimeStates, Shared
<1>2. \A e \in Decls \ {d} : vars2[e] = variables[e]
  OBVIOUS
<1> HIDE DEF f, vars2
<1>3. ASSUME NEW c \in Decls, NEW t \in f.values[c]
      PROVE  /\ \A e \in Decls : t \in f.values[e] => vars2[e] = vars2[c]
             /\ vars2[c] # Null /\ f.tokens[t] # "Live" => after[vars2[c]] # "live"
  <2>1. CASE c = d
    BY <1>1, <1>3, <2>1
  <2>2. CASE c # d
    <3>1. t \in s.values[c] /\ t # d /\ t \in Decls
      BY <1>1, <1>3, <2>2
    <3>2. \A e \in Decls : t \in f.values[e] => t \in s.values[e] /\ e # d
      BY <1>1, <3>1
    <3>3. /\ \A e \in Decls : t \in s.values[e] => variables[e] = variables[c]
          /\ variables[c] # Null /\ s.tokens[t] # "Live" => objects[variables[c]] # "live"
      BY <3>1 DEF Exact
    <3>4. QED
      BY <1>1, <1>2, <2>2, <3>1, <3>2, <3>3
  <2>3. QED
    BY <2>1, <2>2
<1>4. QED
  BY <1>3 DEF Exact, f, vars2

\* A variable that is cleared, or receives all that another one holds.
LEMMA MoveExact ==
  ASSUME NEW s \in LifetimeStates, NEW d \in Decls, NEW held \in SUBSET Decls,
         NEW variables \in [Decls -> Nat], NEW objects, NEW v, Exact(s, variables, objects),
         \A t \in held : \E e \in Decls : t \in s.values[e] /\ variables[e] = v
  PROVE  Exact(SetValue(s, d, held), [variables EXCEPT ![d] = v], objects)
<1> DEFINE f == SetValue(s, d, held)
           vars2 == [variables EXCEPT ![d] = v]
<1>1. /\ f.values[d] = held /\ f.tokens = s.tokens
      /\ \A e \in Decls \ {d} : f.values[e] = s.values[e]
  BY DEF SetValue, LifetimeStates
<1>2. vars2[d] = v /\ \A e \in Decls \ {d} : vars2[e] = variables[e]
  OBVIOUS
<1> HIDE DEF f, vars2
<1>3. ASSUME NEW c \in Decls, NEW t \in f.values[c]
      PROVE  \E e \in Decls : t \in s.values[e] /\ variables[e] = vars2[c]
  BY <1>1, <1>2, <1>3
<1>4. ASSUME NEW c \in Decls, NEW t \in f.values[c]
      PROVE  /\ \A e \in Decls : t \in f.values[e] => vars2[e] = vars2[c]
             /\ vars2[c] # Null /\ f.tokens[t] # "Live" => objects[vars2[c]] # "live"
  <2>1. PICK x \in Decls : t \in s.values[x] /\ variables[x] = vars2[c]
    BY <1>3, <1>4
  <2>2. /\ \A e \in Decls : t \in s.values[e] => variables[e] = variables[x]
        /\ variables[x] # Null /\ s.tokens[t] # "Live" => objects[variables[x]] # "live"
    BY <2>1 DEF Exact
  <2>3. ASSUME NEW e \in Decls, t \in f.values[e] PROVE vars2[e] = vars2[c]
    <3>1. PICK y \in Decls : t \in s.values[y] /\ variables[y] = vars2[e]
      BY <1>3, <2>3
    <3>2. QED
      BY <2>1, <2>2, <3>1
  <2>4. QED
    BY <1>1, <2>1, <2>2, <2>3
<1>5. QED
  BY <1>4 DEF Exact, f, vars2

\* A deallocation: what shared the token pointed to the object.
LEMMA FreeExact ==
  ASSUME NEW s \in LifetimeStates, NEW c \in Decls, NEW variables, NEW objects, NEW after,
         Exact(s, variables, objects), s.values[c] = {} => ~Shared(s, c),
         variables[c] # Null => after[variables[c]] # "live",
         \A e \in Decls : variables[e] # Null /\ after[variables[e]] = "live" => objects[variables[e]] = "live"
  PROVE  Exact(Free(s, c), variables, after)
<1> DEFINE r == Read(s, c)
           f == Free(s, c)
<1>1. r \in LifetimeStates /\ Exact(r, variables, objects)
  BY ReadAdds, ReadExact
<1> HIDE DEF r
<1>2. /\ f.values = r.values
      /\ \A t \in Decls : f.tokens[t] = IF t \in r.values[c] THEN "Freed" ELSE r.tokens[t]
      /\ \A d \in Decls : r.values[d] \subseteq Decls
  BY <1>1 DEF Free, MarkFreed, LifetimeStates, r
<1> HIDE DEF f
<1>3. ASSUME NEW d \in Decls, NEW t \in r.values[d]
      PROVE  /\ \A e \in Decls : t \in r.values[e] => variables[e] = variables[d]
             /\ variables[d] # Null /\ r.tokens[t] # "Live" => objects[variables[d]] # "live"
  BY <1>1, <1>3 DEF Exact
<1>4. ASSUME NEW d \in Decls, NEW t \in r.values[d], variables[d] # Null, f.tokens[t] # "Live"
      PROVE  after[variables[d]] # "live"
  <2>1. CASE t \in r.values[c]
    BY <1>3, <2>1, <1>4
  <2>2. CASE t \notin r.values[c]
    BY <1>2, <1>3, <2>2, <1>4
  <2>3. QED
    BY <2>1, <2>2
<1>5. QED
  BY <1>2, <1>3, <1>4 DEF Exact, f

\* A deallocation evaluated twice.
LEMMA FreeTwiceExact ==
  ASSUME NEW s \in LifetimeStates, NEW c \in Decls, NEW variables, NEW objects, NEW after,
         Exact(s, variables, objects), s.values[c] = {} => ~Shared(s, c),
         variables[c] # Null => after[variables[c]] # "live",
         \A e \in Decls : variables[e] # Null /\ after[variables[e]] = "live" => objects[variables[e]] = "live"
  PROVE  /\ Free(Free(s, c), c) \in LifetimeStates
         /\ Exact(Free(Free(s, c), c), variables, after)
         /\ \A d \in Decls : ~Shared(s, d) => ~Shared(Free(Free(s, c), c), d)
<1> DEFINE f == Free(s, c)
<1>1. f \in LifetimeStates /\ Exact(f, variables, after) /\ f.values = Read(s, c).values
  BY FreeIsTyped, FreeExact DEF Free, MarkFreed
<1>2. f.values[c] # {}
  BY <1>1, ReadAdds
<1> HIDE DEF f
<1>3. Free(f, c) \in LifetimeStates /\ Exact(Free(f, c), variables, after)
  BY <1>1, <1>2, FreeIsTyped, FreeExact
<1>4. Free(f, c).values = f.values
  <2>1. Free(f, c) = MarkFreed(f, f.values[c])
    BY <1>2 DEF Free, Read
  <2>2. QED
    BY <1>1, <2>1 DEF MarkFreed, LifetimeStates
<1>5. ASSUME NEW d \in Decls, ~Shared(s, d) PROVE ~Shared(Free(f, c), d)
  <2>1. ~Shared(Read(s, c), d)
    BY <1>5, ReadKeepsUnshared
  <2>2. QED
    BY <1>1, <1>4, <2>1 DEF Shared
<1>6. QED
  BY <1>3, <1>5 DEF f

\* Where nothing is guessed, a statement does to the state just what it does to
\* store and heap.
LEMMA ExecuteExact ==
  ASSUME RunTypeOK, NEW s \in LifetimeStates, IsStatement(Statement), Execute,
         Exact(s, store, heap), \A d \in Renewed(s, Statement) : ~Shared(s, d),
         Statement.op \notin {"choose", "freeUsed"}
  PROVE  Exact(Apply(s, Statement), store', heap')
<1>1. PICK n \in Nat : n = Len(heap)
  BY DEF RunTypeOK
<1>2. heap \in Seq({"live", "freed", "kept"}) /\ store \in [Decls -> 0..n] /\ store \in [Decls -> Nat]
  BY <1>1 DEF RunTypeOK
<1> USE DEF IsStatement
<1>3. ASSUME NEW h \in Seq({"live", "freed", "kept"}), Len(h) = n, NEW f \in LifetimeStates,
             NEW d \in Decls, ~Shared(f, d), Exact(f, store, h), NewObject(d, h) \/ NoObject(d, h)
      PROVE  Exact(SetFresh(f, d), store', heap')
  <2>1. \/ heap' = Append(h, "live") /\ store' = [store EXCEPT ![d] = n + 1]
        \/ heap' = h /\ store' = [store EXCEPT ![d] = Null]
    BY <1>3 DEF NewObject, NoObject
  <2>2. \A o \in 1..n : heap'[o] = h[o]
    BY <1>3, <2>1
  <2>3. \A e \in Decls : store[e] # Null /\ heap'[store[e]] = "live" => h[store[e]] = "live"
    BY <1>2, <2>2 DEF Null
  <2>4. PICK after : after = heap'
    OBVIOUS
  <2>5. \A v : Exact(SetFresh(f, d), [store EXCEPT ![d] = v], after)
    BY <1>2, <1>3, <2>3, <2>4, FreshExact
  <2>6. QED
    BY <2>1, <2>4, <2>5
<1>4. CASE Allocate
  <2>1. /\ Statement.op = "alloc" /\ Statement.to \in Decls
        /\ NewObject(Statement.to, heap) \/ NoObject(Statement.to, heap)
    BY <1>4 DEF Allocate
  <2>2. ~Shared(s, Statement.to) /\ Apply(s, Statement) = SetFresh(s, Statement.to)
    BY <2>1 DEF Renewed, Apply
  <2>3. QED
    BY <1>1, <1>2, <1>3, <2>1, <2>2
<1>5. CASE Move
  <2>1. Statement.op \in {"clear", "copy", "memcpy"} /\ Statement.to \in Decls /\ heap' = heap
    BY <1>5 DEF Move
  <2>2. CASE Statement.op = "clear"
    <3>1. store' = [store EXCEPT ![Statement.to] = Null]
      BY <1>5, <2>2 DEF Move
    <3>2. Apply(s, Statement) = SetValue(s, Statement.to, {})
      BY <2>2 DEF Apply
    <3>3. Exact(SetValue(s, Statement.to, {}), [store EXCEPT ![Statement.to] = Null], heap)
      BY <1>2, <2>1, MoveExact
    <3>4. QED
      BY <2>1, <3>1, <3>2, <3>3
  <2>3. CASE Statement.op \in {"copy", "memcpy"}
    <3>1. store' = [store EXCEPT ![Statement.to] = store[Statement.from]] /\ Statement.from \in Decls
      BY <1>5, <2>3 DEF Move
    <3>2. ASSUME NEW r \in LifetimeStates, Exact(r, store, heap)
          PROVE  Exact(SetValue(r, Statement.to, r.values[Statement.from]), store', heap')
      <4>1. r.values[Statement.from] \in SUBSET Decls
        BY <3>1, <3>2 DEF LifetimeStates
      <4>2. \A t \in r.values[Statement.from] :
              \E e \in Decls : t \in r.values[e] /\ store[e] = store[Statement.from]
        BY <3>1
      <4>3. Exact(SetValue(r, Statement.to, r.values[Statement.from]),
                  [store EXCEPT ![Statement.to] = store[Statement.from]], heap)
        BY <1>2, <2>1, <3>2, <4>1, <4>2, MoveExact
      <4>4. QED
        BY <2>1, <3>1, <4>3
    <3>3. CASE Statement.op = "memcpy"
      <4>1. Apply(s, Statement) = SetValue(s, Statement.to, s.values[Statement.from])
        BY <3>3 DEF Apply
      <4>2. QED
        BY <3>2, <4>1
    <3>4. CASE Statement.op = "copy"
      <4>1. Apply(s, Statement) = SetValue(Read(s, Statement.from), Statement.to,
                                           Read(s, Statement.from).values[Statement.from])
        BY <3>4 DEF Apply
      <4>2. s.values[Statement.from] = {} => ~Shared(s, Statement.from)
        BY <3>4 DEF Renewed
      <4>3. Read(s, Statement.from) \in LifetimeStates /\ Exact(Read(s, Statement.from), store, heap)
        BY <3>1, <4>2, ReadAdds, ReadExact
      <4>4. QED
        BY <3>2, <4>1, <4>3
    <3>5. QED
      BY <2>3, <3>3, <3>4
  <2>4. QED
    BY <2>1, <2>2, <2>3
<1>6. ASSUME Statement.op \in {"free", "realloc", "use"}
      PROVE  /\ Statement.of \in Decls /\ store[Statement.of] \in 0..Len(heap)
             /\ s.values[Statement.of] = {} => ~Shared(s, Statement.of)
  BY <1>1, <1>2, <1>6 DEF Renewed
<1>7. ASSUME NEW c \in Decls, NEW state \in {"freed", "kept"}
      PROVE  /\ Marked(store[c], state) \in Seq({"live", "freed", "kept"})
             /\ Len(Marked(store[c], state)) = n
             /\ store[c] # Null => Marked(store[c], state)[store[c]] # "live"
             /\ \A e \in Decls : store[e] # Null /\ Marked(store[c], state)[store[e]] = "live"
                                   => heap[store[e]] = "live"
  <2>1. store[c] \in 0..Len(heap) /\ \A e \in Decls : store[e] # Null => store[e] \in 1..Len(heap)
    BY <1>1, <1>2 DEF Null
  <2>2. /\ Marked(store[c], state) \in Seq({"live", "freed", "kept"})
        /\ Len(Marked(store[c], state)) = Len(heap)
        /\ \A o \in 1..Len(heap) : o # store[c] => Marked(store[c], state)[o] = heap[o]
        /\ \A o \in 1..Len(heap) : o = store[c] => Marked(store[c], state)[o] = state
    BY <1>2, <2>1, MarkedObject
  <2>3. QED
    BY <1>1, <2>1, <2>2
<1>8. CASE Release
  <2>1. Statement.op = "free" /\ heap' = Marked(store[Statement.of], "freed") /\ store' = store
    BY <1>8 DEF Release
  <2>2. Apply(s, Statement) = Free(s, Statement.of)
    BY <2>1 DEF Apply
  <2>3. Exact(Free(s, Statement.of), store, Marked(store[Statement.of], "freed"))
    BY <1>6, <1>7, <2>1, FreeExact
  <2>4. QED
    BY <2>1, <2>2, <2>3
<1>9. CASE Reallocate
  <2>1. Statement.op = "realloc" /\ Statement.to \in Decls
    BY <1>9 DEF Reallocate
  <2>2. ~Shared(s, Statement.to)
    BY <2>1 DEF Renewed
  <2> DEFINE c == Statement.of
  <2>3. PICK h : /\ h \in Seq({"live", "freed", "kept"}) /\ Len(h) = n
                 /\ NewObject(Statement.to, h) \/ NoObject(Statement.to, h)
                 /\ store[c] # Null => h[store[c]] # "live"
                 /\ \A e \in Decls : store[e] # Null /\ h[store[e]] = "live" => heap[store[e]] = "live"
    <3>1. CASE NewObject(Statement.to, Marked(store[c], "freed"))
      BY <1>6, <1>7, <2>1, <3>1
    <3>2. CASE NoObject(Statement.to, Marked(store[c], "kept"))
      BY <1>6, <1>7, <2>1, <3>2
    <3>3. CASE TouchesFreed /\ NoObject(Statement.to, heap)
      BY <1>1, <1>2, <3>3 DEF TouchesFreed
    <3>4. QED
      BY <1>9, <3>1, <3>2, <3>3 DEF Reallocate
  <2> DEFINE f == Free(Free(s, c), c)
  <2>4. f \in LifetimeStates /\ Exact(f, store, h) /\ ~Shared(f, Statement.to)
    <3>1. PICK x \in Decls : x = c
      BY <1>6, <2>1
    <3>2. /\ s.values[x] = {} => ~Shared(s, x)
          /\ store[x] # Null => h[store[x]] # "live"
          /\ \A e \in Decls : store[e] # Null /\ h[store[e]] = "live" => heap[store[e]] = "live"
      BY <1>6, <2>1, <2>3, <3>1
    <3>3. Exact(s, store, heap)
      OBVIOUS
    <3>4. /\ Free(Free(s, x), x) \in LifetimeStates
          /\ Exact(Free(Free(s, x), x), store, h)
          /\ ~Shared(s, Statement.to) => ~Shared(Free(Free(s, x), x), Statement.to)
      BY <2>1, <3>2, <3>3, FreeTwiceExact
    <3>5. QED
      BY <2>2, <3>1, <3>4
  <2>5. Apply(s, Statement) = SetFresh(f, Statement.to)
    BY <2>1 DEF Apply
  <2> HIDE DEF f
  <2>6. QED
    BY <1>3, <2>1, <2>3, <2>4, <2>5
<1>10. CASE Use
  <2>1. Statement.op = "use" /\ heap' = heap /\ store' = store
    BY <1>10 DEF Use
  <2>2. Apply(s, Statement) = Read(s, Statement.of)
    BY <2>1 DEF Apply
  <2>3. Exact(Read(s, Statement.of), store, heap)
    BY <1>6, <2>1, ReadExact
  <2>4. QED
    BY <2>1, <2>2, <2>3
<1>11. QED
  BY <1>4, <1>5, <1>8, <1>9, <1>10 DEF Execute

\* What the analysis says stays exact along a run, as long as nothing is guessed.
LEMMA ExactStep ==
  ASSUME DrivesLifetime, FlowInv, EntryInv, StraightInv, RunTypeOK, PlaceInv, ExactInv, [Next]_vars
  PROVE  ExactInv'
<1>0. FlowTypeOK
  BY DEF FlowInv
<1>1. CASE FlowStep /\ UNCHANGED runVars
  BY <1>1, FlowMoves DEF ExactInv
<1>2. CASE UNCHANGED vars
  <2>1. /\ at' = at /\ Now' = Now /\ UNCHANGED <<store, heap, input>>
        /\ Reached' = Reached
    BY <1>2 DEF vars, flowVars, runVars, Now, Reached, NoRun
  <2>2. (TokenReused' <=> TokenReused) /\ (Guesses' <=> Guesses)
    BY <2>1 DEF TokenReused, Guesses, Forks
  <2>3. QED
    BY <2>1, <2>2 DEF ExactInv, NoRun
<1>3. CASE StartRun
  BY <1>0, <1>3, StartMoves DEF ExactInv
<1>4. CASE Execute
  <2>1. /\ PlaceInv' /\ at # NoRun /\ at' # NoRun /\ IsStatement(Statement)
        /\ Now \in LifetimeStates /\ Now' = Apply(Now, Statement)
        /\ (TokenReused' <=> TokenReused) /\ (Guesses' <=> Guesses)
        /\ ~TokenReused => \A d \in Renewed(Now, Statement) : ~Shared(Now, d)
        /\ ~Guesses => Statement.op \notin {"choose", "freeUsed"}
    BY <1>0, <1>4, ExecuteMoves
  <2>2. ASSUME ~TokenReused, ~Guesses PROVE Exact(Apply(Now, Statement), store', heap')
    BY <1>4, <2>1, <2>2, ExecuteExact DEF ExactInv
  <2>3. QED
    BY <2>1, <2>2 DEF ExactInv, NoRun
<1>5. CASE Branch
  <2> DEFINE c == Condition[at[1]]
             out == ApplyCondition(Now, c)
  <2>1. /\ PlaceInv' /\ at # NoRun /\ at' # NoRun /\ Now \in LifetimeStates
        /\ at[1] \in Blocks /\ (~Guesses => Now' = out)
        /\ ~TokenReused /\ c # Opaque /\ Now.values[c] = {} => ~Shared(Now, c)
        /\ UNCHANGED <<flowVars, store, heap>>
    BY <1>5, BranchMoves
  <2>2. ASSUME ~TokenReused, ~Guesses PROVE Exact(out, store, heap)
    <3>1. c \in Decls \cup {Opaque}
      BY <2>1, LifetimeAssumption
    <3>2. CASE c = Opaque
      BY <2>1, <2>2, <3>2 DEF ApplyCondition, ExactInv
    <3>3. CASE c # Opaque
      BY <2>1, <2>2, <3>1, <3>3, ReadExact DEF ApplyCondition, ExactInv
    <3>4. QED
      BY <3>2, <3>3
  <2> HIDE DEF out
  <2>3. Reached' = Reached /\ input' = input
    BY <2>1 DEF flowVars, Reached
  <2>4. (TokenReused' <=> TokenReused) /\ (Guesses' <=> Guesses)
    BY <2>3 DEF TokenReused, Guesses, Forks
  <2>5. QED
    BY <2>1, <2>2, <2>4 DEF ExactInv, NoRun
<1>6. QED
  BY <1>1, <1>2, <1>3, <1>4, <1>5 DEF Next

\* The parameters' own tokens describe the objects the function is given.
LEMMA RunInit ==
  ASSUME Init
  PROVE  RunTypeOK /\ PlaceInv /\ DescribedInv /\ ExactInv
<1>1. PICK n : n = Cardinality(Parameters)
  OBVIOUS
<1>2. n \in Nat /\ (Parameters = {} => n = 0)
  <2>1. IsFiniteSet(Parameters)
    BY LifetimeAssumption, FS_Subset
  <2>2. QED
    BY <1>1, <2>1, FS_CardinalityType, FS_EmptySet
<1>3. /\ at = NoRun /\ heap = [o \in 1..n |-> "live"] /\ store \in [Decls -> 0..n]
      /\ \A d \in Decls : store[d] = Null <=> d \notin Parameters
      /\ \A c, d \in Parameters : c # d => store[c] # store[d]
  BY <1>1 DEF Init
<1>4. heap \in Seq({"live", "freed", "kept"}) /\ Len(heap) = n
  BY <1>2, <1>3
<1>5. RunTypeOK
  BY <1>3, <1>4 DEF RunTypeOK
<1> DEFINE owner(o, d) == d \in Decls /\ (store[d] = o \/ ~\E e \in Parameters : store[e] = o)
           tok == [o \in 1..n |-> CHOOSE d : owner(o, d)]
<1>6. ASSUME NEW o \in 1..n PROVE owner(o, tok[o])
  <2>1. Parameters # {} /\ Parameters \subseteq Decls
    BY <1>2, LifetimeAssumption
  <2>2. \E d : owner(o, d)
    BY <2>1
  <2> HIDE DEF owner
  <2>3. QED
    BY <2>2
<1>7. tok \in [1..n -> Decls]
  BY <1>6
<1>8. ASSUME NEW d \in Decls, store[d] # Null PROVE tok[store[d]] = d /\ d \in Parameters /\ store[d] \in 1..n
  <2>1. d \in Parameters /\ store[d] \in 1..n
    BY <1>3, <1>8 DEF Null
  <2>2. owner(store[d], tok[store[d]])
    BY <1>6, <2>1
  <2> DEFINE e == tok[store[d]]
  <2> HIDE DEF tok
  <2>3. e \in Decls /\ store[e] = store[d]
    BY <2>1, <2>2
  <2>4. e \in Parameters
    BY <1>3, <1>8, <2>3
  <2>5. QED
    BY <1>3, <2>1, <2>3, <2>4
<1> HIDE DEF tok
<1>9. Names(tok, FreshParameters, store, heap)
  BY <1>3, <1>8 DEF Names, FreshParameters
<1>10. Describes(FreshParameters, store, heap)
  BY <1>4, <1>7, <1>9 DEF Describes
<1>11. Exact(FreshParameters, store, heap)
  BY DEF Exact, FreshParameters
<1>12. QED
  BY <1>3, <1>5, <1>10, <1>11 DEF PlaceInv, DescribedInv, ExactInv, Now, NoRun

\* What a run touches, the analysis has described before.
LEMMA DescribedIsReported ==
  ASSUME DrivesLifetime, FlowTypeOK, RunTypeOK, PlaceInv, DescribedInv
  PROVE  FreedTouchReported
<1> SUFFICES ASSUME TouchesFreed, ~TokenReused PROVE at \in Reported
  BY DEF FreedTouchReported
<1> DEFINE b == at[1]
           i == at[2]
           s == StateBefore(b, i, input[b])
           d == Statement.of
<1>1. InBlock /\ at # NoRun /\ Statement.op \in Touching /\ store[d] # Null /\ heap[store[d]] = "freed"
  BY DEF TouchesFreed, InBlock
<1>2. /\ b \in Blocks /\ b \in Reached /\ i \in 1..Len(Body[b])
      /\ IsStatement(Statement) /\ input[b] \in LifetimeStates
  BY <1>1, RunningStatement DEF DrivesLifetime
<1>3. d \in Decls
  BY <1>1, <1>2 DEF IsStatement, Touching
<1>4. s \in LifetimeStates
  <2>1. i \in 1..(Len(Body[b]) + 1)
    BY <1>2, LifetimeAssumption
  <2>2. QED
    BY <1>2, <2>1, StatesInTurn
<1>5. PICK tok \in [1..Len(heap) -> Decls] : Names(tok, s, store, heap)
  BY <1>1 DEF DescribedInv, Describes, Now
<1>6. tok[store[d]] \in s.values[d] /\ s.tokens[tok[store[d]]] # "Live"
  BY <1>1, <1>3, <1>5 DEF Names
<1>7. Reports(s, Statement)
  BY <1>6 DEF Reports, Read, MaybeFreed
<1>8. at \in Diagnosed(b)
  <2>1. at = <<b, i>>
    BY <1>1 DEF RunTypeOK
  <2>2. QED
    BY <1>1, <1>2, <1>7, <2>1 DEF Diagnosed, Statement
<1>9. QED
  BY <1>2, <1>8 DEF Reported

\* A report where nothing is guessed is about an object that is gone.
LEMMA ExactIsReal ==
  ASSUME DrivesLifetime, FlowTypeOK, RunTypeOK, PlaceInv, ExactInv
  PROVE  ReportsAreReal
<1> SUFFICES ASSUME InBlock, Statement.op \in Touching, at \in Reported, ~TokenReused, ~Guesses
             PROVE  store[Statement.of] = Null \/ heap[store[Statement.of]] # "live"
  BY DEF ReportsAreReal
<1> DEFINE d == Statement.of
<1>1. /\ at # NoRun /\ at[1] \in Blocks /\ at[1] \in Reached /\ at[2] \in 1..Len(Body[at[1]])
      /\ IsStatement(Statement) /\ Now \in LifetimeStates
      /\ Now = StateBefore(at[1], at[2], input[at[1]])
  BY RunningStatement, NowIsTyped DEF InBlock
<1>2. d \in Decls
  BY <1>1 DEF IsStatement, Touching
<1>3. Statement.op # "freeUsed"
  BY <1>1 DEF Guesses, Statement
<1>4. Reports(Now, Statement)
  <2>1. PICK b \in Reached : at \in Diagnosed(b)
    BY DEF Reported
  <2>2. PICK j \in 1..Len(Body[b]) : at = <<b, j>> /\ Reports(StateBefore(b, j, input[b]), Body[b][j])
    BY <2>1 DEF Diagnosed
  <2>3. QED
    BY <1>1, <2>2 DEF Statement
<1>5. PICK t \in Read(Now, d).values[d] : Read(Now, d).tokens[t] # "Live"
  BY <1>3, <1>4 DEF Reports, MaybeFreed
<1>6. Now.values[d] # {}
  BY <1>1, <1>2, <1>5 DEF Read, SetFresh, LifetimeStates
<1>7. t \in Now.values[d] /\ Now.tokens[t] # "Live"
  BY <1>5, <1>6 DEF Read
<1>8. QED
  BY <1>1, <1>2, <1>7 DEF ExactInv, Exact

\* All that is known of the analysis and of the run.
LifetimeInv ==
  FlowInv /\ EntryInv /\ StraightInv /\ RunTypeOK /\ PlaceInv /\ DescribedInv /\ ExactInv

LEMMA LifetimeInvariance ==
  ASSUME DrivesLifetime
  PROVE  Spec => []LifetimeInv
<1> USE DEF LifetimeInv
<1>1. Init => LifetimeInv
  <2> SUFFICES ASSUME Init PROVE LifetimeInv
    OBVIOUS
  <2>1. FlowInit
    BY DEF Init
  <2>2. QED
    BY <2>1, FlowInitInv, EntryInit, StraightInit, RunInit
<1>2. LifetimeInv /\ [Next]_vars => LifetimeInv'
  <2> SUFFICES ASSUME LifetimeInv, [Next]_vars PROVE LifetimeInv'
    OBVIOUS
  <2>1. [FlowStep]_flowVars
    BY DEF Next, vars, flowVars, StartRun, Execute, Branch
  <2>2. FlowTypeOK /\ FlowTypeOK' /\ FlowIsTyped(States) /\ JoinAccumulates(States)
    BY <2>1, LifetimeFlowLaws, FlowTypeStep DEF FlowInv
  <2>3. FlowInv'
    BY <2>1, <2>2, VisitStep DEF FlowInv
  <2>4. EntryInv' /\ StraightInv'
    BY <2>1, <2>2, EntryStep, StraightStep
  <2>5. RunTypeOK' /\ PlaceInv' /\ DescribedInv' /\ ExactInv'
    BY <2>2, RunTypeStep, RunStep, ExactStep
  <2>6. QED
    BY <2>3, <2>4, <2>5
<1>3. QED
  BY <1>1, <1>2, PTL DEF Spec

\* Every use of a freed object, and every second deallocation, happens at a place
\* the analysis reports: for every control-flow graph, any variables, aliases,
\* loops and failing allocations, and every run, unless the function makes a
\* token stand for two objects.
THEOREM FreedTouchesAreReported ==
  ASSUME DrivesLifetime
  PROVE  Spec => []FreedTouchReported
<1>1. LifetimeInv => FreedTouchReported
  BY DescribedIsReported DEF LifetimeInv, FlowInv
<1>2. QED
  BY <1>1, LifetimeInvariance, PTL

\* What the analysis reports where it need not guess is a real error, however
\* long the function and however many variables, copies and reallocations it has.
THEOREM ReportsAreAlwaysReal ==
  ASSUME DrivesLifetime
  PROVE  Spec => []ReportsAreReal
<1>1. LifetimeInv => ReportsAreReal
  BY ExactIsReal DEF LifetimeInv, FlowInv
<1>2. QED
  BY <1>1, LifetimeInvariance, PTL
=============================================================================
