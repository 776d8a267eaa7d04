--------------------------- MODULE NullStateProofs ---------------------------
(***************************************************************************)
(* For every function and any set of pointer variables: the joins of       *)
(* NullFacts are those of a semilattice, so that the work list of the      *)
(* null-state analysis runs dry only at a fixpoint; along every run the    *)
(* state at the run's place knows the variables, so that no null result is *)
(* dereferenced at a silent site, unless the call was made again while an  *)
(* earlier result, or NULL, was still taken for it; and that takes a NULL  *)
(* constant.  (Member lvalues do not accumulate: see the run NullReplaced. *)
(* The theorems about runs are of functions without them.)                 *)
(***************************************************************************)
EXTENDS NullStateFlow, WorklistProofs, FiniteSetTheorems

\* join_fact of stored facts is a stored fact.
LEMMA JoinFactType ==
  ASSUME NEW a \in StoredFacts, NEW b \in StoredFacts
  PROVE  JoinFact(a, b) \in StoredFacts
  BY DEF StoredFacts, PointerFacts, Origins, NullStates, NoFact, JoinFact, JoinNullState

\* Joining a fact with itself leaves it alone.
LEMMA JoinFactIdempotent ==
  ASSUME NEW a \in StoredFacts
  PROVE  JoinFact(a, a) = a
  BY DEF StoredFacts, PointerFacts, Origins, NullStates, NoFact, JoinFact, JoinNullState

\* It does not matter which path is joined into which.
LEMMA JoinFactCommutes ==
  ASSUME NEW a \in StoredFacts, NEW b \in StoredFacts
  PROVE  JoinFact(a, b) = JoinFact(b, a)
  BY DEF StoredFacts, PointerFacts, Origins, NullStates, NoFact, JoinFact, JoinNullState

\* Two facts with the same parts are the same.
LEMMA FactExtensionality ==
  ASSUME NEW a \in StoredFacts, NEW b \in StoredFacts,
         a.origin = b.origin, a.nullState = b.nullState
  PROVE  a = b
  BY DEF StoredFacts, PointerFacts

\* Nor in which order three paths are joined.
LEMMA JoinFactAssociates ==
  ASSUME NEW a \in StoredFacts, NEW b \in StoredFacts, NEW c \in StoredFacts
  PROVE  JoinFact(JoinFact(a, b), c) = JoinFact(a, JoinFact(b, c))
<1> DEFINE l == JoinFact(JoinFact(a, b), c)
           r == JoinFact(a, JoinFact(b, c))
<1>1. l \in StoredFacts /\ r \in StoredFacts
  BY JoinFactType
<1>2. l.origin = r.origin
  BY DEF StoredFacts, PointerFacts, Origins, NoFact, JoinFact
<1>3. l.nullState = r.nullState
  <2>1. CASE a.origin = "No" \/ b.origin = "No" \/ c.origin = "No"
    BY <2>1, JoinFactType
    DEF StoredFacts, PointerFacts, Origins, NullStates, NoFact, JoinFact, JoinNullState
  <2>2. CASE a.origin # "No" /\ b.origin # "No" /\ c.origin # "No"
    BY <2>2 DEF StoredFacts, PointerFacts, Origins, NullStates, JoinFact, JoinNullState
  <2>3. QED
    BY <2>1, <2>2
<1>4. QED
  BY <1>1, <1>2, <1>3, FactExtensionality

\* The join of two maps of variables is one.
LEMMA JoinDeclsType ==
  ASSUME NEW D, NEW a \in [D -> StoredFacts], NEW b \in [D -> StoredFacts]
  PROVE  JoinDecls(a, b) \in [D -> StoredFacts]
  BY JoinFactType DEF JoinDecls

\* A path that was joined has nothing left to say, so a block is not queued
\* again because of it.
THEOREM JoinedPathIsCovered ==
  ASSUME NEW D, NEW a \in [D -> StoredFacts], NEW b \in [D -> StoredFacts]
  PROVE  JoinDecls(JoinDecls(a, b), b) = JoinDecls(a, b)
<1>1. \A d \in D : JoinFact(JoinFact(a[d], b[d]), b[d]) = JoinFact(a[d], b[d])
  BY JoinFactAssociates, JoinFactIdempotent, JoinFactType
<1>2. DOMAIN JoinDecls(a, b) = D
  BY DEF JoinDecls
<1>3. QED
  BY <1>1, <1>2 DEF JoinDecls

\* A path that had nothing left to say still has nothing to say after another
\* one is joined: visiting a block again never undoes what it learnt.
THEOREM CoveredPathStaysCovered ==
  ASSUME NEW D, NEW a \in [D -> StoredFacts], NEW b \in [D -> StoredFacts],
         NEW e \in [D -> StoredFacts], JoinDecls(a, e) = a
  PROVE  JoinDecls(JoinDecls(a, b), e) = JoinDecls(a, b)
<1>1. ASSUME NEW d \in D
      PROVE  JoinFact(JoinFact(a[d], b[d]), e[d]) = JoinFact(a[d], b[d])
  <2>1. JoinFact(a[d], e[d]) = a[d]
    <3>1. JoinDecls(a, e)[d] = JoinFact(a[d], e[d])
      BY DEF JoinDecls
    <3>2. QED
      BY <3>1
  <2>2. JoinFact(JoinFact(a[d], b[d]), e[d]) = JoinFact(a[d], JoinFact(e[d], b[d]))
    BY JoinFactAssociates, JoinFactCommutes
  <2>3. JoinFact(a[d], JoinFact(e[d], b[d])) = JoinFact(JoinFact(a[d], e[d]), b[d])
    BY JoinFactAssociates
  <2>4. QED
    BY <2>1, <2>2, <2>3
<1>2. DOMAIN JoinDecls(a, b) = D
  BY DEF JoinDecls
<1>3. QED
  BY <1>1, <1>2 DEF JoinDecls

-----------------------------------------------------------------------------
\* Statements and blocks take states to states.

\* What is known of an operand is a fact that a map may hold.
LEMMA FactIsStored ==
  ASSUME Members = {}, NEW s \in NullStateSet, NEW e
  PROVE  Fact(s, e) \in StoredFacts
<1>1. NoFact \in StoredFacts
  BY DEF NoFact, StoredFacts, PointerFacts, Origins, NullStates
<1>2. [origin |-> "Yes", nullState |-> "Null"] \in StoredFacts
  BY DEF StoredFacts, PointerFacts, Origins, NullStates
<1>3. [origin |-> "Yes", nullState |-> "MaybeNull"] \in StoredFacts
  BY DEF StoredFacts, PointerFacts, Origins, NullStates
<1>4. \A d \in Decls : s.decls[d] \in StoredFacts
  BY DEF NullStateSet
<1>5. QED
  BY <1>1, <1>2, <1>3, <1>4 DEF Fact

LEMMA BranchFactIsStored ==
  ASSUME Members = {}, NEW s \in NullStateSet, NEW e, NEW ns \in NullStates, NEW subject
  PROVE  /\ BranchFact(s, e, subject, ns) \in StoredFacts
         /\ e = NullConstant => BranchFact(s, e, subject, ns).origin = "No"
         /\ e # NullConstant =>
              /\ BranchFact(s, e, subject, ns).origin = Fact(s, e).origin
              /\ e # subject => BranchFact(s, e, subject, ns) = Fact(s, e)
              /\ Fact(s, e).origin # "No" /\ e = subject =>
                   BranchFact(s, e, subject, ns).nullState = ns
<1> DEFINE f == IF e = NullConstant THEN NoFact ELSE Fact(s, e)
<1>1. /\ f \in StoredFacts
      /\ e = NullConstant => f.origin = "No"
      /\ e # NullConstant => f = Fact(s, e)
  BY FactIsStored DEF NoFact, StoredFacts, PointerFacts, Origins, NullStates
<1>2. BranchFact(s, e, subject, ns) = IF f.origin # "No" /\ e = subject THEN [f EXCEPT !.nullState = ns] ELSE f
  BY DEF BranchFact
<1> HIDE DEF f
<1>3. f.origin # "No" => /\ [f EXCEPT !.nullState = ns] \in StoredFacts
                         /\ [f EXCEPT !.nullState = ns].origin = f.origin
                         /\ [f EXCEPT !.nullState = ns].nullState = ns
  BY <1>1 DEF StoredFacts, PointerFacts
<1>4. QED
  BY <1>1, <1>2, <1>3

\* Only the variable that is set changes.
LEMMA SetDeclSets ==
  ASSUME NEW s \in NullStateSet, NEW d \in Decls, NEW f \in StoredFacts
  PROVE  /\ SetDecl(s, d, f) \in NullStateSet
         /\ SetDecl(s, d, f).decls = [s.decls EXCEPT ![d] = f]
<1>1. f.origin = "No" => f = NoFact
  BY DEF StoredFacts
<1>2. SetDecl(s, d, f) = [s EXCEPT !.decls[d] = f]
  BY <1>1 DEF SetDecl
<1>3. QED
  BY <1>2 DEF NullStateSet

\* What a statement assigns, as the analysis sees it.
Received(s, stmt) == IF stmt.op = "choose" THEN ChoiceFact(s, stmt) ELSE Fact(s, stmt.from)

LEMMA ApplySets ==
  ASSUME Members = {}, NEW s \in NullStateSet, NEW stmt \in Statements
  PROVE  /\ Apply(s, stmt) \in NullStateSet
         /\ stmt.op = "use" => Apply(s, stmt) = s
         /\ stmt.op # "use" => /\ stmt.op \in {"set", "choose"} /\ stmt.to \in Decls
                               /\ Received(s, stmt) \in StoredFacts
                               /\ Apply(s, stmt).decls = [s.decls EXCEPT ![stmt.to] = Received(s, stmt)]
<1>1. CASE stmt.op = "use"
  BY <1>1 DEF Apply
<1>2. CASE stmt.op = "set"
  <2>1. stmt.to \in Decls
    BY <1>2 DEF Statements
  <2>2. Fact(s, stmt.from) \in StoredFacts
    BY FactIsStored
  <2>3. Apply(s, stmt) = SetDecl(s, stmt.to, Fact(s, stmt.from))
    BY <1>2 DEF Apply
  <2>4. QED
    BY <1>2, <2>1, <2>2, <2>3, SetDeclSets DEF Received
<1>3. CASE stmt.op = "choose"
  <2>1. stmt.to \in Decls
    BY <1>3 DEF Statements
  <2>2. ChoiceFact(s, stmt) \in StoredFacts
    <3>1. /\ BranchFact(s, stmt.then, stmt.subject, "NonNull") \in StoredFacts
          /\ BranchFact(s, stmt.else, stmt.subject, "Null") \in StoredFacts
      BY BranchFactIsStored DEF NullStates
    <3>2. QED
      BY <3>1, JoinFactType DEF ChoiceFact
  <2>3. Apply(s, stmt) = SetDecl(s, stmt.to, ChoiceFact(s, stmt))
    BY <1>3 DEF Apply
  <2>4. QED
    BY <1>3, <2>1, <2>2, <2>3, SetDeclSets DEF Received
<1>4. stmt.op \in {"use", "set", "choose"}
  BY DEF Statements
<1>5. QED
  BY <1>1, <1>2, <1>3, <1>4

LEMMA ApplyIsTyped ==
  ASSUME Members = {}
  PROVE  \A s \in NullStateSet, stmt \in Statements : Apply(s, stmt) \in NullStateSet
  BY ApplySets

\* A block is applied one statement after the other, from state to state.
LEMMA FoldLeftComputes ==
  ASSUME Members = {}, NEW s \in NullStateSet, NEW q \in Seq(Statements)
  PROVE  \E g \in [0..Len(q) -> NullStateSet] :
           /\ g[0] = s
           /\ \A k \in 1..Len(q) : g[k] = Apply(g[k - 1], q[k])
           /\ FoldLeft(Apply, s, q) = g[Len(q)]
<1> DEFINE n == Len(q)
           step == [k \in 1..n |-> [v \in NullStateSet |-> Apply(v, q[k])]]
           IsFold(it) == it = [r \in SUBSET (DOMAIN q) |->
                                 IF r = {} THEN s ELSE Apply(it[r \ {Max(r)}], q[Max(r)])]
<1>1. n \in Nat /\ DOMAIN q = 1..n /\ \A k \in 1..n : q[k] \in Statements
  OBVIOUS
<1>2. step \in [1..n -> [NullStateSet -> NullStateSet]]
  BY <1>1, ApplyIsTyped
<1>3. \E it : IsFold(it)
  <2> HIDE DEF step, n
  <2>1. PICK it \in [SUBSET (1..n) -> NullStateSet] :
          Iterates(it, s, n, step)
    BY <1>1, <1>2, FoldExists
  <2>2. ASSUME NEW r \in SUBSET (1..n), r # {}
        PROVE  step[Max(r)][it[r \ {Max(r)}]] = Apply(it[r \ {Max(r)}], q[Max(r)])
    <3>1. Max(r) \in 1..n
      BY <1>1, <2>2, MaxOfNumbers
    <3>2. it[r \ {Max(r)}] \in NullStateSet
      OBVIOUS
    <3>3. QED
      BY <3>1, <3>2 DEF step
  <2>3. IsFold(it)
    BY <1>1, <2>1, <2>2 DEF Iterates
  <2>4. QED
    BY <2>3
<1>4. PICK it : IsFold(it) /\ FoldLeft(Apply, s, q) = it[DOMAIN q]
  <2>1. FoldLeft(Apply, s, q) = (CHOOSE it : IsFold(it))[DOMAIN q]
    BY DEF FoldLeft, MapThenFoldSet
  <2>2. IsFold(CHOOSE it : IsFold(it))
    <3> HIDE DEF IsFold
    <3> QED BY <1>3
  <2>3. QED
    BY <2>1, <2>2
<1> DEFINE g == [k \in 0..n |-> it[1..k]]
<1>5. g[0] = s
  <2>1. 1..0 = {}
    OBVIOUS
  <2>2. QED
    BY <1>1, <1>4, <2>1
<1>6. ASSUME NEW k \in 1..n PROVE g[k] = Apply(g[k - 1], q[k])
  <2>0. k \in Nat /\ k \in 1..k /\ (1..k) \ {k} = 1..(k - 1) /\ \A i \in 1..k : i \in 1..n
    BY <1>1
  <2>1. 1..k \in SUBSET (DOMAIN q) /\ 1..k # {} /\ (1..k) \ {k} = 1..(k - 1) /\ k \in 1..k /\ k \in Nat
    <3> HIDE DEF n
    <3> QED BY <1>1, <2>0
  <2>2. Max(1..k) = k
    BY <2>1, MaxOfInterval
  <2>3. it[1..k] = Apply(it[1..(k - 1)], q[k])
    BY <1>4, <2>1, <2>2
  <2>4. QED
    BY <1>1, <2>3
<1>7. \A k \in 0..n : g[k] \in NullStateSet
  <2> DEFINE T == {k \in 0..n : g[k] \in NullStateSet}
  <2> HIDE DEF g, n
  <2>1. 0 \in T
    BY <1>1, <1>5
  <2>2. ASSUME NEW k \in 1..n, k - 1 \in T PROVE k \in T
    BY <1>1, <1>6, <2>2, ApplyIsTyped
  <2>3. T = 0..n
    <3>1. T \in SUBSET (0..n)
      BY DEF T
    <3> HIDE DEF T
    <3>2. QED
      BY <1>1, <2>1, <2>2, <3>1, IntervalInduction
  <2>4. QED
    BY <2>3
<1>8. g \in [0..n -> NullStateSet]
  BY <1>7
<1>9. FoldLeft(Apply, s, q) = g[n]
  BY <1>1, <1>4
<1>10. QED
  BY <1>5, <1>6, <1>8, <1>9

\* So is every beginning of it.
LEMMA FoldLeftSteps ==
  ASSUME Members = {}, NEW s \in NullStateSet, NEW q \in Seq(Statements)
  PROVE  /\ FoldLeft(Apply, s, SubSeq(q, 1, 0)) = s
         /\ \A i \in 0..Len(q) : FoldLeft(Apply, s, SubSeq(q, 1, i)) \in NullStateSet
         /\ \A i \in 1..Len(q) :
              FoldLeft(Apply, s, SubSeq(q, 1, i)) = Apply(FoldLeft(Apply, s, SubSeq(q, 1, i - 1)), q[i])
<1>1. PICK g \in [0..Len(q) -> NullStateSet] :
         /\ g[0] = s
         /\ \A k \in 1..Len(q) : g[k] = Apply(g[k - 1], q[k])
         /\ FoldLeft(Apply, s, q) = g[Len(q)]
  BY FoldLeftComputes
<1>2. ASSUME NEW i \in 0..Len(q) PROVE FoldLeft(Apply, s, SubSeq(q, 1, i)) = g[i]
  <2> DEFINE p == SubSeq(q, 1, i)
  <2>1. p \in Seq(Statements) /\ Len(p) = i /\ \A k \in 1..i : p[k] = q[k]
    OBVIOUS
  <2> HIDE DEF p
  <2>2. PICK h \in [0..Len(p) -> NullStateSet] :
         /\ h[0] = s
         /\ \A k \in 1..Len(p) : h[k] = Apply(h[k - 1], p[k])
         /\ FoldLeft(Apply, s, p) = h[Len(p)]
    BY <2>1, FoldLeftComputes
  <2>3. \A k \in 1..i : h[k - 1] = g[k - 1] => h[k] = g[k]
    <3> SUFFICES ASSUME NEW k \in 1..i, h[k - 1] = g[k - 1] PROVE h[k] = g[k]
      OBVIOUS
    <3>1. k \in 1..Len(q) /\ k \in 1..Len(p)
      BY <2>1
    <3>2. QED
      BY <1>1, <2>1, <2>2, <3>1
  <2>4. i \in Nat /\ h[0] = g[0]
    BY <1>1, <2>2
  <2>5. \A k \in 0..i : h[k] = g[k]
    <3> DEFINE T == {k \in 0..i : h[k] = g[k]}
    <3>1. T \in SUBSET (0..i) /\ 0 \in T
      BY <2>4
    <3>2. \A k \in 1..i : k - 1 \in T => k \in T
      BY <2>3, <2>4
    <3>3. T = 0..i
      <4> HIDE DEF T
      <4> QED BY <2>4, <3>1, <3>2, IntervalInduction
    <3>4. QED
      BY <3>3
  <2>6. QED
    BY <2>1, <2>2, <2>4, <2>5 DEF p
<1>3. Len(q) \in Nat
  OBVIOUS
<1>4. QED
  BY <1>1, <1>2, <1>3

\* The state before each statement of a block, from its input on.
LEMMA StatesInTurn ==
  ASSUME Members = {}, NEW b \in Blocks, NEW s \in NullStateSet
  PROVE  /\ StateBefore(b, 1, s) = s
         /\ \A i \in 1..(Len(Body[b]) + 1) : StateBefore(b, i, s) \in NullStateSet
         /\ \A i \in 1..Len(Body[b]) : StateBefore(b, i + 1, s) = Apply(StateBefore(b, i, s), Body[b][i])
<1>1. PICK q \in Seq(Statements) : q = Body[b]
  BY NullStateAssumption
<1>2. Len(q) \in Nat
  OBVIOUS
<1>3. ASSUME NEW i \in 1..(Len(q) + 1)
      PROVE  StateBefore(b, i, s) = FoldLeft(Apply, s, SubSeq(q, 1, i - 1)) /\ i - 1 \in 0..Len(q)
  BY <1>1, <1>2 DEF StateBefore
<1>4. \A i \in 1..Len(q) : i \in 1..(Len(q) + 1) /\ i + 1 \in 1..(Len(q) + 1) /\ (i + 1) - 1 = i
  BY <1>2
<1>5. 1 \in 1..(Len(q) + 1) /\ 1 - 1 = 0
  BY <1>2
<1>6. /\ FoldLeft(Apply, s, SubSeq(q, 1, 0)) = s
      /\ \A i \in 0..Len(q) : FoldLeft(Apply, s, SubSeq(q, 1, i)) \in NullStateSet
      /\ \A i \in 1..Len(q) :
           FoldLeft(Apply, s, SubSeq(q, 1, i)) = Apply(FoldLeft(Apply, s, SubSeq(q, 1, i - 1)), q[i])
  BY FoldLeftSteps
<1>7. \A i \in 1..Len(q) : StateBefore(b, i + 1, s) = Apply(StateBefore(b, i, s), q[i])
  BY <1>3, <1>4, <1>6
<1>8. \A i \in 1..(Len(q) + 1) : StateBefore(b, i, s) \in NullStateSet
  BY <1>3, <1>6
<1>9. QED
  BY <1>1, <1>3, <1>5, <1>6, <1>7, <1>8


LEMMA TransferIsTyped ==
  ASSUME Members = {}, NEW b \in Blocks, NEW s \in NullStateSet
  PROVE  TransferBlock(b, s) \in NullStateSet
<1>1. Len(Body[b]) + 1 \in 1..(Len(Body[b]) + 1)
  BY NullStateAssumption
<1>2. QED
  BY <1>1, StatesInTurn DEF TransferBlock

-----------------------------------------------------------------------------
\* Edges and joins.

\* A subject that holds the result on some paths only is refined alone, else all
\* variables that surely hold it.
LEMMA RefineDecls ==
  ASSUME Members = {}, NEW s \in NullStateSet, NEW ns \in NullStates, NEW subject
  PROVE  /\ Refine(s, ns, subject) \in NullStateSet
         /\ \A d \in Decls :
              LET refined == Refine(s, ns, subject).decls[d]
                  alone == subject \in Decls /\ s.decls[subject].origin = "Maybe"
              IN /\ refined.origin = s.decls[d].origin
                 /\ (IF alone THEN d = subject ELSE s.decls[d].origin = "Yes") => refined.nullState = ns
                 /\ ~(IF alone THEN d = subject ELSE s.decls[d].origin = "Yes") => refined = s.decls[d]
<1>0. Keys = {}
  BY DEF Keys
<1>1. CASE subject \in Decls /\ s.decls[subject].origin = "Maybe"
  <2> DEFINE f == [s.decls[subject] EXCEPT !.nullState = ns]
  <2>1. Refine(s, ns, subject) = [s EXCEPT !.decls[subject] = f]
    BY <1>1 DEF Refine
  <2>2. f \in StoredFacts /\ f.origin = s.decls[subject].origin /\ f.nullState = ns
    BY <1>1 DEF NullStateSet, StoredFacts, PointerFacts
  <2> HIDE DEF f
  <2>3. Refine(s, ns, subject) \in NullStateSet
    BY <1>1, <2>1, <2>2 DEF NullStateSet
  <2>4. \A d \in Decls : Refine(s, ns, subject).decls[d] = IF d = subject THEN f ELSE s.decls[d]
    BY <1>1, <2>1 DEF NullStateSet
  <2>5. QED
    BY <1>1, <2>2, <2>3, <2>4
<1>2. CASE ~(subject \in Decls /\ s.decls[subject].origin = "Maybe")
  <2> DEFINE certain(f) == IF f.origin = "Yes" THEN [f EXCEPT !.nullState = ns] ELSE f
             refined == [d \in Decls |-> certain(s.decls[d])]
  <2>1. Refine(s, ns, subject) =
          [decls |-> refined, exprs |-> [m \in Members |-> certain(s.exprs[m])],
           keys |-> [k \in Keys |-> certain(s.keys[k])]]
    BY <1>2 DEF Refine
  <2>2. \A d \in Decls : /\ certain(s.decls[d]) \in StoredFacts
                         /\ certain(s.decls[d]).origin = s.decls[d].origin
                         /\ s.decls[d].origin = "Yes" => certain(s.decls[d]).nullState = ns
                         /\ s.decls[d].origin # "Yes" => certain(s.decls[d]) = s.decls[d]
    BY DEF NullStateSet, StoredFacts, PointerFacts
  <2> HIDE DEF certain
  <2>3. refined \in [Decls -> StoredFacts]
    BY <2>2
  <2>4. Refine(s, ns, subject) \in NullStateSet
    BY <1>0, <2>1, <2>3 DEF NullStateSet
  <2>5. \A d \in Decls : Refine(s, ns, subject).decls[d] = certain(s.decls[d])
    BY <2>1
  <2>6. QED
    BY <1>2, <2>2, <2>4, <2>5
<1>3. QED
  BY <1>1, <1>2

LEMMA EdgeIsTyped ==
  ASSUME Members = {}, NEW b \in Blocks, NEW i, NEW s \in NullStateSet
  PROVE  StateForSuccessor(b, i, s) \in NullStateSet
<1>1. \A ns \in NullStates : Refine(s, ns, Subject(Condition[b])) \in NullStateSet
  BY RefineDecls
<1>2. QED
  BY <1>1 DEF StateForSuccessor, NullStates

\* Without members State::join has one outcome.
DeclsJoined(s, t) == [s EXCEPT !.decls = JoinDecls(s.decls, t.decls)]

LEMMA OneJoin ==
  ASSUME Members = {}, NEW s \in NullStateSet, NEW t \in NullStateSet
  PROVE  Joins(s, t) = {[merged |-> DeclsJoined(s, t), changed |-> DeclsJoined(s, t) # s]}
<1> DEFINE decls == JoinDecls(s.decls, t.decls)
           start == [merged |-> [s EXCEPT !.decls = decls], changed |-> decls # s.decls]
           recorded == {m \in Members : s.exprs[m] # NoFact \/ t.exprs[m] # NoFact}
<1>1. recorded = {} /\ Keys = {}
  BY DEF Keys
<1>2. Orders(recorded) # {} /\ \A order \in Orders(recorded) : DOMAIN order = {}
  <2>1. Cardinality({}) = 0 /\ 1..0 = {}
    BY FS_EmptySet
  <2>2. Orders(recorded) = [{} -> {}]
    BY <1>1, <2>1 DEF Orders
  <2>3. [x \in {} |-> x] \in [{} -> {}]
    OBVIOUS
  <2>4. QED
    BY <2>2, <2>3
<1>3. Joins(s, t) = {JoinKeys(start, t)}
  <2>1. \A order \in Orders(recorded) :
          FoldLeft(LAMBDA acc, m : JoinExpr(acc, t, m), start, order) = start
    <3> SUFFICES ASSUME NEW order \in Orders(recorded)
                 PROVE  FoldLeft(LAMBDA acc, m : JoinExpr(acc, t, m), start, order) = start
      OBVIOUS
    <3> HIDE DEF start
    <3> DEFINE IsFold(it) == it = [r \in SUBSET (DOMAIN order) |->
                                     IF r = {} THEN start
                                     ELSE JoinExpr(it[r \ {Max(r)}], t, order[Max(r)])]
    <3>1. DOMAIN order = {}
      BY <1>2
    <3>2. IsFold([r \in SUBSET (DOMAIN order) |-> start])
      BY <3>1
    <3>3. FoldLeft(LAMBDA acc, m : JoinExpr(acc, t, m), start, order) = (CHOOSE it : IsFold(it))[DOMAIN order]
      BY DEF FoldLeft, MapThenFoldSet
    <3>4. IsFold(CHOOSE it : IsFold(it))
      <4> HIDE DEF IsFold
      <4> QED BY <3>2
    <3>5. QED
      BY <3>1, <3>3, <3>4
  <2>2. Joins(s, t) = {JoinKeys(FoldLeft(LAMBDA acc, m : JoinExpr(acc, t, m), start, order), t) : order \in Orders(recorded)}
    BY DEF Joins
  <2>3. QED
    BY <1>2, <2>1, <2>2
<1>4. JoinKeys(start, t) = [merged |-> DeclsJoined(s, t), changed |-> DeclsJoined(s, t) # s]
  <2>1. start.merged = [s EXCEPT !.decls = decls] /\ start.changed = (decls # s.decls)
    OBVIOUS
  <2>2. [s EXCEPT !.decls = decls].keys = [k \in Keys |-> JoinFact(start.merged.keys[k], t.keys[k])]
    BY <1>1 DEF NullStateSet
  <2>3. DeclsJoined(s, t) = s <=> decls = s.decls
    BY DEF DeclsJoined, NullStateSet
  <2>4. [start.merged EXCEPT !.keys = start.merged.keys] = DeclsJoined(s, t)
    BY <2>1 DEF DeclsJoined, NullStateSet
  <2> HIDE DEF start, decls
  <2>5. QED
    BY <2>1, <2>2, <2>3, <2>4 DEF JoinKeys
<1>5. QED
  BY <1>3, <1>4

LEMMA OneJoinIsTyped ==
  ASSUME NEW s \in NullStateSet, NEW t \in NullStateSet
  PROVE  /\ DeclsJoined(s, t) \in NullStateSet
         /\ DeclsJoined(s, t).decls = JoinDecls(s.decls, t.decls)
         /\ DeclsJoined(s, t) = s <=> JoinDecls(s.decls, t.decls) = s.decls
<1>1. JoinDecls(s.decls, t.decls) \in [Decls -> StoredFacts]
  BY JoinDeclsType DEF NullStateSet
<1>2. QED
  BY <1>1 DEF DeclsJoined, NullStateSet

\* A state covers another when joining its variables changes nothing.
LEMMA CoversDecls ==
  ASSUME Members = {}, \A s, t \in NullStateSet : JoinOutcomes(s, t) = Joins(s, t),
         NEW x \in NullStateSet, NEW y \in NullStateSet
  PROVE  Covers(x, y) <=> JoinDecls(x.decls, y.decls) = x.decls
<1> DEFINE result == [merged |-> DeclsJoined(x, y), changed |-> DeclsJoined(x, y) # x]
<1>1. JoinOutcomes(x, y) = {result}
  BY OneJoin
<1>2. result.changed = (DeclsJoined(x, y) # x)
  OBVIOUS
<1> HIDE DEF result
<1>3. Covers(x, y) <=> ~result.changed
  BY <1>1 DEF Covers
<1>4. DeclsJoined(x, y) = x <=> JoinDecls(x.decls, y.decls) = x.decls
  BY OneJoinIsTyped
<1>5. QED
  BY <1>2, <1>3, <1>4

\* The laws WorklistEndsAtFixpoint asks for hold of functions of pointer
\* variables only.
THEOREM NullStatesAccumulate ==
  ASSUME Members = {}, \A s, t \in NullStateSet : JoinOutcomes(s, t) = Joins(s, t)
  PROVE  JoinAccumulates(NullStateSet)
<1> DEFINE result(s, t) == [merged |-> DeclsJoined(s, t), changed |-> DeclsJoined(s, t) # s]
<1>outcome. \A s, t \in NullStateSet : JoinOutcomes(s, t) = {result(s, t)}
  BY OneJoin
<1>fields. \A s, t : result(s, t).merged = DeclsJoined(s, t) /\ result(s, t).changed = (DeclsJoined(s, t) # s)
  OBVIOUS
<1> HIDE DEF result
<1>1. ASSUME NEW s \in NullStateSet, NEW t \in NullStateSet
      PROVE  Covers(s, t) <=> JoinDecls(s.decls, t.decls) = s.decls
  BY CoversDecls
<1>2. ASSUME NEW s \in NullStateSet, NEW t \in NullStateSet
      PROVE  /\ Covers(s, s)
             /\ \A joined \in JoinOutcomes(s, t) :
                  /\ joined.merged \in NullStateSet
                  /\ joined.changed \in BOOLEAN
                  /\ ~joined.changed => Covers(s, t)
                  /\ Covers(joined.merged, t)
                  /\ \A e \in NullStateSet : Covers(s, e) => Covers(joined.merged, e)
  <2>0. s.decls \in [Decls -> StoredFacts] /\ t.decls \in [Decls -> StoredFacts]
    BY DEF NullStateSet
  <2>1. Covers(s, s)
    <3>1. \A d \in Decls : JoinFact(s.decls[d], s.decls[d]) = s.decls[d]
      BY <2>0, JoinFactIdempotent
    <3>2. JoinDecls(s.decls, s.decls) = s.decls
      BY <2>0, <3>1 DEF JoinDecls
    <3>3. QED
      BY <1>1, <3>2
  <2>2. DeclsJoined(s, t) \in NullStateSet /\ DeclsJoined(s, t).decls = JoinDecls(s.decls, t.decls)
    BY OneJoinIsTyped
  <2>3. /\ JoinOutcomes(s, t) = {result(s, t)}
        /\ result(s, t).merged = DeclsJoined(s, t)
        /\ result(s, t).changed = (DeclsJoined(s, t) # s)
    BY <1>outcome, <1>fields
  <2>4. ~result(s, t).changed => Covers(s, t)
    BY <1>1, <2>3, OneJoinIsTyped
  <2>5. Covers(DeclsJoined(s, t), t)
    BY <1>1, <2>0, <2>2, JoinedPathIsCovered
  <2>6. ASSUME NEW e \in NullStateSet, Covers(s, e) PROVE Covers(DeclsJoined(s, t), e)
    <3>1. e.decls \in [Decls -> StoredFacts] /\ JoinDecls(s.decls, e.decls) = s.decls
      BY <1>1, <2>6 DEF NullStateSet
    <3>2. JoinDecls(JoinDecls(s.decls, t.decls), e.decls) = JoinDecls(s.decls, t.decls)
      BY <2>0, <3>1, CoveredPathStaysCovered
    <3>3. QED
      BY <1>1, <2>2, <3>2
  <2>8. result(s, t).changed \in BOOLEAN
    BY <2>3
  <2>9. \A joined \in JoinOutcomes(s, t) : joined = result(s, t)
    BY <2>3
  <2>10. QED
    BY <2>1, <2>2, <2>3, <2>4, <2>5, <2>6, <2>8, <2>9
<1>3. QED
  BY <1>2 DEF JoinAccumulates

\* The work list drives the null-state analysis of functions without members
\* (NullDeclsMC substitutes these operators for the parameters of Worklist).
DrivesNullState ==
  /\ Members = {}
  /\ States = NullStateSet
  /\ EntryState = EmptyState
  /\ \A b \in Blocks, s \in NullStateSet :
       /\ Transfer(b, s) = TransferBlock(b, s)
       /\ \A i \in 1..Len(Successors[b]) : OnEdge(b, i, s) = StateForSuccessor(b, i, s)
  /\ \A s, t \in NullStateSet : JoinOutcomes(s, t) = Joins(s, t)

LEMMA NullStateFlowLaws ==
  ASSUME DrivesNullState
  PROVE  FlowIsTyped(States) /\ JoinAccumulates(States)
<1>1. JoinAccumulates(NullStateSet)
  BY NullStatesAccumulate DEF DrivesNullState
<1>2. FlowIsTyped(NullStateSet)
  BY TransferIsTyped, EdgeIsTyped DEF FlowIsTyped, DrivesNullState
<1>3. QED
  BY <1>1, <1>2 DEF DrivesNullState

\* The inputs from which dereferences are diagnosed are a fixpoint, for every
\* control-flow graph and any number of variables.
THEOREM NullStateEndsAtFixpoint ==
  ASSUME DrivesNullState
  PROVE  Spec => []FixpointReached
<1>1. FlowSpec => []FixpointReached
  BY NullStateFlowLaws, WorklistEndsAtFixpoint
<1>2. Init => FlowInit
  BY DEF Init
<1>3. [Next]_vars => [FlowStep]_flowVars
  BY DEF Next, vars, flowVars, StartRun, Execute, Branch
<1>4. QED
  BY <1>1, <1>2, <1>3, PTL DEF Spec, SafetySpec, FlowSpec

-----------------------------------------------------------------------------
\* Along every run the state at its place knows the variables.

\* What an operand may be is known from its fact.
LEMMA OperandKnown ==
  ASSUME Members = {}, NEW s \in NullStateSet, RunTypeOK, NEW result \in {"nil", "obj"},
         \A d \in Decls : s.decls[d].origin = "Yes" => store[d] \in {result, "zero"},
         \A d \in Decls : store[d] = "nil" => Unchecked(s.decls[d]),
         NEW e \in Operands, NEW v \in Values(e)
  PROVE  /\ v \in {"nil", "zero", "obj"}
         /\ v = "nil" => Unchecked(Fact(s, e))
         /\ e # Source /\ Fact(s, e).origin = "Yes" => v \in {result, "zero"}
<1>1. Source # NullConstant /\ Other # NullConstant /\ Other # Source
  BY DEF Source, NullConstant, Other
<1>2. CASE e = NullConstant
  <2>1. v = "zero"
    BY <1>1, <1>2 DEF Values
  <2>2. QED
    BY <2>1
<1>3. CASE e = Source
  <2>1. Fact(s, e) = [origin |-> "Yes", nullState |-> "MaybeNull"]
    BY <1>1, <1>3, NullStateAssumption DEF Fact, Lvalues
  <2>2. v \in {"nil", "obj"}
    BY <1>1, <1>3 DEF Values
  <2>3. QED
    BY <1>3, <2>1, <2>2 DEF Unchecked
<1>4. CASE e = Other
  <2>1. Fact(s, e) = NoFact
    BY <1>1, <1>4, NullStateAssumption DEF Fact, Lvalues
  <2>2. v = "obj"
    BY <1>1, <1>4 DEF Values
  <2>3. QED
    BY <2>1, <2>2 DEF NoFact
<1>5. CASE e \in Decls
  <2>1. e \notin {NullConstant, Source, Other} /\ e \in Cells
    BY <1>5, NullStateAssumption DEF Lvalues, Cells
  <2>2. Fact(s, e) = s.decls[e]
    BY <1>5, <2>1 DEF Fact
  <2>3. v = store[e]
    BY <2>1 DEF Values, Cell
  <2>4. QED
    BY <1>5, <2>1, <2>2, <2>3 DEF RunTypeOK
<1>6. QED
  BY <1>2, <1>3, <1>4, <1>5 DEF Operands, Lvalues

\* And so is what a statement assigns.
LEMMA AssignedKnown ==
  ASSUME Members = {}, NEW s \in NullStateSet, RunTypeOK, NEW result \in {"nil", "obj"},
         \A d \in Decls : s.decls[d].origin = "Yes" => store[d] \in {result, "zero"},
         \A d \in Decls : store[d] = "nil" => Unchecked(s.decls[d]),
         NEW stmt \in Statements, stmt.op # "use", NEW v \in Assigned(stmt)
  PROVE  /\ v \in {"nil", "zero", "obj"}
         /\ v = "nil" => Unchecked(Received(s, stmt))
         /\ ~Calls(stmt) /\ Received(s, stmt).origin = "Yes" => v \in {result, "zero"}
<1>1. CASE stmt.op = "set"
  <2>1. stmt.from \in Operands
    BY <1>1 DEF Statements
  <2>2. v \in Values(stmt.from) /\ Received(s, stmt) = Fact(s, stmt.from)
    BY <1>1 DEF Assigned, Received
  <2>3. ~Calls(stmt) => stmt.from # Source
    BY <1>1 DEF Calls
  <2>4. QED
    BY <2>1, <2>2, <2>3, OperandKnown
<1>2. CASE stmt.op = "choose"
  <2> DEFINE then == BranchFact(s, stmt.then, stmt.subject, "NonNull")
             else == BranchFact(s, stmt.else, stmt.subject, "Null")
             taken == IF store[Cell(stmt.subject)] = "obj" THEN stmt.then ELSE stmt.else
  <2>1. stmt.then \in Operands /\ stmt.else \in Operands /\ stmt.subject \in Decls
    BY <1>2 DEF Statements, Lvalues
  <2>2. v \in Values(taken) /\ Received(s, stmt) = JoinFact(then, else)
    BY <1>2 DEF Assigned, Received, ChoiceFact
  <2>3. /\ then \in StoredFacts /\ else \in StoredFacts
        /\ IF stmt.then = NullConstant THEN then.origin = "No"
           ELSE /\ then.origin = Fact(s, stmt.then).origin
                /\ stmt.then # stmt.subject => then = Fact(s, stmt.then)
        /\ IF stmt.else = NullConstant THEN else.origin = "No"
           ELSE /\ else.origin = Fact(s, stmt.else).origin
                /\ stmt.else # stmt.subject => else = Fact(s, stmt.else)
                /\ else.origin # "No" /\ stmt.else = stmt.subject => else.nullState = "Null"
    <3>1. "NonNull" \in NullStates /\ "Null" \in NullStates
      BY DEF NullStates
    <3>2. /\ then \in StoredFacts
          /\ IF stmt.then = NullConstant THEN then.origin = "No"
             ELSE /\ then.origin = Fact(s, stmt.then).origin
                  /\ stmt.then # stmt.subject => then = Fact(s, stmt.then)
      BY <3>1, BranchFactIsStored
    <3>3. /\ else \in StoredFacts
          /\ IF stmt.else = NullConstant THEN else.origin = "No"
             ELSE /\ else.origin = Fact(s, stmt.else).origin
                  /\ stmt.else # stmt.subject => else = Fact(s, stmt.else)
                  /\ else.origin # "No" /\ stmt.else = stmt.subject => else.nullState = "Null"
      <4>1. /\ else \in StoredFacts
            /\ stmt.else = NullConstant => else.origin = "No"
        BY <3>1, BranchFactIsStored
      <4>2. stmt.else # NullConstant =>
              /\ else.origin = Fact(s, stmt.else).origin
              /\ stmt.else # stmt.subject => else = Fact(s, stmt.else)
        BY <3>1, BranchFactIsStored
      <4>3. stmt.else # NullConstant /\ Fact(s, stmt.else).origin # "No"
              /\ stmt.else = stmt.subject => else.nullState = "Null"
        BY <3>1, BranchFactIsStored
      <4> HIDE DEF else
      <4> QED BY <4>1, <4>2, <4>3
    <3> QED BY <3>2, <3>3
  <2>4. /\ v \in {"nil", "zero", "obj"}
        /\ v = "nil" => Unchecked(Fact(s, taken))
        /\ taken # Source /\ Fact(s, taken).origin = "Yes" => v \in {result, "zero"}
    BY <2>1, <2>2, OperandKnown
  <2>5. Values(stmt.subject) = {store[stmt.subject]} /\ Cell(stmt.subject) = stmt.subject
    BY <2>1, NullStateAssumption DEF Values, Cell, Lvalues
  <2>6. ~Calls(stmt) => taken # Source
    BY <1>2 DEF Calls
  <2>7. JoinFact(then, else).origin = "Yes" => then.origin = "Yes" /\ else.origin = "Yes"
    <3> HIDE DEF then, else
    <3> QED BY <2>3 DEF JoinFact, NoFact, StoredFacts, PointerFacts
  <2>8. Unchecked(then) \/ Unchecked(else) => Unchecked(JoinFact(then, else))
    <3> HIDE DEF then, else
    <3> QED BY <2>3 DEF JoinFact, JoinNullState, NoFact, StoredFacts, PointerFacts, Unchecked
  <2>9. v = "nil" => Unchecked(then) \/ Unchecked(else)
    <3> SUFFICES ASSUME v = "nil" PROVE Unchecked(then) \/ Unchecked(else)
      OBVIOUS
    <3>0. taken # NullConstant
      <4> HIDE DEF taken
      <4>1. Values(NullConstant) = {"zero"}
        BY DEF Values, NullConstant, Source, Other
      <4> QED BY <2>2, <4>1
    <3>1. CASE store[stmt.subject] = "obj"
      <4>1. taken = stmt.then
        BY <2>5, <3>1
      <4>2. stmt.then # stmt.subject
        BY <2>2, <2>5, <3>1, <4>1
      <4>3. QED
        BY <2>3, <2>4, <3>0, <4>1, <4>2
    <3>2. CASE store[stmt.subject] # "obj"
      <4>1. taken = stmt.else
        BY <2>5, <3>2
      <4>2. CASE stmt.else # stmt.subject
        BY <2>3, <2>4, <3>0, <4>1, <4>2
      <4>3. CASE stmt.else = stmt.subject
        <5>1. else.origin # "No"
          BY <2>3, <2>4, <3>0, <4>1 DEF Unchecked
        <5>2. else.nullState = "Null"
          BY <2>3, <3>0, <4>1, <4>3, <5>1
        <5>3. QED
          BY <5>1, <5>2 DEF Unchecked
      <4>4. QED
        BY <4>2, <4>3
    <3>3. QED
      BY <3>1, <3>2
  <2>10. JoinFact(then, else).origin = "Yes" => Fact(s, taken).origin = "Yes"
    BY <2>3, <2>7
  <2> HIDE DEF then, else, taken
  <2>11. QED
    BY <2>2, <2>4, <2>6, <2>8, <2>9, <2>10
<1>3. stmt.op \in {"set", "choose"}
  BY ApplySets
<1>4. QED
  BY <1>1, <1>2, <1>3

\* Whatever is known, a variable is assigned one of the three.
LEMMA AssignedIsTyped ==
  ASSUME Members = {}, RunTypeOK, NEW stmt \in Statements, stmt.op # "use", NEW v \in Assigned(stmt)
  PROVE  v \in {"nil", "zero", "obj"}
<1>1. ASSUME NEW e \in Operands, v \in Values(e) PROVE v \in {"nil", "zero", "obj"}
  <2>1. CASE e \in {NullConstant, Source, Other}
    BY <1>1, <2>1 DEF Values, NullConstant, Source, Other
  <2>2. CASE e \in Decls
    <3>1. e \notin {NullConstant, Source, Other} /\ e \in Cells
      BY <2>2, NullStateAssumption DEF Lvalues, Cells
    <3>2. v = store[e]
      BY <1>1, <3>1 DEF Values, Cell
    <3>3. QED
      BY <3>1, <3>2 DEF RunTypeOK
  <2>3. QED
    BY <1>1, <2>1, <2>2 DEF Operands, Lvalues
<1>2. CASE stmt.op = "set"
  <2>1. stmt.from \in Operands /\ v \in Values(stmt.from)
    BY <1>2 DEF Statements, Assigned
  <2>2. QED
    BY <1>1, <2>1
<1>3. CASE stmt.op = "choose"
  <2>1. stmt.then \in Operands /\ stmt.else \in Operands
    BY <1>3 DEF Statements
  <2>2. v \in Values(stmt.then) \/ v \in Values(stmt.else)
    BY <1>3 DEF Assigned
  <2>3. QED
    BY <1>1, <2>1, <2>2
<1>4. stmt.op \in {"set", "choose"}
  BY DEF Statements
<1>5. QED
  BY <1>2, <1>3, <1>4

\* A statement keeps what the state knows, unless it makes the call while another
\* variable surely holds a result.
LEMMA StatementKnown ==
  ASSUME Members = {}, NEW s \in NullStateSet, RunTypeOK, Knows(s, store),
         NEW stmt \in Statements, stmt.op # "use", NEW v \in Assigned(stmt),
         Calls(stmt) => \A d \in Decls \ {stmt.to} : s.decls[d].origin # "Yes"
  PROVE  /\ [store EXCEPT ![Cell(stmt.to)] = v] \in [Cells -> {"nil", "zero", "obj"}]
         /\ Knows(Apply(s, stmt), [store EXCEPT ![Cell(stmt.to)] = v])
<1> DEFINE after == [store EXCEPT ![Cell(stmt.to)] = v]
           to == stmt.to
           f == Received(s, stmt)
<1>1. PICK result \in {"nil", "obj"} :
        \A d \in Decls : s.decls[d].origin = "Yes" => store[d] \in {result, "zero"}
  BY DEF Knows
<1>2. /\ v \in {"nil", "zero", "obj"}
      /\ v = "nil" => Unchecked(f)
      /\ ~Calls(stmt) /\ f.origin = "Yes" => v \in {result, "zero"}
  BY <1>1, AssignedKnown DEF Knows
<1>3. to \in Decls /\ Apply(s, stmt).decls = [s.decls EXCEPT ![to] = f]
  BY ApplySets
<1>4. Cell(to) = to /\ to \in Cells
  BY <1>3 DEF Cell, Cells
<1>5. after \in [Cells -> {"nil", "zero", "obj"}]
  BY <1>2, <1>4 DEF RunTypeOK
<1>6. \A d \in Decls : /\ after[d] = IF d = to THEN v ELSE store[d]
                       /\ Apply(s, stmt).decls[d] = IF d = to THEN f ELSE s.decls[d]
  BY <1>3, <1>4 DEF RunTypeOK, Cells, NullStateSet
<1>7. \A d \in Decls : after[d] = "nil" => Unchecked(Apply(s, stmt).decls[d])
  BY <1>2, <1>6 DEF Knows
<1>8. \E r \in {"nil", "obj"} :
        \A d \in Decls : Apply(s, stmt).decls[d].origin = "Yes" => after[d] \in {r, "zero"}
  <2> HIDE DEF after, f, to
  <2>1. CASE Calls(stmt)
    <3>1. \A d \in Decls : d # to => s.decls[d].origin # "Yes"
      BY <2>1 DEF to
    <3>2. \A d \in Decls : Apply(s, stmt).decls[d].origin = "Yes" => after[d] \in {v}
      BY <1>6, <3>1
    <3>3. QED
      BY <1>2, <3>2
  <2>2. CASE ~Calls(stmt)
    BY <1>1, <1>2, <1>6, <2>2
  <2>3. QED
    BY <2>1, <2>2
<1>9. QED
  BY <1>5, <1>7, <1>8 DEF Knows

\* Along the branch a condition takes, refining keeps what the state knows.
LEMMA EdgeKnown ==
  ASSUME Members = {}, NEW s \in NullStateSet, Knows(s, store),
         NEW b \in Blocks, NEW i \in TakenEdges(b)
  PROVE  Knows(StateForSuccessor(b, i, s), store)
<1> DEFINE c == Condition[b]
           ns == IF (i = 1) = c.sense THEN "NonNull" ELSE "Null"
<1>1. CASE ~(Len(Successors[b]) = 2 /\ Recognized(s, c))
  BY <1>1 DEF StateForSuccessor
<1>2. CASE Len(Successors[b]) = 2 /\ Recognized(s, c)
  <2>1. c \in [of : Lvalues, form : {"truth", "compare"}, sense : BOOLEAN]
    BY <1>2, NullStateAssumption DEF Recognized
  <2>2. c.of \in Decls /\ c # Opaque /\ c.sense \in BOOLEAN
    BY <1>2, <2>1 DEF Lvalues, Recognized
  <2>3. Subject(c) = c.of /\ Cell(c.of) = c.of
    BY <2>2 DEF Subject, Cell
  <2>4. Fact(s, c.of) = s.decls[c.of] /\ s.decls[c.of].origin # "No"
    <3>1. Fact(s, c.of) = s.decls[c.of]
      BY <2>2, NullStateAssumption DEF Fact, Lvalues
    <3>2. QED
      BY <1>2, <3>1 DEF Recognized
  <2>5. (i = 1) = ((store[c.of] = "obj") = c.sense)
    BY <1>2, <2>2, <2>3 DEF TakenEdges
  <2>6. ns = IF store[c.of] = "obj" THEN "NonNull" ELSE "Null"
    BY <2>2, <2>5
  <2>7. StateForSuccessor(b, i, s) = Refine(s, ns, c.of)
    BY <1>2, <2>3 DEF StateForSuccessor
  <2> DEFINE alone == s.decls[c.of].origin = "Maybe"
  <2> HIDE DEF c, ns
  <2>8. ns \in NullStates
    BY <2>6 DEF NullStates
  <2>9. \A d \in Decls :
          LET refined == Refine(s, ns, c.of).decls[d] IN
          /\ refined.origin = s.decls[d].origin
          /\ (IF alone THEN d = c.of ELSE s.decls[d].origin = "Yes") => refined.nullState = ns
          /\ ~(IF alone THEN d = c.of ELSE s.decls[d].origin = "Yes") => refined = s.decls[d]
    BY <2>2, <2>8, RefineDecls
  <2>10. PICK result \in {"nil", "obj"} :
           \A d \in Decls : s.decls[d].origin = "Yes" => store[d] \in {result, "zero"}
    BY DEF Knows
  <2>11. \A d \in Decls : Refine(s, ns, c.of).decls[d].origin = "Yes" => store[d] \in {result, "zero"}
    BY <2>9, <2>10
  <2>12. ASSUME NEW d \in Decls, store[d] = "nil"
         PROVE  Unchecked(Refine(s, ns, c.of).decls[d])
    <3>1. Unchecked(s.decls[d])
      BY <2>12 DEF Knows
    <3>2. CASE alone
      <4>1. CASE d = c.of
        <5>1. ns = "Null"
          BY <2>6, <2>12, <4>1
        <5>2. QED
          BY <2>9, <3>1, <3>2, <4>1, <5>1 DEF Unchecked
      <4>2. CASE d # c.of
        BY <2>9, <3>1, <3>2, <4>2
      <4>3. QED
        BY <4>1, <4>2
    <3>3. CASE ~alone
      <4>1. s.decls[c.of].origin = "Yes"
        BY <2>2, <2>4, <3>3 DEF NullStateSet, StoredFacts, PointerFacts, Origins
      <4>2. CASE s.decls[d].origin = "Yes"
        <5>1. store[c.of] # "obj"
          BY <2>2, <2>10, <2>12, <4>1, <4>2
        <5>2. ns = "Null"
          BY <2>6, <5>1
        <5>3. QED
          BY <2>9, <3>1, <3>3, <4>2, <5>2 DEF Unchecked
      <4>3. CASE s.decls[d].origin # "Yes"
        BY <2>9, <3>1, <3>3, <4>3
      <4>4. QED
        BY <4>2, <4>3
    <3>4. QED
      BY <3>2, <3>3
  <2>13. Knows(Refine(s, ns, c.of), store)
    BY <2>11, <2>12 DEF Knows
  <2>14. QED
    BY <2>7, <2>13 DEF c, ns
<1>3. QED
  BY <1>1, <1>2

\* A state knows what one that it covers knows.
LEMMA CoveringKnows ==
  ASSUME NEW t \in NullStateSet, NEW s \in NullStateSet,
         JoinDecls(t.decls, s.decls) = t.decls, Knows(s, store)
  PROVE  Knows(t, store)
<1>1. \A d \in Decls : JoinFact(t.decls[d], s.decls[d]) = t.decls[d]
  BY DEF JoinDecls, NullStateSet
<1>2. ASSUME NEW d \in Decls
      PROVE  /\ t.decls[d].origin = "Yes" => s.decls[d].origin = "Yes"
             /\ Unchecked(s.decls[d]) => Unchecked(t.decls[d])
  <2> DEFINE x == t.decls[d]
             y == s.decls[d]
  <2>1. x \in StoredFacts /\ y \in StoredFacts /\ JoinFact(x, y) = x
    BY <1>1 DEF NullStateSet
  <2> HIDE DEF x, y
  <2>2. x.origin = "Yes" => y.origin = "Yes"
    BY <2>1 DEF JoinFact, StoredFacts, PointerFacts, NoFact
  <2>3. Unchecked(y) => Unchecked(x)
    BY <2>1 DEF JoinFact, JoinNullState, StoredFacts, PointerFacts, NoFact, Unchecked
  <2>4. QED
    BY <2>2, <2>3 DEF x, y
<1>3. QED
  BY <1>2 DEF Knows

\* Where a run is.
LEMMA RunningPlace ==
  ASSUME DrivesNullState, FlowTypeOK, RunTypeOK, at # NoRun
  PROVE  /\ Done /\ at = <<at[1], at[2]>> /\ at[1] \in Reached /\ at[1] \in Blocks
         /\ at[2] \in 1..(Len(Body[at[1]]) + 1)
         /\ Len(Body[at[1]]) \in Nat
         /\ input[at[1]] \in NullStateSet
         /\ Now = StateBefore(at[1], at[2], input[at[1]]) /\ Now \in NullStateSet
         /\ InBlock => /\ at[2] \in 1..Len(Body[at[1]])
                       /\ Statement = Body[at[1]][at[2]] /\ Statement \in Statements
         /\ ~InBlock => at[2] = Len(Body[at[1]]) + 1
<1>1. /\ Done /\ at = <<at[1], at[2]>> /\ at[1] \in Reached /\ at[1] \in Blocks
      /\ at[2] \in 1..(Len(Body[at[1]]) + 1) /\ input[at[1]] \in NullStateSet
  BY DEF RunTypeOK, FlowTypeOK, DrivesNullState
<1>2. Body[at[1]] \in Seq(Statements)
  BY <1>1, NullStateAssumption
<1>3. Len(Body[at[1]]) \in Nat /\ \A i \in 1..Len(Body[at[1]]) : Body[at[1]][i] \in Statements
  BY <1>2
<1>4. Now = StateBefore(at[1], at[2], input[at[1]]) /\ Now \in NullStateSet
  <2>1. Now = StateBefore(at[1], at[2], input[at[1]])
    BY DEF Now
  <2>2. QED
    BY <1>1, <2>1, StatesInTurn DEF DrivesNullState
<1>5. InBlock => at[2] \in 1..Len(Body[at[1]]) /\ Statement = Body[at[1]][at[2]]
  BY <1>1, <1>3 DEF InBlock, Statement
<1>6. ~InBlock => at[2] = Len(Body[at[1]]) + 1
  BY <1>1, <1>3 DEF InBlock
<1>7. QED
  BY <1>1, <1>3, <1>4, <1>5, <1>6

\* The first state of a run.
LEMMA NothingKnown ==
  ASSUME NEW variables, \A d \in Decls : variables[d] = "obj"
  PROVE  Knows(EmptyState, variables)
<1>1. \A d \in Decls : EmptyState.decls[d] = NoFact
  BY DEF EmptyState
<1>2. QED
  BY <1>1 DEF Knows, NoFact

LEMMA RunInit ==
  ASSUME DrivesNullState, Init
  PROVE  RunTypeOK /\ KnownInv
<1>1. at = NoRun /\ store = [c \in Cells |-> "obj"]
  BY DEF Init
<1>2. \A d \in Decls : store[d] = "obj"
  BY <1>1 DEF Cells
<1>3. QED
  BY <1>1, <1>2, NothingKnown DEF RunTypeOK, KnownInv, Now

LEMMA StartMoves ==
  ASSUME DrivesNullState, FlowTypeOK, EntryInv, RunTypeOK, KnownInv, StartRun
  PROVE  RunTypeOK' /\ KnownInv'
<1>1. PICK entry \in Entries \cap Reached : at' = <<entry, 1>>
  BY DEF StartRun
<1>2. /\ at = NoRun /\ Done /\ store' = store /\ input' = input /\ active' = active /\ queue' = queue
  BY DEF StartRun, flowVars
<1>3. entry \in Blocks /\ entry # NoBlock /\ input[entry] = EmptyState
  BY WorklistAssumption DEF EntryInv, DrivesNullState
<1>4. at'[1] = entry /\ at'[2] = 1 /\ at' # NoRun /\ at' \in Reached \X Nat
  BY <1>1, <1>3 DEF NoRun
<1>5. Reached' = Reached /\ Done'
  BY <1>2 DEF Reached, Done
<1>6. Len(Body[entry]) \in Nat
  BY <1>3, NullStateAssumption
<1>7. RunTypeOK'
  BY <1>2, <1>4, <1>5, <1>6 DEF RunTypeOK
<1>8. Now' = EmptyState
  <2>1. Now' = StateBefore(entry, 1, EmptyState)
    BY <1>2, <1>3, <1>4 DEF Now
  <2>2. EmptyState \in NullStateSet
    BY WorklistAssumption DEF DrivesNullState
  <2>3. QED
    BY <1>3, <2>1, <2>2, StatesInTurn DEF DrivesNullState
<1>9. Knows(EmptyState, store)
  BY <1>2 DEF KnownInv, Now
<1>10. Knows(Now', store')
  BY <1>2, <1>8, <1>9
<1>11. QED
  BY <1>7, <1>10 DEF KnownInv

LEMMA ExecuteMoves ==
  ASSUME DrivesNullState, FlowTypeOK, RunTypeOK, KnownInv, Execute
  PROVE  RunTypeOK' /\ KnownInv'
<1> DEFINE b == at[1]
           i == at[2]
           s == StateBefore(b, i, input[b])
<1>1. /\ InBlock /\ at # NoRun /\ at' = [at EXCEPT ![2] = @ + 1]
      /\ input' = input /\ active' = active /\ queue' = queue
  BY DEF Execute, InBlock, flowVars
<1>2. /\ Done /\ at = <<b, i>> /\ b \in Reached /\ b \in Blocks
      /\ i \in 1..Len(Body[b]) /\ Len(Body[b]) \in Nat
      /\ Statement = Body[b][i] /\ Statement \in Statements
      /\ input[b] \in NullStateSet /\ Now = s /\ s \in NullStateSet
  BY <1>1, RunningPlace
<1>3. at' = <<b, i + 1>>
  BY <1>1, <1>2
<1>4. /\ at'[1] = b /\ at'[2] = i + 1 /\ at' \in Reached \X Nat /\ at' # NoRun
  BY <1>2, <1>3 DEF NoRun
<1>5. Reached' = Reached /\ Done'
  BY <1>1, <1>2 DEF Reached, Done
<1>6. Recalled' = Recalled
  BY <1>1, <1>5 DEF Recalled
<1>7. Now' = Apply(s, Statement)
  <2>1. Now' = StateBefore(b, i + 1, input[b])
    BY <1>1, <1>4 DEF Now
  <2>2. QED
    BY <1>2, <2>1, StatesInTurn DEF DrivesNullState
<1>8. ~Recalled => Knows(s, store)
  BY <1>1, <1>2 DEF KnownInv
<1>9. CASE Statement.op = "use"
  <2>1. store' = store
    BY <1>9 DEF Execute
  <2>2. Now' = s
    BY <1>2, <1>7, <1>9, ApplySets DEF DrivesNullState
  <2>3. ~Recalled => Knows(Now', store')
    BY <1>8, <2>1, <2>2
  <2>4. RunTypeOK'
    BY <1>2, <1>4, <1>5, <2>1 DEF RunTypeOK
  <2>5. QED
    BY <1>4, <1>6, <2>3, <2>4 DEF KnownInv
<1>10. CASE Statement.op # "use"
  <2>1. PICK v \in Assigned(Statement) : store' = [store EXCEPT ![Cell(Statement.to)] = v]
    BY <1>10 DEF Execute
  <2>2. Recalled \/ (Calls(Statement) => \A d \in Decls \ {Statement.to} : s.decls[d].origin # "Yes")
    BY <1>2 DEF Recalled
  <2>3. store' \in [Cells -> {"nil", "zero", "obj"}] /\ (~Recalled => Knows(Apply(s, Statement), store'))
    <3>1. CASE ~Recalled
      BY <1>2, <1>8, <1>10, <2>1, <2>2, <3>1, StatementKnown DEF DrivesNullState
    <3>2. CASE Recalled
      <4>1. Statement.to \in Decls /\ Statement.op \in {"set", "choose"}
        BY <1>2, <1>10, ApplySets DEF DrivesNullState
      <4>2. v \in {"nil", "zero", "obj"}
        BY <1>2, <1>10, AssignedIsTyped DEF DrivesNullState
      <4>3. QED
        BY <2>1, <3>2, <4>2 DEF RunTypeOK
    <3>3. QED
      BY <3>1, <3>2
  <2>4. ~Recalled => Knows(Now', store')
    BY <1>7, <2>3
  <2>5. RunTypeOK'
    BY <1>2, <1>4, <1>5, <2>3 DEF RunTypeOK
  <2>6. QED
    BY <1>4, <1>6, <2>4, <2>5 DEF KnownInv
<1>11. QED
  BY <1>9, <1>10

LEMMA BranchMoves ==
  ASSUME DrivesNullState, FlowTypeOK, FixpointReached, RunTypeOK, KnownInv, Branch
  PROVE  RunTypeOK' /\ KnownInv'
<1> DEFINE b == at[1]
           s == TransferBlock(b, input[b])
<1>1. PICK i \in TakenEdges(b) : Successors[b][i] # NoBlock /\ at' = <<Successors[b][i], 1>>
  BY DEF Branch
<1> DEFINE c == Successors[b][i]
<1>2. /\ ~InBlock /\ at # NoRun /\ store' = store
      /\ input' = input /\ active' = active /\ queue' = queue
  BY DEF Branch, flowVars
<1>3. /\ Done /\ b \in Reached /\ b \in Blocks /\ input[b] \in NullStateSet
      /\ Now = s /\ s \in NullStateSet
  BY <1>2, RunningPlace DEF TransferBlock
<1>4. i \in 1..Len(Successors[b])
  BY DEF TakenEdges
<1>5. c \in Reached /\ Covers(input[c], StateForSuccessor(b, i, s))
  <2>1. Delivered(b, i, Transfer(b, input[b]))
    BY <1>3, <1>4 DEF FixpointReached
  <2>2. Transfer(b, input[b]) = s /\ OnEdge(b, i, s) = StateForSuccessor(b, i, s)
    BY <1>3, <1>4 DEF DrivesNullState
  <2>3. QED
    BY <1>1, <2>1, <2>2 DEF Delivered
<1>6. c \in Blocks /\ input[c] \in NullStateSet
  BY <1>5 DEF FlowTypeOK, DrivesNullState
<1>7. at'[1] = c /\ at'[2] = 1 /\ at' # NoRun /\ at' \in Reached \X Nat
  BY <1>1, <1>5 DEF NoRun
<1>8. Reached' = Reached /\ Done'
  BY <1>2, <1>3 DEF Reached, Done
<1>9. Recalled' = Recalled
  BY <1>2, <1>8 DEF Recalled
<1>10. RunTypeOK'
  <2>1. Len(Body[c]) \in Nat
    BY <1>6, NullStateAssumption
  <2>2. QED
    BY <1>2, <1>7, <1>8, <2>1 DEF RunTypeOK
<1>11. Now' = input[c]
  <2>1. Now' = StateBefore(c, 1, input[c])
    BY <1>2, <1>7 DEF Now
  <2>2. QED
    BY <1>6, <2>1, StatesInTurn DEF DrivesNullState
<1>12. ~Recalled => Knows(input[c], store)
  <2> SUFFICES ASSUME ~Recalled PROVE Knows(input[c], store)
    OBVIOUS
  <2>1. Knows(s, store)
    BY <1>2, <1>3 DEF KnownInv
  <2>2. Knows(StateForSuccessor(b, i, s), store)
    BY <1>3, <2>1, EdgeKnown DEF DrivesNullState
  <2>3. PICK e \in NullStateSet : e = StateForSuccessor(b, i, s)
    BY <1>3, EdgeIsTyped DEF DrivesNullState
  <2>4. JoinDecls(input[c].decls, e.decls) = input[c].decls
    BY <1>5, <1>6, <2>3, CoversDecls DEF DrivesNullState
  <2>5. QED
    BY <1>6, <2>2, <2>3, <2>4, CoveringKnows
<1>13. QED
  BY <1>2, <1>7, <1>9, <1>10, <1>11, <1>12 DEF KnownInv

\* While the work list runs there is no run, and afterwards it rests.
LEMMA FlowMoves ==
  ASSUME RunTypeOK, KnownInv, FlowStep, UNCHANGED runVars
  PROVE  RunTypeOK' /\ KnownInv'
<1>1. at = NoRun /\ at' = at /\ store' = store
  BY DoneIsFinal DEF RunTypeOK, runVars
<1>2. QED
  BY <1>1 DEF RunTypeOK, KnownInv, Now

LEMMA RunStep ==
  ASSUME DrivesNullState, FlowTypeOK, EntryInv, FixpointReached, RunTypeOK, KnownInv, [Next]_vars
  PROVE  RunTypeOK' /\ KnownInv'
<1>1. CASE FlowStep /\ UNCHANGED runVars
  BY <1>1, FlowMoves
<1>2. CASE StartRun
  BY <1>2, StartMoves
<1>3. CASE Execute
  BY <1>3, ExecuteMoves
<1>4. CASE Branch
  BY <1>4, BranchMoves
<1>5. CASE UNCHANGED vars
  <2>1. at' = at /\ store' = store /\ input' = input /\ active' = active /\ queue' = queue
    BY <1>5 DEF vars, flowVars, runVars
  <2>2. QED
    BY <2>1 DEF RunTypeOK, KnownInv, Now, Recalled, Reached, Done
<1>6. QED
  BY <1>1, <1>2, <1>3, <1>4, <1>5 DEF Next

\* All that is known of the analysis and of the run.
NullStateInv == FlowInv /\ EntryInv /\ RunTypeOK /\ KnownInv

LEMMA NullStateInvariance ==
  ASSUME DrivesNullState
  PROVE  Spec => []NullStateInv
<1> USE DEF NullStateInv
<1>1. Init => NullStateInv
  <2> SUFFICES ASSUME Init PROVE NullStateInv
    OBVIOUS
  <2>1. FlowInit
    BY DEF Init
  <2>2. QED
    BY <2>1, FlowInitInv, EntryInit, RunInit
<1>2. NullStateInv /\ [Next]_vars => NullStateInv'
  <2> SUFFICES ASSUME NullStateInv, [Next]_vars PROVE NullStateInv'
    OBVIOUS
  <2>1. [FlowStep]_flowVars
    BY DEF Next, vars, flowVars, StartRun, Execute, Branch
  <2>2. FlowTypeOK /\ FlowTypeOK' /\ FlowIsTyped(States) /\ JoinAccumulates(States)
    BY <2>1, NullStateFlowLaws, FlowTypeStep DEF FlowInv
  <2>3. FlowInv'
    BY <2>1, <2>2, VisitStep DEF FlowInv
  <2>4. EntryInv'
    BY <2>1, <2>2, EntryStep
  <2>5. RunTypeOK' /\ KnownInv'
    BY <2>2, FlowInvFixpoint, RunStep
  <2>6. QED
    BY <2>3, <2>4, <2>5
<1>3. QED
  BY <1>1, <1>2, PTL DEF Spec, SafetySpec

\* At the beginning of a block the state is the block's input.
LEMMA AtBlockEntry ==
  ASSUME DrivesNullState, NullStateInv, at # NoRun, at[2] = 1
  PROVE  Now = input[at[1]]
<1>1. at[1] \in Blocks /\ input[at[1]] \in NullStateSet /\ Now = StateBefore(at[1], 1, input[at[1]])
  BY RunningPlace DEF NullStateInv, FlowInv
<1>2. QED
  BY <1>1, StatesInTurn DEF DrivesNullState

\* The variables that surely hold the result of the call hold the same one, for
\* any number of aliases, copies, loops and branches: so a check of one of them
\* is a check of all, which is what refine takes it for.
THEOREM AliasesAlwaysAgree ==
  ASSUME DrivesNullState
  PROVE  Spec => []AliasesAgree
<1>1. NullStateInv => AliasesAgree
  <2> SUFFICES ASSUME NullStateInv, at # NoRun, at[2] = 1, ~Recalled,
                      NEW c \in Decls, NEW d \in Decls,
                      input[at[1]].decls[c].origin = "Yes", input[at[1]].decls[d].origin = "Yes"
               PROVE  store[c] = store[d] \/ "zero" \in {store[c], store[d]}
    BY DEF AliasesAgree
  <2>1. Knows(input[at[1]], store)
    BY AtBlockEntry DEF NullStateInv, KnownInv
  <2>2. QED
    BY <2>1 DEF Knows
<1>2. QED
  BY <1>1, NullStateInvariance, PTL

\* The analysis never loses a null result: whatever paths are joined, a variable
\* that holds one is still unchecked in the state of the block a run enters.
THEOREM NullResultsAlwaysKnown ==
  ASSUME DrivesNullState
  PROVE  Spec => []NullResultsKnown
<1>1. NullStateInv => NullResultsKnown
  <2> SUFFICES ASSUME NullStateInv, at # NoRun, at[2] = 1, ~Recalled,
                      NEW d \in Decls, store[d] = "nil"
               PROVE  Unchecked(input[at[1]].decls[d])
    BY DEF NullResultsKnown
  <2>1. Knows(input[at[1]], store)
    BY AtBlockEntry DEF NullStateInv, KnownInv
  <2>2. QED
    BY <2>1 DEF Knows
<1>2. QED
  BY <1>1, NullStateInvariance, PTL

\* Every dereference of a null result happens at a site that is reported, for
\* every control-flow graph over any number of pointer variables, and every run,
\* unless the call is made while an earlier result, or NULL, is taken for it.
THEOREM UnsafeDereferencesAreReported ==
  ASSUME DrivesNullState
  PROVE  Spec => []UnsafeDerefReported
<1>1. NullStateInv => UnsafeDerefReported
  <2> SUFFICES ASSUME NullStateInv, InBlock, Statement.op = "use", Dereferenced = "nil", ~Recalled
               PROVE  Statement.site \in Unsafe
    BY DEF UnsafeDerefReported
  <2> DEFINE b == at[1]
             i == at[2]
             e == Statement.of
  <2>1. at # NoRun
    BY DEF InBlock
  <2>2. /\ b \in Reached /\ i \in 1..Len(Body[b])
        /\ Statement = Body[b][i] /\ Statement \in Statements
        /\ Now = StateBefore(b, i, input[b])
    BY <2>1, RunningPlace DEF NullStateInv, FlowInv
  <2>3. e \in Decls
    BY <2>2 DEF Statements, Lvalues, DrivesNullState
  <2>4. store[e] = "nil"
    BY <2>3 DEF Dereferenced, Cell, DrivesNullState
  <2>5. Unchecked(Now.decls[e])
    BY <2>1, <2>3, <2>4 DEF NullStateInv, KnownInv, Knows
  <2>6. Fact(Now, e) = Now.decls[e]
    BY <2>3, NullStateAssumption DEF Fact, Lvalues, DrivesNullState
  <2>7. Statement.site \in Diagnosed(b)
    BY <2>2, <2>5, <2>6 DEF Diagnosed
  <2>8. QED
    BY <2>2, <2>7 DEF Unsafe
<1>2. QED
  BY <1>1, NullStateInvariance, PTL

-----------------------------------------------------------------------------
\* A function without NULL constants, in which one place makes the call, is not
\* among those that the theorems leave out.

LEMMA OperandUncertain ==
  ASSUME Members = {}, NEW s \in NullStateSet, NothingCertain(s), NEW e \in Operands,
         e # Source, e # NullConstant
  PROVE  Fact(s, e).origin # "Yes"
<1>1. CASE e = Other
  <2>1. Fact(s, e) = NoFact
    BY <1>1, NullStateAssumption DEF Fact, Lvalues
  <2>2. QED
    BY <2>1 DEF NoFact
<1>2. CASE e \in Decls
  <2>1. Fact(s, e) = s.decls[e]
    BY <1>2, NullStateAssumption DEF Fact, Lvalues
  <2>2. QED
    BY <1>2, <2>1 DEF NothingCertain
<1>3. QED
  BY <1>1, <1>2 DEF Operands, Lvalues

LEMMA StatementUncertain ==
  ASSUME Members = {}, NEW s \in NullStateSet, NothingCertain(s), NEW stmt \in Statements,
         ~Calls(stmt), ~AssignsNull(stmt)
  PROVE  NothingCertain(Apply(s, stmt))
<1>1. CASE stmt.op = "use"
  BY <1>1, ApplySets
<1>2. CASE stmt.op = "set"
  <2>1. stmt.from \in Operands /\ stmt.from # Source /\ stmt.from # NullConstant
    BY <1>2 DEF Statements, Calls, AssignsNull
  <2>2. Received(s, stmt).origin # "Yes"
    BY <1>2, <2>1, OperandUncertain DEF Received
  <2>3. Apply(s, stmt).decls = [s.decls EXCEPT ![stmt.to] = Received(s, stmt)]
    BY <1>2, ApplySets
  <2>4. QED
    BY <2>2, <2>3 DEF NothingCertain, NullStateSet
<1>3. CASE stmt.op = "choose"
  <2> DEFINE then == BranchFact(s, stmt.then, stmt.subject, "NonNull")
             else == BranchFact(s, stmt.else, stmt.subject, "Null")
  <2>1. stmt.then \in Operands /\ stmt.then # Source
    BY <1>3 DEF Statements, Calls
  <2>2. stmt.then # NullConstant => Fact(s, stmt.then).origin # "Yes"
    BY <2>1, OperandUncertain
  <2>3. then.origin # "Yes" /\ then \in StoredFacts /\ else \in StoredFacts
    <3>1. "NonNull" \in NullStates /\ "Null" \in NullStates
      BY DEF NullStates
    <3>2. /\ then \in StoredFacts
          /\ then.origin = IF stmt.then = NullConstant THEN "No" ELSE Fact(s, stmt.then).origin
      <4> HIDE DEF then
      <4>1. \A ns \in NullStates :
              /\ BranchFact(s, stmt.then, stmt.subject, ns) \in StoredFacts
              /\ BranchFact(s, stmt.then, stmt.subject, ns).origin =
                   IF stmt.then = NullConstant THEN "No" ELSE Fact(s, stmt.then).origin
        BY BranchFactIsStored
      <4>2. QED
        BY <3>1, <4>1 DEF then
    <3>3. else \in StoredFacts
      BY <3>1, BranchFactIsStored
    <3>4. QED
      BY <2>2, <3>2, <3>3
  <2>4. Received(s, stmt) = JoinFact(then, else)
    BY <1>3 DEF Received, ChoiceFact
  <2> HIDE DEF then, else
  <2>5. Received(s, stmt).origin # "Yes"
    BY <2>3, <2>4 DEF JoinFact, NoFact, StoredFacts, PointerFacts
  <2>6. Apply(s, stmt).decls = [s.decls EXCEPT ![stmt.to] = Received(s, stmt)]
    BY <1>3, ApplySets
  <2>7. QED
    BY <2>5, <2>6 DEF NothingCertain, NullStateSet
<1>4. stmt.op \in {"use", "set", "choose"}
  BY DEF Statements
<1>5. QED
  BY <1>1, <1>2, <1>3, <1>4

\* Up to the first statement that makes the call, or assigns NULL.
LEMMA BlockUncertain ==
  ASSUME Members = {}, NEW b \in Blocks, NEW s \in NullStateSet, NothingCertain(s),
         NEW j \in 1..(Len(Body[b]) + 1),
         \A i \in 1..(j - 1) : ~Calls(Body[b][i]) /\ ~AssignsNull(Body[b][i])
  PROVE  NothingCertain(StateBefore(b, j, s))
<1> DEFINE n == j - 1
           T == {k \in 0..n : NothingCertain(StateBefore(b, k + 1, s))}
<1>1. Body[b] \in Seq(Statements)
  BY NullStateAssumption
<1>2. Len(Body[b]) \in Nat /\ \A i \in 1..Len(Body[b]) : Body[b][i] \in Statements
  BY <1>1
<1>3. n \in Nat /\ j = n + 1 /\ n <= Len(Body[b])
  BY <1>2
<1>4. StateBefore(b, 1, s) = s
  BY StatesInTurn
<1> HIDE DEF n
<1>5. 0 \in T
  BY <1>3, <1>4
<1>6. ASSUME NEW k \in 1..n, k - 1 \in T PROVE k \in T
  <2>1. k \in 1..Len(Body[b]) /\ k \in 1..(Len(Body[b]) + 1) /\ k \in 1..(j - 1) /\ (k - 1) + 1 = k /\ k \in 0..n
    BY <1>2, <1>3
  <2>2. NothingCertain(StateBefore(b, k, s))
    BY <1>6, <2>1
  <2>3. StateBefore(b, k, s) \in NullStateSet /\ StateBefore(b, k + 1, s) = Apply(StateBefore(b, k, s), Body[b][k])
    BY <2>1, StatesInTurn
  <2>4. NothingCertain(StateBefore(b, k + 1, s))
    BY <1>2, <2>1, <2>2, <2>3, StatementUncertain
  <2>5. QED
    BY <2>1, <2>4
<1>7. T = 0..n
  <2>1. T \in SUBSET (0..n)
    BY DEF T
  <2> HIDE DEF T
  <2>2. QED
    BY <1>3, <1>5, <1>6, <2>1, IntervalInduction
<1>8. n \in T
  <2> HIDE DEF T
  <2>1. n \in 0..n
    BY <1>3
  <2>2. QED
    BY <1>7, <2>1
<1>9. QED
  BY <1>3, <1>8

\* What arrives, and what it is joined with, is no more certain.
LEMMA EdgeUncertain ==
  ASSUME Members = {}, NEW b \in Blocks, NEW i, NEW s \in NullStateSet, NothingCertain(s)
  PROVE  NothingCertain(StateForSuccessor(b, i, s))
<1>1. \A ns \in NullStates : \A d \in Decls :
        Refine(s, ns, Subject(Condition[b])).decls[d].origin = s.decls[d].origin
  BY RefineDecls
<1>2. QED
  BY <1>1 DEF StateForSuccessor, NullStates, NothingCertain

LEMMA JoinUncertain ==
  ASSUME Members = {}, NEW s \in NullStateSet, NEW t \in NullStateSet, NothingCertain(s)
  PROVE  \A joined \in Joins(s, t) : NothingCertain(joined.merged)
<1>1. Joins(s, t) = {[merged |-> DeclsJoined(s, t), changed |-> DeclsJoined(s, t) # s]}
  BY OneJoin
<1>2. DeclsJoined(s, t).decls = JoinDecls(s.decls, t.decls)
  BY OneJoinIsTyped
<1>3. \A d \in Decls : JoinFact(s.decls[d], t.decls[d]).origin # "Yes"
  <2>1. \A x \in StoredFacts, y \in StoredFacts : x.origin # "Yes" => JoinFact(x, y).origin # "Yes"
    BY DEF JoinFact, NoFact, StoredFacts, PointerFacts
  <2>2. QED
    BY <2>1 DEF NothingCertain, NullStateSet
<1>4. NothingCertain(DeclsJoined(s, t))
  BY <1>2, <1>3 DEF NothingCertain, JoinDecls, NullStateSet
<1>5. QED
  BY <1>1, <1>4

LEMMA UncertainStep ==
  ASSUME DrivesNullState, FlowTypeOK, UncertainInv, [FlowStep]_flowVars
  PROVE  UncertainInv'
<1> SUFFICES ASSUME ~UsesNull', OneCall' PROVE UncertainInv'
  BY DEF UncertainInv
<1> DEFINE Clean(b) == Calling(b) /\ NothingCertain(input[b])
<1>0. Reached \subseteq Reached'
  BY ReachedStep
<1>1. ~UsesNull /\ OneCall
  <2>1. ~UsesNull
    BY <1>0 DEF UsesNull
  <2>2. OneCall
    BY <1>0 DEF OneCall
  <2>3. QED
    BY <2>1, <2>2
<1>2. /\ Reached \subseteq Blocks /\ \A b \in Reached : input[b] \in NullStateSet
      /\ output \in NullStateSet /\ queue \in Seq(Reached)
      /\ active \in Reached \cup {NoBlock}
  BY DEF FlowTypeOK, DrivesNullState
<1>3. ASSUME Serving
      PROVE  /\ active \in Blocks /\ Arriving = StateForSuccessor(active, edge, output)
             /\ Arriving \in NullStateSet
             /\ NothingCertain(output) => NothingCertain(Arriving)
  <2>1. active \in Blocks /\ edge \in 1..Len(Successors[active])
    BY <1>2, <1>3, WorklistAssumption DEF Serving, FlowTypeOK
  <2>2. Arriving = StateForSuccessor(active, edge, output)
    BY <1>2, <2>1 DEF Arriving, DrivesNullState
  <2>3. QED
    BY <1>2, <2>1, <2>2, EdgeIsTyped, EdgeUncertain DEF DrivesNullState
<1>4. ASSUME Merge
      PROVE  /\ Reached' = Reached /\ output' = output
             /\ \A b \in Reached : NothingCertain(input[b]) => NothingCertain(input'[b])
  <2>1. Target \in Reached /\ Serving /\ output' = output
    BY <1>4 DEF Merge
  <2>2. PICK joined \in JoinOutcomes(input[Target], Arriving) :
          \/ joined.changed /\ input' = SetInput(Target, joined.merged)
          \/ ~joined.changed /\ UNCHANGED <<input, queue>>
    BY <1>4 DEF Merge
  <2>3. input[Target] \in NullStateSet /\ Arriving \in NullStateSet
    BY <1>2, <1>3, <2>1
  <2>4. joined \in Joins(input[Target], Arriving)
    BY <2>2, <2>3 DEF DrivesNullState
  <2>5. NothingCertain(input[Target]) => NothingCertain(joined.merged)
    BY <2>3, <2>4, JoinUncertain DEF DrivesNullState
  <2>6. CASE input' = SetInput(Target, joined.merged)
    BY <2>1, <2>5, <2>6 DEF SetInput, Reached
  <2>7. CASE input' = input
    BY <2>1, <2>7 DEF Reached
  <2>8. QED
    BY <2>1, <2>2, <2>6, <2>7
<1>5. ASSUME FirstArrival
      PROVE  /\ Reached' = Reached \cup {Target} /\ Target \notin Reached /\ output' = output
             /\ input'[Target] = Arriving
             /\ \A b \in Reached : input'[b] = input[b]
  BY <1>5 DEF FirstArrival, SetInput, Reached
<1>6. CASE \E b \in Reached : Clean(b)
  <2>1. PICK b \in Reached : Clean(b)
    BY <1>6
  <2>2. NothingCertain(input'[b])
    <3>1. CASE TakeBlock \/ SkipPruned \/ LeaveBlock \/ UNCHANGED flowVars
      BY <2>1, <3>1 DEF TakeBlock, SkipPruned, LeaveBlock, flowVars
    <3>2. CASE FirstArrival
      BY <1>5, <2>1, <3>2
    <3>3. CASE Merge
      BY <1>4, <2>1, <3>3
    <3>4. QED
      BY <3>1, <3>2, <3>3 DEF FlowStep
  <2>3. QED
    BY <1>0, <2>1, <2>2 DEF UncertainInv
<1>7. CASE /\ \A b \in Reached : ~Calling(b) /\ NothingCertain(input[b])
           /\ NothingCertain(output)
  <2>1. CASE TakeBlock
    <3> DEFINE b == Head(queue)
    <3>1. b \in Reached /\ output' = Transfer(b, input[b]) /\ input' = input
      BY <1>2, <2>1 DEF TakeBlock
    <3>2. b \in Blocks /\ input[b] \in NullStateSet
      BY <1>2, <3>1
    <3>3. Body[b] \in Seq(Statements)
      BY <3>2, NullStateAssumption
    <3>4. Len(Body[b]) + 1 \in 1..(Len(Body[b]) + 1) /\ (Len(Body[b]) + 1) - 1 = Len(Body[b])
      BY <3>3
    <3>5. \A i \in 1..Len(Body[b]) : ~Calls(Body[b][i]) /\ ~AssignsNull(Body[b][i])
      BY <1>1, <1>7, <3>1 DEF Calling, UsesNull
    <3>6. NothingCertain(TransferBlock(b, input[b]))
      BY <1>7, <3>1, <3>2, <3>4, <3>5, BlockUncertain DEF TransferBlock, DrivesNullState
    <3>7. output' = TransferBlock(b, input[b])
      BY <3>1, <3>2 DEF DrivesNullState
    <3>8. NothingCertain(output')
      BY <3>6, <3>7
    <3>9. QED
      BY <1>7, <3>1, <3>8 DEF UncertainInv, Reached
  <2>2. CASE SkipPruned \/ LeaveBlock \/ UNCHANGED flowVars
    <3>1. input' = input /\ output' = output
      BY <2>2 DEF SkipPruned, LeaveBlock, flowVars
    <3>2. QED
      BY <1>7, <3>1 DEF UncertainInv, Reached
  <2>3. CASE FirstArrival
    <3>1. NothingCertain(input'[Target])
      BY <1>3, <1>5, <1>7, <2>3 DEF FirstArrival
    <3>2. CASE Calling(Target)
      BY <1>5, <2>3, <3>1, <3>2 DEF UncertainInv
    <3>3. CASE ~Calling(Target)
      <4>1. \A b \in Reached' : ~Calling(b) /\ NothingCertain(input'[b])
        BY <1>5, <1>7, <2>3, <3>1, <3>3
      <4>2. NothingCertain(output')
        BY <1>5, <1>7, <2>3
      <4>3. QED
        BY <4>1, <4>2 DEF UncertainInv
    <3>4. QED
      BY <3>2, <3>3
  <2>4. CASE Merge
    BY <1>4, <1>7, <2>4 DEF UncertainInv
  <2>5. QED
    BY <2>1, <2>2, <2>3, <2>4 DEF FlowStep
<1>8. QED
  BY <1>1, <1>6, <1>7 DEF UncertainInv

LEMMA UncertainInit ==
  ASSUME DrivesNullState, Init
  PROVE  UncertainInv
<1>1. PICK entry \in Entries : input = [b \in {entry} |-> EmptyState] /\ output = EmptyState
  BY DEF Init, FlowInit, DrivesNullState
<1>2. NothingCertain(EmptyState)
  BY DEF NothingCertain, EmptyState, NoFact
<1>3. Reached = {entry} /\ input[entry] = EmptyState
  BY <1>1 DEF Reached
<1>4. QED
  BY <1>1, <1>2, <1>3 DEF UncertainInv

\* Where one place makes the call, nothing before it in its block does, so that
\* nothing is certain when it is made.
LEMMA UncertainCalls ==
  ASSUME DrivesNullState, FlowTypeOK, UncertainInv
  PROVE  RecalledNeedsNull
<1> SUFFICES ASSUME Recalled, ~UsesNull, OneCall PROVE FALSE
  BY DEF RecalledNeedsNull
<1>1. PICK b \in Reached : \E i \in 1..Len(Body[b]) :
        /\ Calls(Body[b][i])
        /\ \E d \in Decls \ {Body[b][i].to} : StateBefore(b, i, input[b]).decls[d].origin = "Yes"
  BY DEF Recalled
<1>2. PICK i \in 1..Len(Body[b]) :
        /\ Calls(Body[b][i])
        /\ \E d \in Decls \ {Body[b][i].to} : StateBefore(b, i, input[b]).decls[d].origin = "Yes"
  BY <1>1
<1>3. Calling(b)
  BY <1>2 DEF Calling
<1>4. NothingCertain(input[b])
  <2>1. PICK c \in Reached : Calling(c) /\ NothingCertain(input[c])
    BY <1>3 DEF UncertainInv
  <2>2. b = c
    BY <1>2, <2>1 DEF OneCall, Calling
  <2>3. QED
    BY <2>1, <2>2
<1>5. b \in Blocks /\ input[b] \in NullStateSet
  BY DEF FlowTypeOK, DrivesNullState
<1>6. Body[b] \in Seq(Statements)
  BY <1>5, NullStateAssumption
<1>7. Len(Body[b]) \in Nat /\ i \in 1..(Len(Body[b]) + 1) /\ \A k \in 1..(i - 1) : k \in 1..Len(Body[b]) /\ k # i
  BY <1>6
<1>8. \A k \in 1..(i - 1) : ~Calls(Body[b][k]) /\ ~AssignsNull(Body[b][k])
  BY <1>2, <1>7 DEF OneCall, UsesNull
<1>9. NothingCertain(StateBefore(b, i, input[b]))
  BY <1>4, <1>5, <1>7, <1>8, BlockUncertain DEF DrivesNullState
<1>10. QED
  BY <1>2, <1>9 DEF NothingCertain

\* The exemption of the theorems above takes a NULL constant: where the source is
\* one expression, as it is for the analyzer, a result that outlives the next call
\* is not surely the result, since the first time around the loop it was not one.
THEOREM RecallingNeedsNull ==
  ASSUME DrivesNullState
  PROVE  Spec => []RecalledNeedsNull
<1> DEFINE Inv == FlowTypeOK /\ UncertainInv
<1>1. Init => Inv
  <2> SUFFICES ASSUME Init PROVE Inv
    OBVIOUS
  <2>1. FlowInit
    BY DEF Init
  <2>2. QED
    BY <2>1, FlowInitInv, UncertainInit DEF FlowInv
<1>2. Inv /\ [Next]_vars => Inv'
  <2> SUFFICES ASSUME Inv, [Next]_vars PROVE Inv'
    OBVIOUS
  <2>1. [FlowStep]_flowVars
    BY DEF Next, vars, flowVars, StartRun, Execute, Branch
  <2>2. FlowTypeOK'
    BY <2>1, NullStateFlowLaws, FlowTypeStep
  <2>3. UncertainInv'
    BY <2>1, UncertainStep
  <2>4. QED
    BY <2>2, <2>3
<1>3. Inv => RecalledNeedsNull
  BY UncertainCalls
<1>4. QED
  BY <1>1, <1>2, <1>3, PTL DEF Spec, SafetySpec
=============================================================================
