--------------------------- MODULE WorklistProofs ---------------------------
(***************************************************************************)
(* For every control-flow graph and every state space whose join           *)
(* accumulates, the work list runs dry only at a fixpoint.                 *)
(*                                                                         *)
(* The invariant has to follow a block through its visit: its output was   *)
(* computed from the input it had when it left the queue, and that input   *)
(* may be replaced while its successors are served, by an edge of its own  *)
(* to itself.  It is then in the queue again, which excuses it.            *)
(***************************************************************************)
EXTENDS Worklist, SequencesExt, WellFoundedInduction, TLAPS

-----------------------------------------------------------------------------
\* What a fold over a sequence computes, for the blocks of statements of the
\* analyses.  The induction is over a set of numbers: the library's induction
\* theorems take operators, which the provers cannot instantiate.

\* Induction: a set of numbers that has 0 and the successor of each is all of Nat.
LEMMA NatSetInduction ==
  ASSUME NEW T \in SUBSET Nat, 0 \in T, \A n \in T : n + 1 \in T
  PROVE  T = Nat
<1> SUFFICES ASSUME Nat \ T # {} PROVE FALSE
  OBVIOUS
<1>1. PICK n \in Nat \ T : \A m \in Nat \ T : ~(<<m, n>> \in OpToRel(<, Nat))
  BY NatLessThanWellFounded, WFMin
<1>2. n # 0 /\ n - 1 \in Nat /\ n = (n - 1) + 1
  OBVIOUS
<1>3. n - 1 \in Nat \ T
  BY <1>2
<1>4. <<n - 1, n>> \in OpToRel(<, Nat)
  BY <1>2 DEF OpToRel
<1>5. QED
  BY <1>1, <1>3, <1>4

\* A set of numbers up to n has a largest one.
LEMMA MaxOfNumbers ==
  ASSUME NEW n \in Nat, NEW s \in SUBSET (1..n), s # {}
  PROVE  Max(s) \in s /\ \A y \in s : Max(s) >= y
<1> DEFINE T == {m \in Nat : \A r \in SUBSET (1..m) : r # {} => \E x \in r : \A y \in r : x >= y}
<1>1. 0 \in T
  <2>1. 1..0 = {}
    OBVIOUS
  <2>2. QED
    BY <2>1
<1>2. ASSUME NEW m \in T PROVE m + 1 \in T
  <2>1. m \in Nat /\ \A r \in SUBSET (1..m) : r # {} => \E x \in r : \A y \in r : x >= y
    OBVIOUS
  <2>2. ASSUME NEW r \in SUBSET (1..(m + 1)), r # {} PROVE \E x \in r : \A y \in r : x >= y
    <3>1. CASE m + 1 \in r
      BY <2>1, <3>1
    <3>2. CASE m + 1 \notin r
      <4>1. r \in SUBSET (1..m)
        BY <2>1, <3>2
      <4>2. QED
        BY <2>1, <2>2, <4>1
    <3>3. QED
      BY <3>1, <3>2
  <2>3. QED
    BY <2>1, <2>2
<1>3. T = Nat
  <2> HIDE DEF T
  <2>1. T \in SUBSET Nat
    BY DEF T
  <2>2. QED
    BY <1>1, <1>2, <2>1, NatSetInduction
<1>4. \E x \in s : \A y \in s : x >= y
  BY <1>3
<1>5. QED
  BY <1>4 DEF Max

\* The largest number up to n is n.
LEMMA MaxOfInterval ==
  ASSUME NEW n \in Nat, NEW s \in SUBSET (1..n), n \in s
  PROVE  Max(s) = n
<1>1. s # {}
  OBVIOUS
<1>2. Max(s) \in s /\ Max(s) >= n
  BY <1>1, MaxOfNumbers
<1>3. Max(s) \in 1..n
  BY <1>2
<1>4. QED
  BY <1>2, <1>3

\* it is what MapThenFoldSet computes for the subsets of 1..n when the k-th
\* step is step[k].
Iterates(it, base, n, step) ==
  \A s \in SUBSET (1..n) :
    it[s] = IF s = {} THEN base ELSE step[Max(s)][it[s \ {Max(s)}]]

\* There is such a function.
LEMMA FoldExists ==
  ASSUME NEW S, NEW base \in S, NEW n \in Nat, NEW step \in [1..n -> [S -> S]]
  PROVE  \E it \in [SUBSET (1..n) -> S] : Iterates(it, base, n, step)
<1> DEFINE T == {m \in Nat : m <= n => \E it \in [SUBSET (1..m) -> S] : Iterates(it, base, m, step)}
<1>1. 0 \in T
  <2>1. SUBSET (1..0) = {{}}
    OBVIOUS
  <2>2. [s \in SUBSET (1..0) |-> base] \in [SUBSET (1..0) -> S]
    OBVIOUS
  <2>3. Iterates([s \in SUBSET (1..0) |-> base], base, 0, step)
    BY <2>1 DEF Iterates
  <2>4. QED
    BY <2>2, <2>3
<1>2. ASSUME NEW m \in T PROVE m + 1 \in T
  <2> SUFFICES ASSUME m + 1 <= n
               PROVE  \E it \in [SUBSET (1..(m + 1)) -> S] : Iterates(it, base, m + 1, step)
    <3>1. m + 1 \in Nat
      OBVIOUS
    <3> QED BY <3>1
  <2>1. m \in Nat /\ m <= n
    OBVIOUS
  <2>2. PICK it \in [SUBSET (1..m) -> S] : Iterates(it, base, m, step)
    BY <2>1
  <2> DEFINE longer == [s \in SUBSET (1..(m + 1)) |->
                          IF m + 1 \in s THEN step[m + 1][it[s \ {m + 1}]] ELSE it[s]]
  <2>3. ASSUME NEW s \in SUBSET (1..(m + 1))
        PROVE  /\ m + 1 \in s => s \ {m + 1} \in SUBSET (1..m)
               /\ m + 1 \notin s => s \in SUBSET (1..m)
    BY <2>1
  <2>4. longer \in [SUBSET (1..(m + 1)) -> S]
    <3>1. \A s \in SUBSET (1..(m + 1)) : longer[s] \in S
      <4> TAKE s \in SUBSET (1..(m + 1))
      <4>1. CASE m + 1 \in s
        <5>1. it[s \ {m + 1}] \in S
          BY <4>1, <2>2, <2>3
        <5>2. QED
          BY <4>1, <5>1, <2>1
      <4>2. CASE m + 1 \notin s
        BY <4>2, <2>2, <2>3
      <4>3. QED
        BY <4>1, <4>2
    <3>2. QED
      BY <3>1
  <2>5. ASSUME NEW s \in SUBSET (1..(m + 1))
        PROVE  longer[s] = IF s = {} THEN base ELSE step[Max(s)][longer[s \ {Max(s)}]]
    <3>1. CASE m + 1 \in s
      <4>1. Max(s) = m + 1
        BY <3>1, <2>1, MaxOfInterval
      <4>2. longer[s \ {m + 1}] = it[s \ {m + 1}]
        BY <3>1, <2>3
      <4>3. QED
        BY <3>1, <4>1, <4>2
    <3>2. CASE m + 1 \notin s
      <4>1. s \in SUBSET (1..m)
        BY <3>2, <2>3
      <4>2. longer[s] = it[s]
        BY <3>2
      <4>3. CASE s = {}
        BY <4>1, <4>2, <4>3, <2>2 DEF Iterates
      <4>4. CASE s # {}
        <5>1. longer[s \ {Max(s)}] = it[s \ {Max(s)}]
          BY <3>2
        <5>2. it[s] = step[Max(s)][it[s \ {Max(s)}]]
          BY <4>1, <4>4, <2>2 DEF Iterates
        <5>3. QED
          BY <4>2, <4>4, <5>1, <5>2
      <4>5. QED
        BY <4>3, <4>4
    <3>3. QED
      BY <3>1, <3>2
  <2>6. QED
    <3> HIDE DEF longer
    <3> QED BY <2>4, <2>5 DEF Iterates
<1>3. n \in T
  <2> HIDE DEF T
  <2>1. T \in SUBSET Nat
    BY DEF T
  <2>2. QED
    BY <1>1, <1>2, <2>1, NatSetInduction
<1>4. n <= n
  OBVIOUS
<1>5. \E it \in [SUBSET (1..n) -> S] : Iterates(it, base, n, step)
  <2> QED BY <1>3, <1>4
<1>6. QED
  BY <1>5

\* Induction up to n.
LEMMA IntervalInduction ==
  ASSUME NEW n \in Nat, NEW T \in SUBSET (0..n), 0 \in T, \A k \in 1..n : k - 1 \in T => k \in T
  PROVE  T = 0..n
<1> DEFINE U == {m \in Nat : m <= n => m \in T}
<1>1. 0 \in U
  OBVIOUS
<1>2. ASSUME NEW m \in U PROVE m + 1 \in U
  <2>1. m \in Nat /\ (m + 1) - 1 = m
    OBVIOUS
  <2>2. m + 1 <= n => m + 1 \in 1..n /\ m \in T
    BY <2>1
  <2>3. QED
    BY <2>1, <2>2
<1>3. U = Nat
  <2> HIDE DEF U
  <2>1. U \in SUBSET Nat
    BY DEF U
  <2>2. QED
    BY <1>1, <1>2, <2>1, NatSetInduction
<1>4. ASSUME NEW k \in 0..n PROVE k \in T
  <2>1. k \in Nat /\ k <= n
    OBVIOUS
  <2>2. QED
    BY <1>3, <2>1
<1>5. QED
  BY <1>4

-----------------------------------------------------------------------------
\* The work list.

USE DEF Reached, Target, Serving, Arriving

\* What Append and Tail do to membership in the queue.
LEMMA QueueAppend ==
  ASSUME NEW S, NEW q \in Seq(S), NEW x
  PROVE  /\ \A b : (\E n \in 1..Len(q) : q[n] = b) => \E n \in 1..Len(Append(q, x)) : Append(q, x)[n] = b
         /\ \E n \in 1..Len(Append(q, x)) : Append(q, x)[n] = x
<1>1. Len(Append(q, x)) = Len(q) + 1 /\ Len(q) \in Nat
  OBVIOUS
<1>2. \A n \in 1..Len(q) : Append(q, x)[n] = q[n]
  OBVIOUS
<1>3. Append(q, x)[Len(q) + 1] = x
  OBVIOUS
<1>4. QED
  BY <1>1, <1>2, <1>3

\* A block of the queue is its head or stays in it.
LEMMA QueueTail ==
  ASSUME NEW S, NEW q \in Seq(S), q # <<>>, NEW b, \E n \in 1..Len(q) : q[n] = b
  PROVE  b = Head(q) \/ \E n \in 1..Len(Tail(q)) : Tail(q)[n] = b
<1>1. PICK n \in 1..Len(q) : q[n] = b
  OBVIOUS
<1>2. CASE n = 1
  BY <1>1, <1>2
<1>3. CASE n # 1
  <2>1. n - 1 \in 1..Len(Tail(q)) /\ Tail(q)[n - 1] = q[n]
    BY <1>3
  <2>2. QED
    BY <1>1, <2>1
<1>4. QED
  BY <1>2, <1>3

\* Types, and a queue that names reached blocks only.
LEMMA FlowTypeStep ==
  ASSUME FlowIsTyped(States), JoinAccumulates(States), FlowTypeOK, [FlowStep]_flowVars
  PROVE  FlowTypeOK'
<1> USE WorklistAssumption DEF FlowTypeOK
<1>1. CASE TakeBlock
  <2>1. Head(queue) \in Reached /\ Tail(queue) \in Seq(Reached)
    BY <1>1 DEF TakeBlock
  <2>2. Transfer(Head(queue), input[Head(queue)]) \in States
    BY <2>1 DEF FlowIsTyped
  <2>3. QED
    BY <1>1, <2>1, <2>2 DEF TakeBlock
<1>2. CASE SkipPruned
  BY <1>2 DEF SkipPruned
<1>3. ASSUME Serving, Target # NoBlock
      PROVE  Target \in Blocks /\ Arriving \in States
  <2>1. active \in Blocks /\ edge \in 1..Len(Successors[active])
    BY <1>3
  <2>2. Successors[active] \in Seq(Blocks \cup {NoBlock})
    BY <2>1
  <2>3. Successors[active][edge] \in Blocks \cup {NoBlock}
    BY <2>1, <2>2
  <2>4. OnEdge(active, edge, output) \in States
    BY <2>1 DEF FlowIsTyped
  <2>5. QED
    BY <1>3, <2>3, <2>4
<1>4. CASE FirstArrival
  <2>1. Target \in Blocks /\ Arriving \in States
    BY <1>3, <1>4 DEF FirstArrival
  <2>2. input' = SetInput(Target, Arriving)
    BY <1>4 DEF FirstArrival
  <2>3. DOMAIN input' = Reached \cup {Target}
    BY <2>2 DEF SetInput
  <2>4. \A b \in DOMAIN input' : input'[b] \in States
    BY <2>1, <2>2, <2>3 DEF SetInput
  <2>5. queue' \in Seq(DOMAIN input')
    BY <1>4, <2>3 DEF FirstArrival
  <2>6. QED
    BY <1>4, <2>1, <2>3, <2>4, <2>5 DEF FirstArrival
<1>5. CASE Merge
  <2>1. Target # NoBlock /\ Target \in Reached /\ Serving
    BY <1>5 DEF Merge
  <2>2. Arriving \in States /\ input[Target] \in States
    BY <1>3, <2>1
  <2>3. PICK joined \in JoinOutcomes(input[Target], Arriving) :
          \/ /\ joined.changed
             /\ input' = SetInput(Target, joined.merged)
             /\ queue' = Append(queue, Target)
          \/ /\ ~joined.changed
             /\ UNCHANGED <<input, queue>>
    BY <1>5 DEF Merge
  <2>4. joined.merged \in States
    BY <2>2 DEF JoinAccumulates
  <2>5. DOMAIN input' = Reached
    BY <2>1, <2>3 DEF SetInput
  <2>6. \A b \in DOMAIN input' : input'[b] \in States
    BY <2>3, <2>4, <2>5 DEF SetInput
  <2>7. queue' \in Seq(DOMAIN input')
    <3>1. queue \in Seq(Reached) /\ Append(queue, Target) \in Seq(Reached)
      BY <2>1
    <3>2. queue' = queue \/ queue' = Append(queue, Target)
      BY <2>3
    <3>3. QED
      BY <3>1, <3>2, <2>5
  <2>8. QED
    BY <1>5, <2>5, <2>6, <2>7 DEF Merge
<1>6. CASE LeaveBlock
  BY <1>6 DEF LeaveBlock
<1>7. CASE UNCHANGED flowVars
  BY <1>7 DEF flowVars
<1>8. QED
  BY <1>1, <1>2, <1>4, <1>5, <1>6, <1>7 DEF FlowStep

\* Every reached block is queued, being visited, or has delivered; and the one
\* being visited is up to date or queued again.
LEMMA VisitStep ==
  ASSUME FlowIsTyped(States), JoinAccumulates(States), FlowInv, FlowTypeOK', [FlowStep]_flowVars
  PROVE  VisitedInv' /\ ActiveInv'
<1> USE WorklistAssumption DEF FlowInv
<1>1. CASE TakeBlock
  <2>1. /\ active' = Head(queue) /\ queue' = Tail(queue) /\ input' = input /\ edge' = 1
        /\ output' = Transfer(active', input[active'])
        /\ active = NoBlock /\ queue # <<>> /\ queue \in Seq(Reached)
    BY <1>1 DEF TakeBlock, FlowTypeOK
  <2>2. ASSUME NEW b, Queued(b)
        PROVE  b = active' \/ Queued(b)'
    <3>1. b = Head(queue) \/ \E n \in 1..Len(Tail(queue)) : Tail(queue)[n] = b
      BY <2>1, <2>2, QueueTail DEF Queued
    <3>2. QED
      BY <2>1, <3>1 DEF Queued
  <2>3. ASSUME NEW b \in Reached, \A i \in 1..Len(Successors[b]) : Delivered(b, i, Transfer(b, input[b]))
        PROVE  \A i \in 1..Len(Successors[b]) : Delivered(b, i, Transfer(b, input[b]))'
    BY <2>1, <2>3 DEF Delivered
  <2>4. \A b \in Reached : b # NoBlock
    BY DEF FlowTypeOK
  <2>5. VisitedInv'
    BY <2>1, <2>2, <2>3, <2>4 DEF VisitedInv
  <2>6. ActiveInv'
    BY <2>1 DEF ActiveInv, FlowTypeOK
  <2>7. QED
    BY <2>5, <2>6
<1>2. CASE SkipPruned
  <2>1. /\ input' = input /\ queue' = queue /\ active' = active /\ output' = output
        /\ edge' = edge + 1 /\ Successors[active][edge] = NoBlock /\ edge \in Nat
    BY <1>2 DEF SkipPruned, FlowTypeOK
  <2>2. \A b, i, out : Delivered(b, i, out) => Delivered(b, i, out)'
    BY <2>1 DEF Delivered
  <2>3. Delivered(active, edge, output)
    BY <2>1 DEF Delivered
  <2>4. VisitedInv'
    BY <2>1, <2>2 DEF VisitedInv, Queued
  <2>5. ActiveInv'
    BY <2>1, <2>2, <2>3 DEF ActiveInv, Queued
  <2>6. QED
    BY <2>4, <2>5
<1>3. CASE LeaveBlock
  <2>1. /\ input' = input /\ queue' = queue /\ output' = output /\ edge' = edge
        /\ active' = NoBlock /\ active # NoBlock /\ edge > Len(Successors[active])
        /\ edge \in Nat /\ active \in Reached
    BY <1>3 DEF LeaveBlock, FlowTypeOK
  <2>2. \A b, i, out : Delivered(b, i, out) => Delivered(b, i, out)'
    BY <2>1 DEF Delivered
  <2>3. Len(Successors[active]) \in Nat
    BY <2>1 DEF FlowTypeOK
  <2>4. \/ Queued(active)
        \/ \A i \in 1..Len(Successors[active]) :
              Delivered(active, i, Transfer(active, input[active]))
    BY <2>1, <2>3 DEF ActiveInv
  <2>5. VisitedInv'
    BY <2>1, <2>2, <2>4 DEF VisitedInv, Queued
  <2>6. ActiveInv'
    BY <2>1 DEF ActiveInv
  <2>7. QED
    BY <2>5, <2>6
<1>4. CASE UNCHANGED flowVars
  BY <1>4 DEF flowVars, VisitedInv, ActiveInv, Queued, Delivered
<1>5. CASE FirstArrival
  <2>0. PICK a, n0, t, o : a = active /\ n0 = edge /\ t = Target /\ o = output
    OBVIOUS
  <2>1. /\ input' = SetInput(Target, Arriving) /\ queue' = Append(queue, Target)
        /\ active' = active /\ output' = output /\ edge' = edge + 1
        /\ Target \notin Reached /\ active # NoBlock /\ edge \in 1..Len(Successors[active])
    BY <1>5 DEF FirstArrival, FlowTypeOK
  <2>2. /\ DOMAIN input' = Reached \cup {Target} /\ input'[Target] = Arriving
        /\ \A b \in Reached : input'[b] = input[b]
    BY <2>1 DEF SetInput
  <2>3. /\ \A b : Queued(b) => Queued(b)'
        /\ Queued(t)'
    <3>1. queue \in Seq(Reached)
      BY DEF FlowTypeOK
    <3>2. \A b : (\E n \in 1..Len(queue) : queue[n] = b)
                => \E n \in 1..Len(queue') : queue'[n] = b
      BY <2>1, <3>1, QueueAppend
    <3>3. \E n \in 1..Len(queue') : queue'[n] = t
      BY <2>0, <2>1, <3>1, QueueAppend
    <3>4. QED
      BY <2>1, <3>2, <3>3 DEF Queued
  <2>4. \A b, i, out : Delivered(b, i, out) => Delivered(b, i, out)'
    BY <2>1, <2>2 DEF Delivered, Covers
  <2>5. Delivered(a, n0, o)'
    <3>1. Arriving \in States
      BY <2>2 DEF FlowTypeOK
    <3>2. Covers(Arriving, Arriving)
      BY <3>1 DEF JoinAccumulates
    <3>3. QED
      BY <2>0, <2>1, <2>2, <3>2 DEF Delivered, Covers
  <2>6. VisitedInv'
    <3>1. ASSUME NEW b \in Reached, ~Queued(b), b # active
          PROVE  \A i \in 1..Len(Successors[b]) : Delivered(b, i, Transfer(b, input[b]))'
      <4>1. PICK x : x = Transfer(b, input[b])
        OBVIOUS
      <4>2. \A i \in 1..Len(Successors[b]) : Delivered(b, i, x)'
        BY <2>4, <3>1, <4>1 DEF VisitedInv
      <4>3. input'[b] = input[b]
        BY <2>2
      <4>4. QED
        BY <4>1, <4>2, <4>3
    <3>2. QED
      BY <2>0, <2>1, <2>2, <2>3, <3>1 DEF VisitedInv
  <2>7. ActiveInv'
    <3>1. active \in Reached
      BY <2>1 DEF FlowTypeOK
    <3>2. CASE Queued(active)
      BY <2>1, <2>3, <3>2 DEF ActiveInv
    <3>3. CASE ~Queued(active)
      <4>1. output = Transfer(active, input[active]) /\ input'[active] = input[active]
        BY <2>1, <2>2, <3>1, <3>3 DEF ActiveInv
      <4>2. \A i \in 1..Len(Successors[a]) : i < n0 + 1 => Delivered(a, i, o)'
        BY <2>0, <2>1, <2>4, <2>5, <3>3 DEF ActiveInv
      <4>3. QED
        BY <2>0, <2>1, <4>1, <4>2 DEF ActiveInv
    <3>4. QED
      BY <3>2, <3>3
  <2>8. QED
    BY <2>6, <2>7
<1>6. CASE Merge
  <2>0. PICK a, n0, t, o : a = active /\ n0 = edge /\ t = Target /\ o = output
    OBVIOUS
  <2>1. PICK joined \in JoinOutcomes(input[Target], Arriving) :
          \/ /\ joined.changed
             /\ input' = SetInput(Target, joined.merged)
             /\ queue' = Append(queue, Target)
          \/ /\ ~joined.changed
             /\ UNCHANGED <<input, queue>>
    BY <1>6 DEF Merge
  <2>2. /\ active' = active /\ output' = output /\ edge' = edge + 1
        /\ Target \in Reached /\ active \in Reached /\ active \in Blocks
        /\ active # NoBlock /\ edge \in 1..Len(Successors[active])
    BY <1>6 DEF Merge, FlowTypeOK
  <2>3. input[Target] \in States /\ Arriving \in States
    BY <2>2 DEF FlowTypeOK, FlowIsTyped
  <2>4. CASE ~joined.changed
    <3>1. input' = input /\ queue' = queue
      BY <2>1, <2>4
    <3>2. \A b, i, out : Delivered(b, i, out) => Delivered(b, i, out)'
      BY <3>1 DEF Delivered
    <3>3. Covers(input[Target], Arriving)
      BY <2>3, <2>4 DEF JoinAccumulates
    <3>4. Delivered(a, n0, o)'
      BY <2>0, <2>2, <3>1, <3>3 DEF Delivered
    <3>5. VisitedInv'
      BY <2>2, <3>1, <3>2 DEF VisitedInv, Queued
    <3>6. ActiveInv'
      <4>1. CASE Queued(active)
        BY <2>2, <3>1, <4>1 DEF ActiveInv, Queued
      <4>2. CASE ~Queued(active)
        <5>1. \A i \in 1..Len(Successors[a]) : i < n0 + 1 => Delivered(a, i, o)'
          BY <2>0, <2>2, <3>2, <3>4, <4>2 DEF ActiveInv
        <5>2. QED
          BY <2>0, <2>2, <3>1, <4>2, <5>1 DEF ActiveInv
      <4>3. QED
        BY <4>1, <4>2
    <3>7. QED
      BY <3>5, <3>6
  <2>5. CASE joined.changed
    <3>1. input' = SetInput(Target, joined.merged) /\ queue' = Append(queue, Target)
      BY <2>1, <2>3, <2>5 DEF JoinAccumulates
    <3>2. /\ DOMAIN input' = Reached /\ input'[Target] = joined.merged
          /\ \A b \in Reached : b # Target => input'[b] = input[b]
      BY <2>2, <3>1 DEF SetInput
    <3>3. queue \in Seq(Reached)
      BY DEF FlowTypeOK
    <3>4. /\ \A b : (\E n \in 1..Len(queue) : queue[n] = b)
                   => \E n \in 1..Len(queue') : queue'[n] = b
          /\ \E n \in 1..Len(queue') : queue'[n] = Target
      BY <3>1, <3>3, QueueAppend
    <3>5. /\ Covers(joined.merged, Arriving)
          /\ \A e \in States : Covers(input[Target], e) => Covers(joined.merged, e)
      BY <2>3 DEF JoinAccumulates
    <3>6. ASSUME NEW b \in Reached, NEW i \in 1..Len(Successors[b]), NEW out \in States,
                 Delivered(b, i, out)
          PROVE  Delivered(b, i, out)'
      <4>1. OnEdge(b, i, out) \in States
        BY DEF FlowIsTyped, FlowTypeOK
      <4>2. QED
        BY <3>2, <3>5, <3>6, <4>1 DEF Delivered
    <3>7. Delivered(a, n0, o)'
      BY <2>0, <2>2, <3>2, <3>5 DEF Delivered, Covers
    <3>8. \A b \in Reached : Transfer(b, input[b]) \in States
      BY DEF FlowTypeOK, FlowIsTyped
    <3>9. VisitedInv'
      <4>1. ASSUME NEW b \in Reached, b # Target, b # active, ~(Queued(b)')
            PROVE  \A i \in 1..Len(Successors[b]) : Delivered(b, i, Transfer(b, input[b]))'
        <5>1. \A i \in 1..Len(Successors[b]) : Delivered(b, i, Transfer(b, input[b]))
          BY <3>4, <4>1 DEF VisitedInv, Queued
        <5>2. input'[b] = input[b]
          BY <3>2, <4>1
        <5>3. QED
          BY <3>6, <3>8, <5>1, <5>2
      <4>2. QED
        BY <2>2, <3>2, <3>4, <4>1 DEF VisitedInv, Queued
    <3>10. ActiveInv'
      <4>1. CASE Queued(active) \/ active = Target
        BY <2>2, <3>4, <4>1 DEF ActiveInv, Queued
      <4>2. CASE ~Queued(active) /\ active # Target
        <5>1. output' = Transfer(active, input'[active])
          BY <2>2, <3>2, <4>2 DEF ActiveInv
        <5>2. output \in States
          BY DEF FlowTypeOK
        <5>3. \A i \in 1..Len(Successors[a]) : i < n0 => Delivered(a, i, o)'
          BY <2>0, <2>2, <3>6, <4>2, <5>2 DEF ActiveInv
        <5>4. \A i \in 1..Len(Successors[a]) : i < n0 + 1 => Delivered(a, i, o)'
          BY <2>0, <2>2, <3>7, <5>3
        <5>5. QED
          BY <2>0, <2>2, <5>1, <5>4 DEF ActiveInv
      <4>3. QED
        BY <4>1, <4>2
    <3>11. QED
      BY <3>9, <3>10
  <2>6. QED
    BY <2>3, <2>4, <2>5 DEF JoinAccumulates
<1>7. QED
  BY <1>1, <1>2, <1>3, <1>4, <1>5, <1>6 DEF FlowStep

\* It holds at the entry block.
LEMMA FlowInitInv ==
  ASSUME FlowInit
  PROVE  FlowInv
<1>1. PICK entry \in Entries :
        /\ input = [b \in {entry} |-> EntryState]
        /\ queue = <<entry>>
        /\ active = NoBlock /\ output = EntryState /\ edge = 1
  BY DEF FlowInit
<1>2. Reached = {entry} /\ queue \in Seq(Reached)
  BY <1>1
<1>3. FlowTypeOK
  BY <1>1, <1>2, WorklistAssumption DEF FlowTypeOK
<1>4. Queued(entry)
  BY <1>1 DEF Queued
<1>5. QED
  BY <1>1, <1>2, <1>3, <1>4 DEF FlowInv, VisitedInv, ActiveInv

\* With an empty work list, every reached block has delivered.
LEMMA FlowInvFixpoint ==
  ASSUME FlowInv
  PROVE  FixpointReached
<1> SUFFICES ASSUME Done, NEW b \in Reached
             PROVE  \A i \in 1..Len(Successors[b]) : Delivered(b, i, Transfer(b, input[b]))
  BY DEF FixpointReached
<1>1. b # NoBlock /\ b # active
  BY WorklistAssumption DEF FlowInv, FlowTypeOK, Done
<1>2. ~Queued(b)
  BY DEF Done, Queued
<1>3. QED
  BY <1>1, <1>2 DEF FlowInv, VisitedInv

\* An entry block, which no edge leads to, keeps the state it started with.
LEMMA EntryInit ==
  ASSUME FlowInit
  PROVE  EntryInv
  BY DEF FlowInit, EntryInv

LEMMA EntryStep ==
  ASSUME FlowTypeOK, EntryInv, [FlowStep]_flowVars
  PROVE  EntryInv'
<1>1. ASSUME Serving PROVE Target \notin Entries
  <2>1. active \in Blocks /\ edge \in 1..Len(Successors[active])
    BY <1>1, WorklistAssumption DEF FlowTypeOK
  <2>2. QED
    BY <2>1, EntryAssumption
<1>2. CASE FirstArrival
  BY <1>1, <1>2 DEF FirstArrival, SetInput, EntryInv
<1>3. CASE Merge
  <2>1. Target \notin Entries /\ Target \in Reached
    BY <1>1, <1>3, WorklistAssumption DEF Merge, FlowTypeOK
  <2>2. \/ input' = input
        \/ \E s : input' = SetInput(Target, s)
    BY <1>3 DEF Merge
  <2>3. QED
    BY <2>1, <2>2 DEF SetInput, EntryInv
<1>4. CASE input' = input
  BY <1>4 DEF EntryInv
<1>5. QED
  BY <1>2, <1>3, <1>4 DEF FlowStep, flowVars, TakeBlock, SkipPruned, LeaveBlock

LEMMA StraightInit ==
  ASSUME FlowInit
  PROVE  StraightInv
  BY DEF FlowInit, StraightInv, Reached

\* Without forks a block's one predecessor sends it what it has already sent, so
\* that nothing changes when it is joined.
LEMMA StraightStep ==
  ASSUME JoinAccumulates(States), FlowTypeOK, StraightInv, [FlowStep]_flowVars
  PROVE  StraightInv'
<1> USE WorklistAssumption DEF FlowTypeOK
<1>1. CASE TakeBlock
  <2>1. /\ active' = Head(queue) /\ input' = input
        /\ output' = Transfer(active', input[active'])
    BY <1>1 DEF TakeBlock
  <2>2. (Forks' <=> Forks) /\ Reached' = Reached
    BY <2>1 DEF Forks, Reached
  <2>3. QED
    BY <2>1, <2>2 DEF StraightInv, ComesFrom
<1>2. ASSUME Serving, Target \in Blocks, ~Forks
      PROVE  /\ active \in Reached /\ edge \in 1..Len(Successors[active])
             /\ Arriving = OnEdge(active, edge, Transfer(active, input[active]))
             /\ Target \in Reached => input[Target] = Arriving
  <2>1. active \in Reached /\ edge \in 1..Len(Successors[active])
    BY <1>2 DEF Serving
  <2>2. Arriving = OnEdge(active, edge, Transfer(active, input[active]))
    BY <1>2 DEF Arriving, StraightInv, Serving
  <2>3. ASSUME Target \in Reached PROVE input[Target] = Arriving
    <3>1. Target \notin Entries
      BY <2>1, EntryAssumption DEF Target
    <3>2. PICK b \in Reached : \E i \in 1..Len(Successors[b]) : ComesFrom(Target, b, i)
      BY <1>2, <2>3, <3>1 DEF StraightInv
    <3>3. PICK i \in 1..Len(Successors[b]) : ComesFrom(Target, b, i)
      BY <3>2
    <3>4. b = active
      BY <1>2, <2>1, <3>3 DEF Forks, ComesFrom, Target
    <3>5. Len(Successors[active]) \in Nat /\ Len(Successors[active]) <= 1
      BY <1>2, <2>1 DEF Forks
    <3>6. i = edge
      BY <2>1, <3>3, <3>4, <3>5
    <3>7. QED
      BY <2>2, <3>3, <3>4, <3>6 DEF ComesFrom
  <2>4. QED
    BY <2>1, <2>2, <2>3
<1>3. CASE FirstArrival
  <2>1. /\ Serving /\ Target \in Blocks /\ Target \notin Reached
        /\ input' = SetInput(Target, Arriving) /\ active' = active /\ output' = output
    BY <1>3 DEF FirstArrival, Serving, Target
  <2>2. /\ Reached' = Reached \cup {Target}
        /\ input'[Target] = Arriving /\ \A c \in Reached : input'[c] = input[c]
    BY <2>1 DEF SetInput, Reached
  <2>3. ~Forks' => ~Forks
    BY <2>2 DEF Forks
  <2>4. SUFFICES ASSUME ~Forks'
                 PROVE  /\ active' # NoBlock => output' = Transfer(active', input'[active'])
                        /\ \A c \in Reached' \ Entries :
                             \E b \in Reached' : \E i \in 1..Len(Successors[b]) : ComesFrom(c, b, i)'
    BY DEF StraightInv
  <2>5. /\ active \in Reached /\ edge \in 1..Len(Successors[active])
        /\ Arriving = OnEdge(active, edge, Transfer(active, input[active]))
    BY <1>2, <2>1, <2>3, <2>4
  <2>6. active' # NoBlock => output' = Transfer(active', input'[active'])
    BY <2>1, <2>2, <2>3, <2>4, <2>5 DEF StraightInv
  <2>7. ASSUME NEW c \in Reached \ Entries
        PROVE  \E b \in Reached' : \E i \in 1..Len(Successors[b]) : ComesFrom(c, b, i)'
    <3>1. PICK b \in Reached : \E i \in 1..Len(Successors[b]) : ComesFrom(c, b, i)
      BY <2>3, <2>4 DEF StraightInv
    <3>2. PICK i \in 1..Len(Successors[b]) : ComesFrom(c, b, i)
      BY <3>1
    <3>3. ComesFrom(c, b, i)'
      BY <2>2, <3>2 DEF ComesFrom
    <3>4. QED
      BY <2>2, <3>3
  <2>8. PICK c, b, i : c = Target /\ b = active /\ i = edge
    OBVIOUS
  <2>9. b \in Reached' /\ i \in 1..Len(Successors[b]) /\ Reached' = Reached \cup {c}
    BY <2>2, <2>5, <2>8
  <2>10. ComesFrom(c, b, i)'
    BY <2>2, <2>5, <2>8 DEF ComesFrom, Target
  <2>11. QED
    BY <2>6, <2>7, <2>9, <2>10
<1>4. CASE Merge
  <2>1. Serving /\ Target \in Reached /\ active' = active /\ output' = output /\ Target \in Blocks
    BY <1>4 DEF Merge
  <2>2. \/ input' = input
        \/ \E joined \in JoinOutcomes(input[Target], Arriving) :
             joined.changed /\ input' = SetInput(Target, joined.merged)
    BY <1>4 DEF Merge
  <2>3. Reached' = Reached /\ (Forks' <=> Forks)
    <3>1. Reached' = Reached
      BY <2>1, <2>2 DEF SetInput, Reached
    <3>2. QED
      BY <3>1 DEF Forks
  <2>4. ASSUME ~Forks PROVE input' = input
    <3>1. input[Target] = Arriving /\ input[Target] \in States
      BY <1>2, <2>1, <2>4
    <3>2. Covers(input[Target], Arriving)
      BY <3>1 DEF JoinAccumulates
    <3>3. QED
      BY <2>2, <3>2 DEF Covers
  <2>5. QED
    BY <2>1, <2>3, <2>4 DEF StraightInv, ComesFrom
<1>5. CASE input' = input /\ active' = active /\ output' = output
  BY <1>5 DEF StraightInv, ComesFrom, Forks, Reached
<1>6. CASE LeaveBlock
  <2>1. input' = input /\ active' = NoBlock
    BY <1>6 DEF LeaveBlock
  <2>2. QED
    BY <2>1 DEF StraightInv, ComesFrom, Forks, Reached
<1>7. QED
  BY <1>1, <1>3, <1>4, <1>5, <1>6 DEF FlowStep, flowVars, SkipPruned

\* When the work list is empty the analysis has come to its end.
LEMMA DoneIsFinal ==
  ASSUME Done, FlowStep
  PROVE  FALSE
  BY DEF Done, FlowStep, TakeBlock, SkipPruned, FirstArrival, Merge, LeaveBlock

\* What is reached stays reached, and a block newly reached is a successor of one.
LEMMA ReachedStep ==
  ASSUME FlowTypeOK, [FlowStep]_flowVars
  PROVE  /\ Reached \subseteq Reached'
         /\ \A c \in Reached' \ Reached :
              c # NoBlock /\ \E b \in Reached : \E i \in 1..Len(Successors[b]) : Successors[b][i] = c
<1> USE WorklistAssumption DEF FlowTypeOK
<1>1. CASE FirstArrival
  <2>1. active \in Reached /\ edge \in 1..Len(Successors[active]) /\ Target # NoBlock
    BY <1>1 DEF FirstArrival, Serving
  <2>2. Reached' = Reached \cup {Target}
    BY <1>1 DEF FirstArrival, SetInput, Reached
  <2>3. QED
    BY <2>1, <2>2 DEF Target
<1>2. CASE Merge
  <2>1. Target \in Reached
    BY <1>2 DEF Merge
  <2>2. Reached' = Reached
    BY <1>2, <2>1 DEF Merge, SetInput, Reached
  <2>3. QED
    BY <2>2
<1>3. CASE TakeBlock \/ SkipPruned \/ LeaveBlock \/ UNCHANGED flowVars
  BY <1>3 DEF TakeBlock, SkipPruned, LeaveBlock, flowVars, Reached
<1>4. QED
  BY <1>1, <1>2, <1>3 DEF FlowStep

\* An input goes on covering what it covers.
LEMMA CoversStep ==
  ASSUME FlowIsTyped(States), JoinAccumulates(States), FlowTypeOK, [FlowStep]_flowVars,
         NEW b \in Reached, NEW s \in States, Covers(input[b], s)
  PROVE  Covers(input'[b], s)
<1> USE WorklistAssumption DEF FlowTypeOK
<1>1. CASE FirstArrival
  <2>1. input'[b] = input[b]
    BY <1>1 DEF FirstArrival, SetInput
  <2>2. QED
    BY <2>1
<1>2. CASE Merge
  <2>1. active \in Reached /\ edge \in 1..Len(Successors[active]) /\ Target \in Reached
    BY <1>2 DEF Merge, Serving
  <2>2. Arriving \in States /\ input[Target] \in States
    BY <2>1 DEF Arriving, FlowIsTyped
  <2>3. PICK joined \in JoinOutcomes(input[Target], Arriving) :
          input' = SetInput(Target, joined.merged) \/ input' = input
    BY <1>2 DEF Merge
  <2>4. Covers(input[Target], s) => Covers(joined.merged, s)
    BY <2>2 DEF JoinAccumulates
  <2>5. input'[b] = input[b] \/ (b = Target /\ input'[b] = joined.merged)
    BY <2>3 DEF SetInput
  <2>6. QED
    BY <2>4, <2>5
<1>3. CASE TakeBlock \/ SkipPruned \/ LeaveBlock \/ UNCHANGED flowVars
  <2>1. input' = input
    BY <1>3 DEF TakeBlock, SkipPruned, LeaveBlock, flowVars
  <2>2. QED
    BY <2>1
<1>4. QED
  BY <1>1, <1>2, <1>3 DEF FlowStep

\* The invariant holds from the entry block on.
THEOREM FlowInvariance ==
  ASSUME FlowIsTyped(States), JoinAccumulates(States)
  PROVE  FlowSpec => []FlowInv
<1>1. FlowInit => FlowInv
  BY FlowInitInv
<1>2. FlowInv /\ [FlowStep]_flowVars => FlowInv'
  <2> SUFFICES ASSUME FlowInv, [FlowStep]_flowVars PROVE FlowInv'
    OBVIOUS
  <2>1. FlowTypeOK'
    BY FlowTypeStep DEF FlowInv
  <2>2. QED
    BY <2>1, VisitStep DEF FlowInv
<1>3. QED
  BY <1>1, <1>2, PTL DEF FlowSpec

\* When the work list is empty the inputs are a fixpoint, whatever the function
\* and however its blocks are connected.
THEOREM WorklistEndsAtFixpoint ==
  ASSUME FlowIsTyped(States), JoinAccumulates(States)
  PROVE  FlowSpec => []FixpointReached
<1>1. FlowInv => FixpointReached
  BY FlowInvFixpoint
<1>2. QED
  BY <1>1, FlowInvariance, PTL
=============================================================================
