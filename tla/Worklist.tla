------------------------------ MODULE Worklist ------------------------------
(***************************************************************************)
(* The forward data-flow driver of the null-state analysis.  The loop of   *)
(* unsafe_dereferences_for is repeated word for word in                    *)
(* is_source_nullable_at and is_expression_nullable_at: a FIFO queue of    *)
(* blocks, an optional input state per block, and a successor queued again *)
(* whenever State::join says that it changed the input.  What a state is,  *)
(* what a block does to it and how two states are joined are parameters.   *)
(***************************************************************************)
EXTENDS Naturals, Sequences

CONSTANTS
  Blocks,              \* basic blocks of the functions analysed
  NoBlock,             \* a pruned (null) successor
  Entries,             \* the entry block of each function
  Successors,          \* block -> sequence of its successors
  States,              \* abstract states
  EntryState,          \* State{}
  Transfer(_, _),      \* transfer_block
  OnEdge(_, _, _),     \* state_for_successor
  JoinOutcomes(_, _)   \* what State::join may leave and return

ASSUME WorklistAssumption ==
  /\ NoBlock \notin Blocks
  /\ Entries \subseteq Blocks
  /\ Successors \in [Blocks -> Seq(Blocks \cup {NoBlock})]
  /\ EntryState \in States

\* The entry block of a Clang CFG has no predecessor.
ASSUME EntryAssumption ==
  \A b \in Blocks : \A i \in 1..Len(Successors[b]) : Successors[b][i] \notin Entries

VARIABLES
  input,               \* reached blocks -> input state
  queue,               \* the work list
  active,              \* the block being visited, or NoBlock
  output,              \* its output state
  edge                 \* index of the successor to serve next

flowVars == <<input, queue, active, output, edge>>

FlowInit ==
  \E entry \in Entries :
    /\ input = [b \in {entry} |-> EntryState]
    /\ queue = <<entry>>
    /\ active = NoBlock
    /\ output = EntryState
    /\ edge = 1

Reached == DOMAIN input

\* inputs[b] = s
SetInput(b, s) == [c \in Reached \cup {b} |-> IF c = b THEN s ELSE input[c]]

-----------------------------------------------------------------------------
\* Slips that a property must notice.

MergeUnqueued ==         \* a changed input is stored, its block not queued again
  /\ active # NoBlock /\ edge <= Len(Successors[active])
  /\ Successors[active][edge] \in Reached
  /\ \E joined \in JoinOutcomes(input[Successors[active][edge]], OnEdge(active, edge, output)) :
       input' = SetInput(Successors[active][edge], joined.merged)
  /\ edge' = edge + 1
  /\ UNCHANGED <<queue, active, output>>

TakeBlockUnpopped ==     \* the head is looked at and stays in the queue
  /\ active = NoBlock /\ queue # <<>>
  /\ active' = Head(queue)
  /\ output' = Transfer(Head(queue), input[Head(queue)])
  /\ edge' = 1
  /\ UNCHANGED <<input, queue>>

-----------------------------------------------------------------------------
\* The next block leaves the queue and is transferred.
TakeBlock ==
  /\ active = NoBlock /\ queue # <<>>
  /\ active' = Head(queue)
  /\ queue' = Tail(queue)
  /\ output' = Transfer(Head(queue), input[Head(queue)])
  /\ edge' = 1
  /\ UNCHANGED input

Target == Successors[active][edge]

Serving == active # NoBlock /\ edge <= Len(Successors[active])

\* What flows along the edge being served.
Arriving == OnEdge(active, edge, output)

\* `successor != nullptr`
SkipPruned ==
  /\ Serving /\ Target = NoBlock
  /\ edge' = edge + 1
  /\ UNCHANGED <<input, queue, active, output>>

\* The successor has no input yet.
FirstArrival ==
  /\ Serving /\ Target # NoBlock /\ Target \notin Reached
  /\ input' = SetInput(Target, Arriving)
  /\ queue' = Append(queue, Target)
  /\ edge' = edge + 1
  /\ UNCHANGED <<active, output>>

\* merged.join(edge): the input is replaced only when join says it changed.
Merge ==
  /\ Serving /\ Target \in Reached
  /\ \E joined \in JoinOutcomes(input[Target], Arriving) :
       \/ /\ joined.changed
          /\ input' = SetInput(Target, joined.merged)
          /\ queue' = Append(queue, Target)
       \/ /\ ~joined.changed
          /\ UNCHANGED <<input, queue>>
  /\ edge' = edge + 1
  /\ UNCHANGED <<active, output>>

\* Every successor was served.
LeaveBlock ==
  /\ active # NoBlock /\ edge > Len(Successors[active])
  /\ active' = NoBlock
  /\ UNCHANGED <<input, queue, output, edge>>

FlowStep == TakeBlock \/ SkipPruned \/ FirstArrival \/ Merge \/ LeaveBlock

Done == active = NoBlock /\ queue = <<>>

FlowSpec == FlowInit /\ [][FlowStep]_flowVars

-----------------------------------------------------------------------------
FlowTypeOK ==
  /\ Reached \subseteq Blocks
  /\ \A b \in Reached : input[b] \in States
  /\ queue \in Seq(Reached)
  /\ active \in Reached \cup {NoBlock}
  /\ output \in States
  /\ edge \in Nat \ {0}

\* Joining s into t changes nothing.
Covers(t, s) == \A joined \in JoinOutcomes(t, s) : ~joined.changed

\* The i-th successor of b has received what out sends along that edge.
Delivered(b, i, out) ==
  LET target == Successors[b][i] IN
  target # NoBlock => target \in Reached /\ Covers(input[target], OnEdge(b, i, out))

\* The inputs the diagnosing pass starts from are a fixpoint: no reached block
\* has anything left to say to a successor.  Dereferences judged from inputs
\* that are not would be judged on some paths only.
FixpointReached ==
  Done => \A b \in Reached : \A i \in 1..Len(Successors[b]) :
            Delivered(b, i, Transfer(b, input[b]))

\* The analysis of every function comes to an end.
AnalysisEnds == <>Done

-----------------------------------------------------------------------------
\* The inductive invariant behind FixpointReached.

Queued(b) == \E n \in 1..Len(queue) : queue[n] = b

\* A reached block waits in the queue, is being visited with its present input,
\* or has told its successors all it has to say.
VisitedInv ==
  \A b \in Reached :
    \/ Queued(b)
    \/ b = active
    \/ \A i \in 1..Len(Successors[b]) : Delivered(b, i, Transfer(b, input[b]))

\* The block being visited is up to date and its served edges are delivered,
\* unless its input changed under it and it is queued again.
ActiveInv ==
  active # NoBlock =>
    \/ Queued(active)
    \/ /\ output = Transfer(active, input[active])
       /\ \A i \in 1..Len(Successors[active]) : i < edge => Delivered(active, i, output)

FlowInv == FlowTypeOK /\ VisitedInv /\ ActiveInv

\* Nothing is joined into the input of an entry block.
EntryInv == \A entry \in Entries \cap Reached : input[entry] = EntryState

\* Somewhere a reached block has two successors, or two reached blocks have the
\* same one.
Forks ==
  \E b \in Reached :
    \/ Len(Successors[b]) > 1
    \/ \E c \in Reached \ {b} : \E i \in 1..Len(Successors[b]), j \in 1..Len(Successors[c]) :
         Successors[b][i] = Successors[c][j] /\ Successors[b][i] # NoBlock

\* c's input is what one reached block sends along one edge.
ComesFrom(c, b, i) ==
  Successors[b][i] = c /\ input[c] = OnEdge(b, i, Transfer(b, input[b]))

\* Without forks, joining never loses anything: every input is what the one
\* predecessor sends.
StraightInv ==
  ~Forks =>
    /\ active # NoBlock => output = Transfer(active, input[active])
    /\ \A c \in Reached \ Entries :
         \E b \in Reached : \E i \in 1..Len(Successors[b]) : ComesFrom(c, b, i)

-----------------------------------------------------------------------------
\* What the theorems of WorklistProofs ask of a state space.  NullStateProofs
\* establishes the laws for the facts of pointer variables.

FlowIsTyped(S) ==
  \A b \in Blocks : \A s \in S :
    /\ Transfer(b, s) \in S
    /\ \A i \in 1..Len(Successors[b]) : OnEdge(b, i, s) \in S

\* join tells the truth, keeps what it joined, and forgets nothing.
JoinAccumulates(S) ==
  \A s, t \in S :
    /\ Covers(s, s)
    /\ \A joined \in JoinOutcomes(s, t) :
         /\ joined.merged \in S
         /\ joined.changed \in BOOLEAN
         /\ ~joined.changed => Covers(s, t)
         /\ Covers(joined.merged, t)
         /\ \A e \in S : Covers(s, e) => Covers(joined.merged, e)
=============================================================================
