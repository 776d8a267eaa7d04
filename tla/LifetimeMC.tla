----------------------------- MODULE LifetimeMC -----------------------------
(***************************************************************************)
(* For TLC, over a local pointer p and a parameter q: every function of    *)
(* four statements in a row that starts with an allocation, and functions  *)
(* of two branching shapes                                                 *)
(*                                                                         *)
(*   1:  p = malloc(); s1   2:  s2; if (c) goto 3; else goto 4;            *)
(*   3:  s3; goto 2 or 4;   4:  s4; *q                                     *)
(*                                                                         *)
(* A function is a tuple of numbers: its shape (0: a row, else the block   *)
(* after block 3), whether c reads p, and which statements it is made of.  *)
(***************************************************************************)
EXTENDS Lifetime

To(op, d) == [op |-> op, to |-> d]
From(op, d, e) == [op |-> op, to |-> d, from |-> e]
Of(op, d) == [op |-> op, of |-> d]
Realloc(d, e) == [op |-> "realloc", to |-> d, of |-> e]
Choose(d, e, f) == [op |-> "choose", to |-> d, from |-> e, other |-> f]

Start == To("alloc", "p")
Beginning == <<To("alloc", "q"), From("copy", "q", "p"), From("memcpy", "q", "p")>>
Middle ==
  <<To("alloc", "p"), To("clear", "p"), From("copy", "q", "p"), Choose("q", "p", "q"),
    Realloc("p", "p"), Of("free", "p"), Of("use", "q")>>
Final ==
  <<Of("free", "p"), Of("free", "q"), Of("use", "p"), Of("use", "q")>>
Anything ==
  Middle \o
  <<To("alloc", "q"), From("memcpy", "q", "p"), From("copy", "p", "q"), Of("free", "q"),
    Of("use", "p"), Realloc("q", "p"), Of("freeUsed", "p")>>

Rows == {<<0, 0, i, j, k>> : i, j, k \in 1..14}
Branching ==
  {<<next, test, i, j, k, l>> : next \in {2, 4}, test \in {0, 1},
                                i \in 1..3, j \in 1..7, k \in 1..7, l \in 1..4}

MCBlocks == (Rows \X {1}) \cup (Branching \X (1..4))
MCNoBlock == <<<<0>>, 0>>
MCEntries == {b \in MCBlocks : b[2] = 1}
MCSuccessors ==
  [b \in MCBlocks |->
     CASE b[1][1] = 0 -> <<>>
       [] b[2] = 1    -> <<<<b[1], 2>>>>
       [] b[2] = 2    -> <<<<b[1], 3>>, <<b[1], 4>>>>
       [] b[2] = 3    -> <<<<b[1], b[1][1]>>>>
       [] OTHER       -> <<>>]
BodyOf(f, n) ==
  CASE f[1] = 0 -> <<Start, Anything[f[3]], Anything[f[4]], Anything[f[5]]>>
    [] n = 1    -> <<Start, Beginning[f[3]]>>
    [] n = 2    -> <<Middle[f[4]]>>
    [] n = 3    -> <<Middle[f[5]]>>
    [] OTHER    -> <<Final[f[6]], Of("use", "q")>>
MCBody == [b \in MCBlocks |-> BodyOf(b[1], b[2])]
MCOpaque == "?"
MCCondition == [b \in MCBlocks |-> IF b[2] = 2 /\ b[1][2] = 1 THEN "p" ELSE MCOpaque]
MCDecls == {"p", "q"}
MCParameters == {"q"}
=============================================================================
