----------------------------- MODULE NullDeclsMC -----------------------------
(***************************************************************************)
(* Every function of one shape over two local pointers, for TLC:           *)
(*                                                                         *)
(*   1:  s1              2:  s2; if (c2) goto 3; else goto 4;              *)
(*   3:  s3; if (c3) goto 2; else goto 4;              4:  s4              *)
(*                                                                         *)
(* One statement is the nullable call, the others copy, overwrite or use   *)
(* a pointer, or start with NULL; a condition tests one or is opaque.  A   *)
(* loop, a guard, an early exit, a check after the use are among them; and *)
(* the functions of NullCasesMC that docs/nullability.md speaks of, and    *)
(* two more: one keeps the previous node of a list, one chooses NULL.      *)
(***************************************************************************)
EXTENDS NullCasesMC

Nothing == <<>>
CallStatement == <<Set("p", Source)>>
Plain(site) ==
  {Nothing, <<Set("q", "p")>>, <<Set("p", "q")>>, <<Set("p", Other)>>,
   <<Choose("q", "p", "p", Other)>>,
   <<Use("p", site)>>, <<Use("q", site)>>}
Tests == {Opaque, Test("p", "truth", TRUE), Test("q", "compare", FALSE)}

\* A pointer may start out as NULL.
First == Plain(1) \cup {<<Set("p", NullConstant)>>, <<Set("q", NullConstant)>>}

\* The block that makes the call, the statements of all, two conditions.
Functions ==
  {f \in [call : 1..4, body : First \X Plain(2) \X Plain(3) \X Plain(4), tests : Tests \X Tests] :
     f.body[f.call] = Nothing}

ShapeBlocks == Functions \X (1..4)
MCBlocks == ShapeBlocks \cup CaseBlocks
MCEntries == {b \in ShapeBlocks : b[2] = 1} \cup DocumentedEntries \cup EntriesOf({"previousNode", "nullArm"})
IsCase(b) == DOMAIN b[1] = {"case"}
MCSuccessors ==
  [b \in MCBlocks |->
     IF IsCase(b) THEN CaseSuccessors(b)
     ELSE CASE b[2] = 1  -> <<<<b[1], 2>>>>
            [] b[2] = 2  -> <<<<b[1], 3>>, <<b[1], 4>>>>
            [] b[2] = 3  -> <<<<b[1], 2>>, <<b[1], 4>>>>
            [] OTHER     -> <<>>]
MCBody ==
  [b \in MCBlocks |->
     IF IsCase(b) THEN BlockOf(b).body
     ELSE IF b[1].call = b[2] THEN CallStatement
     ELSE b[1].body[b[2]]]
MCCondition ==
  [b \in MCBlocks |->
     IF IsCase(b) THEN BlockOf(b).cond
     ELSE CASE b[2] = 2  -> b[1].tests[1]
            [] b[2] = 3  -> b[1].tests[2]
            [] OTHER     -> Opaque]

\* The laws WorklistEndsAtFixpoint asks for hold of the states of functions
\* that do not look at members.
DeclStates ==
  {[EmptyState EXCEPT !.decls = d] : d \in [Decls -> StoredFacts]}
ASSUME DeclarationsAccumulate == JoinAccumulates(DeclStates)
=============================================================================
