SPECIFICATION FairSpec
CONSTANTS
  f1 = f1
  f2 = f2
  f3 = f3
  Failing = Failing
  Opaque = Opaque
  Functions <- MCFunctions
  Programs <- MCPrograms
INVARIANTS VerdictsAreGrounded AcyclicVerdictsMatchBodies
PROPERTY VerdictsAreFinal EveryQuestionIsAnswered
