CONSTANTS
    e1 = e1  g1 = g1  kernel = kernel  vim = vim
    NoEnv = NoEnv
    Selections <- MCSelections
    DefaultEnvironment = e1
    Kernel = kernel
    KernelAvailable = TRUE
    Answers <- MCAnswers

SPECIFICATION Spec
INVARIANT TypeOK
INVARIANT KernelRequested
INVARIANT GoalIsCurrentSelection
PROPERTY ImplementsContract
