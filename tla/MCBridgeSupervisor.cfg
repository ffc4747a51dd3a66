CONSTANT Cores <- MCCores

SPECIFICATION Spec

INVARIANT NoUnsupervisedCore
