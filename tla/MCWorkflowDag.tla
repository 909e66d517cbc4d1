---------------------------- MODULE MCWorkflowDag ----------------------------
EXTENDS WorkflowDag, TLC

\* Two independent steps, or the second after the first.
NoDeps == [o \in Op |-> {}]
ChainDeps == [o \in Op |-> {p \in Op : p = o - 1}]

\* All steps work on one path; only the effectful ones write it.
ReadersShare == {<<o, p>> \in Op \X Op : o \in Effectful \/ p \in Effectful}

\* Every step works on a path of its own.
OwnPaths == {<<o, o>> : o \in Effectful}

\* Executions differ in nothing but their lease token.
Symmetry == Permutations(Exec)
=============================================================================
