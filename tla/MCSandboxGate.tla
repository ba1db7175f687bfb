---------------------------- MODULE MCSandboxGate ----------------------------
EXTENDS SandboxGate, TLC

Symmetry == Permutations(Executions)
=============================================================================
