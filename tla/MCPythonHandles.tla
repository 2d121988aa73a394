-------------------------- MODULE MCPythonHandles ---------------------------
\* A Python thread and a client in C, three blocks, a class Python wraps and
\* the detections it does not wrap.  No property distinguishes the blocks.
EXTENDS PythonHandles, TLC

BlockSymmetry == Permutations(Blocks)

=============================================================================
