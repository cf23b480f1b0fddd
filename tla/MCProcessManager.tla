-------------------------- MODULE MCProcessManager --------------------------
(* ProcessManager with interchangeable requests.                            *)
EXTENDS ProcessManager, TLC

\* Nothing reads the pid store while the agent runs: states that differ in it
\* only count as one.
WithoutStore == <<maps, call, rec, loop, kids, last>>

CallSymmetry == Permutations(Calls)
=============================================================================
