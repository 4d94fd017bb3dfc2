---------------------------- MODULE MCRpcClient ----------------------------
(* Instances of RpcClient for TLC.  Calls and calling threads are          *)
(* interchangeable in the runs that check only invariants.                 *)
EXTENDS RpcClient

Symmetry == Permutations(Call) \cup Permutations(Thread)
=============================================================================
