--------------------------- MODULE MCEpollServer ---------------------------
(* Instances of EpollServer for TLC.  Connections are interchangeable in   *)
(* the runs that check only invariants.                                    *)
EXTENDS EpollServer, TLC

ConnSymmetry == Permutations(Conn)
=============================================================================
