------------------------------ MODULE MCSessions ------------------------------
(* An instance of Sessions for TLC.                                            *)
EXTENDS Sessions, TLC

MCOffers == {{SMB202}, {SMB202, SMB210}, {SMB210, SMB300, SMB311}}

Symmetry == Permutations(Conns)
===============================================================================
