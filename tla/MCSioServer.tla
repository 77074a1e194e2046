---------------------------- MODULE MCSioServer ----------------------------
(* Small instance of SioServer for TLC.                                    *)
EXTENDS SioServer, TLC

CONSTANTS e1, e2, n1, n2, r1

MCEsids == {e1, e2}
MCNsps == {n1, n2}
MCRoomNames == {r1}

MCSymmetry == Permutations(MCEsids)

=============================================================================
