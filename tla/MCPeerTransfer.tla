--------------------------- MODULE MCPeerTransfer ---------------------------
(* Model values for the runs of PeerTransfer.              *)
EXTENDS PeerTransfer

CONSTANTS d1, d2, x, y

MCDevices == {d1, d2}
(* Group ids as bit masks: 3 has a bit in common with 1 and with 2.        *)
MCOverlapping == {1, 2, 3} \X {1, 2, 3} \ {<<1, 2>>, <<2, 1>>}
MCCanReceive == [d \in {d1, d2} |-> IF d = d1 THEN {2} ELSE {1, 2}]
File(g, c) == [group |-> g, data |-> c, sealed |-> g]
MCHostFiles == {NoFile}
MCInitialFiles == [d \in {d1, d2} |-> IF d = d1 THEN <<File(2, x), NoFile>>
                                      ELSE <<File(1, y), File(3, x)>>]

(* For the replay ring: one file that either device may receive.           *)
MCSameGroup == {<<1, 1>>}
MCOneGroup == [d \in {d1, d2} |-> {1}]
MCOneFile == [d \in {d1, d2} |-> IF d = d1 THEN <<NoFile>> ELSE <<File(1, x)>>]
=============================================================================
