--------------------------- MODULE MCUartFraming ---------------------------
(* Packets for the run of UartFraming: a RECEIVE of two blocks, the first  *)
(* of which looks like a header, and an ERROR text.                        *)
EXTENDS UartFraming

MCPackets ==
    {[cmd |-> RECEIVE_MSG, body |-> <<MSG_MAGIC, RECEIVE_MSG, 1, 0, 7>>],
     [cmd |-> ERROR_MSG, body |-> <<2, 3>>]}
=============================================================================
