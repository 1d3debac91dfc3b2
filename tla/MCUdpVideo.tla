----------------------------- MODULE MCUdpVideo ------------------------------
EXTENDS UdpVideo

(* One packet, exactly full; one byte more; three packets, the last short; *)
(* six, numbered 0 to 3 and 0 and 1 of 2.                                  *)
MCKinds == {[type |-> "config", len |-> 1], [type |-> "slice", len |-> 2],
            [type |-> "slice", len |-> 3], [type |-> "slice", len |-> 5],
            [type |-> "slice", len |-> 11]}
=============================================================================
