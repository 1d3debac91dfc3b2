----------------------------- MODULE MCTcpVideo ------------------------------
EXTENDS TcpVideo

(* The shortest frame, the longest the receiver takes, one that is longer. *)
AllLengths == {1, MaxLength, MaxLength + 1}

(* The receiver takes every frame.                                         *)
TakenLengths == 1 .. MaxLength
=============================================================================
