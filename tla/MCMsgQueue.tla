------------------------------ MODULE MCMsgQueue ------------------------------
(* MsgQueue for TLC: the messages are interchangeable.                      *)
EXTENDS MsgQueue, TLC

MsgSymmetry == Permutations(Msgs)

=============================================================================
