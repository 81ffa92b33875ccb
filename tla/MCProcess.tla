----------------------------- MODULE MCProcess ------------------------------
(* Process for TLC: few messages and slots, so that the queue grows and wraps. *)
EXTENDS Process

CONSTANTS s1, s2, main, receiver

MCTask == ({main, receiver} \X (1 .. NumMsg + MaxReceived)) \X (1 .. NumProc)
=============================================================================
