---------------------------- MODULE MC_LaviConsole ----------------------------
(* The message types are distinct bytes, as in bookman-message.hh and      *)
(* message.hh.  Two xids, the least and the greatest randrange returns;    *)
(* replies with an empty and a one-byte body, so messages of exactly seven *)
(* bytes (the header alone, as every echo) and longer ones are read.       *)
(* randrange may return up to 0xfffffffe; TLC's integers stop at 2^31 - 1, *)
(* so the greatest xid here is that, which still fills all four bytes.     *)
EXTENDS LaviConsole

CONSTANTS NoReplyMC

XidsMC == {0, 2147483647}
ReplyBodiesMC == {<< >>, << 7 >>}

=============================================================================
