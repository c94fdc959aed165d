--------------------------- MODULE MCCommandChannel ---------------------------
(* CommandChannel for TLC: calls are interchangeable, and so are accounts.  *)
EXTENDS CommandChannel, TLC

ChannelSymmetry == Permutations(Calls) \cup Permutations(Accounts)
=============================================================================
