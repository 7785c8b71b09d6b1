----------------------------- MODULE MCPollRound -----------------------------
(* PollRound for TLC: clients and remotes are interchangeable.             *)
EXTENDS PollRound, TLC

Symmetry == Permutations(Client) \cup Permutations(Remote)
=============================================================================
