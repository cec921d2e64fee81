----------------------------- MODULE SshAgentMC -----------------------------
(* Tabs that look alike, and keys that do. *)
EXTENDS SshAgent, TLC

Alike == Permutations(Tabs) \cup Permutations(Keys)

=============================================================================
