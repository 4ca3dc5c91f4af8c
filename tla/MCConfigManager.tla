--------------------------- MODULE MCConfigManager --------------------------
(* ConfigManager on small instances. *)
EXTENDS ConfigManager, TLC

Symmetry == Permutations(Threads) \cup Permutations(Apps) \cup
            Permutations(Keys)
=============================================================================
