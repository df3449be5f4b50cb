---------------------------- MODULE MCPowerPull -----------------------------
(* The instance of PowerPull for TLC has all its values in the .cfg.        *)
EXTENDS PowerPull
=============================================================================
