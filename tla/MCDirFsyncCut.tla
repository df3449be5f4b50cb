--------------------------- MODULE MCDirFsyncCut ----------------------------
(* The instance of DirFsyncCut for TLC has all its values in the .cfg.      *)
EXTENDS DirFsyncCut
=============================================================================
