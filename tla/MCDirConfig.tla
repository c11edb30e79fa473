----------------------------- MODULE MCDirConfig -----------------------------
(* Instances of DirConfig.                                                 *)
EXTENDS DirConfig

\* Around the bounds of a port; a size_t of 8 bits.
SomePorts == {-1, 0, 1, 1247, 65535, 65536}
SomeTtls == {-1, 0, 1, 127, 128}
=============================================================================
