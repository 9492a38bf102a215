--------------------------- MODULE MCManifestCache ---------------------------
(* Small instances of ManifestCache for TLC.                                 *)
EXTENDS ManifestCache

CONSTANTS w1, t1, t2, v1, v2
=============================================================================
