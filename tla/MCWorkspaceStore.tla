--------------------------- MODULE MCWorkspaceStore --------------------------
(* WorkspaceStore on a small instance; the cfg files give the constants    *)
(* their values.                                                           *)
EXTENDS WorkspaceStore
=============================================================================
