--------------------------- MODULE MCFileService ----------------------------
(***************************************************************************)
(* Small instances of FileService for TLC; the cfg files give the sets.    *)
(***************************************************************************)
EXTENDS FileService
=============================================================================
