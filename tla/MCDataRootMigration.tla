------------------------ MODULE MCDataRootMigration ------------------------
(***************************************************************************)
(* Model values for DataRootMigration: the directory the data is in and    *)
(* one or two it can be moved to.                                          *)
(***************************************************************************)
EXTENDS DataRootMigration
=============================================================================
