------------------------------ MODULE MCImport ------------------------------
(* Two imports into one directory that race each other, an ordinary open   *)
(* and an inspection, with two troubles at any place.                      *)
EXTENDS Import
=============================================================================
