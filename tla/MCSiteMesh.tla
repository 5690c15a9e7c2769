----------------------------- MODULE MCSiteMesh -----------------------------
(***************************************************************************)
(* The placement of the site's endpoints alone, for TLC: the replacement   *)
(* of a retained endpoint may itself be deleted.                           *)
(***************************************************************************)
EXTENDS SiteMesh

CONSTANT r1

Selections == {{1}, {2, 3}}
=============================================================================
