--------------------------- MODULE MCPythonClient ---------------------------
(***************************************************************************)
(* The Python client for TLC: a session, and one opened after it or, by a  *)
(* second click, beside it.                                                *)
(***************************************************************************)
EXTENDS PythonClient
=============================================================================
