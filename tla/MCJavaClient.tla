---------------------------- MODULE MCJavaClient ----------------------------
(***************************************************************************)
(* The Java client for TLC: a session, and one opened after it or, by a    *)
(* second click, beside it.                                                *)
(***************************************************************************)
EXTENDS JavaClient
=============================================================================
