--------------------------- MODULE MCTokenRefresh ---------------------------
(***************************************************************************)
(* TokenRefresh for TLC; the constants need no definitions.                *)
(***************************************************************************)
EXTENDS TokenRefresh
=============================================================================
