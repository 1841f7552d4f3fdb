---------------------------- MODULE MCSirenPages ----------------------------
(***************************************************************************)
(* One peer that negotiates any set of capabilities; no tokens are         *)
(* involved, the admission tables stay empty.                              *)
(***************************************************************************)
EXTENDS SirenPages

NoTokens == {}
=============================================================================
