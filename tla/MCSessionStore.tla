--------------------------- MODULE MCSessionStore ---------------------------
(* SessionStore with two actors and two old sessions. *)
EXTENDS SessionStore

CONSTANTS a1, a2
=============================================================================
