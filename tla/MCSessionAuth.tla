--------------------------- MODULE MCSessionAuth ---------------------------
(***************************************************************************)
(* SessionAuth for TLC: a page that has been up and one that loads at any  *)
(* moment, and two crossings.  Two are the fewest at which a rotation      *)
(* meets a refusal, another rotation, or a logout.  The options are those  *)
(* the two ports that use the cookie authority pass: n8n a hello, Strapi   *)
(* awaitClaims.                                                            *)
(***************************************************************************)
EXTENDS SessionAuth

Deployed ==
  {[hello |-> TRUE, awaitClaims |-> FALSE], [hello |-> FALSE, awaitClaims |-> TRUE]}
=============================================================================
