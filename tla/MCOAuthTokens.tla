--------------------------- MODULE MCOAuthTokens ----------------------------
(* Small instances of OAuthTokens for TLC. *)
EXTENDS OAuthTokensInvariant, TLC
CONSTANTS web, dcr, bot, r1, r2
=============================================================================
