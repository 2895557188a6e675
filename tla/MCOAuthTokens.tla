---- MODULE MCOAuthTokens ----
(***************************************************************************)
(* Instances of OAuthTokens for TLC.  Codes, tokens and requests are       *)
(* interchangeable; the clients are not, one of them needs a consent.      *)
(***************************************************************************)
EXTENDS OAuthTokens, TLC

RowSymmetry == Permutations(Codes) \cup Permutations(Tokens) \cup Permutations(Requests)
====
