------------------------------ MODULE MCWebClient ------------------------------
EXTENDS WebClient

\* Two calls beside the probe, one reload: at most four refreshes.
MCCalls == 1..2
MCRequests == 1..4
MCTokens == 1..5
===============================================================================
