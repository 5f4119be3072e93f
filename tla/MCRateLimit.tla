----------------------------- MODULE MCRateLimit -----------------------------
EXTENDS RateLimit
=============================================================================
