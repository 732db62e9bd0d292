----------------------------- MODULE MCApiKeys -----------------------------
EXTENDS ApiKeys
=============================================================================
