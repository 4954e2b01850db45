----------------------------- MODULE MCGuardedClient -----------------------------
EXTENDS GuardedClient
=============================================================================
