---------------------------- MODULE MCRequestRun ----------------------------
EXTENDS RequestRun

\* A route whose target is not an engine and that falls back to a cloud engine,
\* and one that has the cloud engine alone.
MCRecoveryOrder == <<"local_reasoner_fallback", "cloud_fast">>
MCRoutes == {<<"renamed", "local_agent", "cloud_fast">>, <<"cloud_fast">>}
=============================================================================
