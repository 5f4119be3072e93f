---------------------------- MODULE MCHotReload ----------------------------
EXTENDS HotReload
=============================================================================
