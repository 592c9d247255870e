---------------------------- MODULE MCBridgeIngest ----------------------------
EXTENDS BridgeIngest
=============================================================================
