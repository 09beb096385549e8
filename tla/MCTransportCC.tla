---------------------------- MODULE MCTransportCC ----------------------------
EXTENDS TransportCC
=============================================================================
