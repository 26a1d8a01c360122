-------------------------- MODULE MCCircularQueue --------------------------
EXTENDS CircularQueue
=============================================================================
