---------------------------- MODULE MCRealtimeSync ----------------------------
EXTENDS RealtimeSync
CONSTANTS u1
MCUserOf == [t \in Tabs |-> u1]
===============================================================================
