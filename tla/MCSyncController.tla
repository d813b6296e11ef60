--------------------------- MODULE MCSyncController ---------------------------
EXTENDS SyncController
CONSTANTS name, old, new, start, end
MCValues == {0, 1}
MCContent == [c \in Cells |-> 0]
=============================================================================
