----------------------- MODULE MCSnapshotReplication -----------------------
EXTENDS SnapshotReplication, TLC
=============================================================================
