---------------------------- MODULE MCSyncLists ----------------------------
EXTENDS SyncLists

Values == {1, 2}
MaxEntries == [det |-> 10, node |-> 6, bram |-> 6]
=============================================================================
