---------------------------- MODULE MCScanRoots ----------------------------
(* ScanRoots with two disks, the second a member of the pool.              *)
EXTENDS ScanRoots

CONSTANTS d1, d2

MCRoots == {d1, d2}
MCLeaving == {<<d1, "late">>}
MCSettled == {<<d1, d2>>}
MCEdited == {<<d1, d2>>, <<d2, d1>>, <<d2>>}
=============================================================================
