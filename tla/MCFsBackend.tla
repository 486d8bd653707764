---------------------------- MODULE MCFsBackend ----------------------------
(***************************************************************************)
(* Instances of FsBackend: the bulk endpoints of adb, with a slot for each *)
(* and with too few, and lengths below, at and above the largest buffer.   *)
(***************************************************************************)
EXTENDS FsBackend

CONSTANTS in, out

BulkPair == {in, out}

Grows == {0, 2}

TooLong == {1, 2}

=============================================================================
