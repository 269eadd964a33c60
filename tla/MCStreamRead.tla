---------------------------- MODULE MCStreamRead ----------------------------
(***************************************************************************)
(* An instance of StreamRead: a stream of a few bytes, read in two or three *)
(* calls, with a timeout of two sleeps.                                    *)
(***************************************************************************)
EXTENDS StreamRead

\* Wide enough for every read to end before (see BoundedWait).
Long == Timeout + MaxAdjust + Sleep + 2 * Jitter + 2
=============================================================================
