---------------------------- MODULE MCShmSeqlock ----------------------------
(* Two words are enough for a torn block.  Each rejected attempt of a read   *)
(* costs a publication: four, or three and a crash, can use up two attempts, *)
(* tear a third and leave one more to arrive.                                *)
EXTENDS ShmSeqlock

=============================================================================
