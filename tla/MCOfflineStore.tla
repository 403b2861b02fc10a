--------------------------- MODULE MCOfflineStore ---------------------------
(* An alarm and two periodic records, two flushes that can overlap, and two  *)
(* ends of the process, so that rows of one session are sent in another.     *)
EXTENDS OfflineStore
=============================================================================
