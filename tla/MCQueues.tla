------------------------------ MODULE MCQueues ------------------------------
(* The two queues that other threads fill and a thread of its own empties    *)
(* when it is woken: that of the access process and that of the database     *)
(* writer.  Each runs on its own: `part` says which of them moves.           *)
(*                                                                           *)
(* AccessBridge: a serial driver from the start, on a port that is raw or    *)
(* not, and a TCP driver that is added.  Two answers each are enough for one *)
(* response to be cut and mixed with the next, and for a message to be       *)
(* queued while the queue is being taken.                                    *)
(*                                                                           *)
(* DbWriter: a ring of three and batches of two: records are refused,        *)
(* batches are full or partial, and more than one batch can wait when the    *)
(* thread wakes.                                                             *)
EXTENDS AccessBridge, DbWriter

VARIABLE part

queuesVars == <<bridgeVars, vars, part>>

QueuesInit ==
  /\ part \in {"bridge", "writer"}
  /\ BridgeInit
  /\ Init

QueuesNext ==
  /\ UNCHANGED part
  /\ \/ part = "bridge" /\ BridgeNext /\ UNCHANGED vars
     \/ part = "writer" /\ Next /\ UNCHANGED bridgeVars

\* The fairness is that of BridgeFairSpec and FairSpec, for the part that moves.
InBridge(A) == part = "bridge" /\ A /\ UNCHANGED <<vars, part>>

QueuesSpec ==
  /\ QueuesInit
  /\ [][QueuesNext]_queuesVars
  /\ WF_queuesVars(InBridge(Main))
  /\ \A d \in Drivers : WF_queuesVars(InBridge(Poll(d))) /\ WF_queuesVars(InBridge(GivesUp(d)))
  /\ WF_queuesVars(part = "writer" /\ Thread /\ UNCHANGED <<bridgeVars, part>>)

=============================================================================
