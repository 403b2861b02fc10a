----------------------------- MODULE MCEngine -----------------------------
(* The three parts of the engine's video path, each on its own: `part` says   *)
(* which of them moves.                                                       *)
(*                                                                           *)
(* SpscQueue: three slots and two items, so that the cursors wrap more than  *)
(* once and the queue is full with two items waiting.                        *)
(*                                                                           *)
(* FramePool: three slots, the smallest pool in which a slot can come back   *)
(* to the head with another slot below it than the one an allocator has read. *)
(*                                                                           *)
(* Pipeline: queues of one item instead of seven.  Five frames are one more  *)
(* than the cells of two rings keep from the pool; the code has eighteen for *)
(* sixteen cells.                                                            *)
EXTENDS SpscQueue, FramePool, Pipeline

VARIABLE part

engineVars == <<vars, poolVars, pipeVars, part>>

EngineInit ==
  /\ part \in {"queue", "pool", "pipeline"}
  /\ Init
  /\ PoolInit
  /\ PipeInit

EngineNext ==
  /\ UNCHANGED part
  /\ \/ part = "queue" /\ Next /\ UNCHANGED <<poolVars, pipeVars>>
     \/ part = "pool" /\ PoolNext /\ UNCHANGED <<vars, pipeVars>>
     \/ part = "pipeline" /\ PipeNext /\ UNCHANGED <<vars, poolVars>>

\* The fairness is that of PipeFairSpec, for the part that moves.
EngineSpec ==
  /\ EngineInit
  /\ [][EngineNext]_engineVars
  /\ WF_engineVars(part = "pipeline" /\ Scheduler /\ UNCHANGED <<vars, poolVars, part>>)
  /\ \A s \in Stages :
       WF_engineVars(part = "pipeline" /\ Advance(s) /\ UNCHANGED <<vars, poolVars, part>>)

=============================================================================
