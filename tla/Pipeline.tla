------------------------------ MODULE Pipeline ------------------------------
(***************************************************************************)
(* The four-stage video pipeline of the engine process: one thread per     *)
(* stage, three bounded queues between them, and the scheduler thread that *)
(* starts it, stops it and switches its model on the core's commands       *)
(* (Pipeline.cpp, stages/*.cpp, AnalysisScheduler.cpp).                    *)
(*                                                                         *)
(* A frame goes back to the pool when nobody refers to it any more, and    *)
(* SpscQueue::pop() (SpscQueue.h 31-41) copies the reference out of its    *)
(* cell and leaves the cell as it is: until a later push() comes round to  *)
(* that cell, the ring still refers to the frame that was popped.  Which   *)
(* of the pool's frames it is makes no difference: a frame is known by its *)
(* rank in age among those in use, the oldest being 1.  The single steps   *)
(* of a push and a pop are SpscQueue's, those of the pool FramePool's.     *)
(*                                                                         *)
(* All queues have the policy Block: push() (PipelineQueue.h 25-27) waits  *)
(* for room and looks at nothing else.  GStreamer and the NPU are modelled *)
(* by their outcomes: a sample arrives or not, a model loads or not, an    *)
(* inference succeeds or not.  That each of these calls returns is assumed; *)
(* that samples arrive is not.                                             *)
(***************************************************************************)
EXTENDS Naturals, Sequences, FiniteSets

CONSTANTS QueueMax,      \* items a queue holds, its Capacity - 1
          PoolFrames,    \* frames in the pool
          LoadMayFail    \* can the first load of the model fail

ASSUME QueueMaxAssumption == QueueMax \in Nat \ {0}
ASSUME PoolFramesAssumption == PoolFrames \in Nat \ {0}
ASSUME LoadAssumption == LoadMayFail \in BOOLEAN

VARIABLES
  running,    \* StageBase::running_, per stage
  at,         \* where each stage's thread is in run(); "off" when it returned
  hand,       \* the frame that each stage's thread works on, or none
  queue,      \* queue_1_, queue_2_, queue_3_: the frames waiting
  popped,     \* the frames popped from each queue that its cells still refer to
  ctx,        \* is an RKNN context loaded (ctx_ # 0)
  modelLock,  \* who holds InferenceStage::model_mutex_
  stageLock,  \* does the scheduler hold Pipeline::stage_mutex_
  created,    \* do the stage objects exist
  mgr         \* the scheduler thread: where it is, for which command

pipeVars == <<running, at, hand, queue, popped, ctx, modelLock, stageLock, created, mgr>>

\* The stages in the order of the frames.
Capture == 1
Preprocess == 2
Inference == 3
Postprocess == 4
Stages == Capture .. Postprocess

\* The queue a stage pops from is that of the stage before it.
Queues == 1 .. 3

Entry(s) == CASE s = Capture -> "pull" [] s = Inference -> "load" [] OTHER -> "pop"

Cells == QueueMax + 1

\* What is left of a frame when its pool is destroyed.
Gone == 0

Elements(seq) == {seq[i] : i \in 1 .. Len(seq)}

InHands == UNION {Elements(hand[s]) : s \in Stages}

InRings == UNION {Elements(queue[q]) \cup Elements(popped[q]) : q \in Queues}

\* The frames that are not in the pool.
InUse == (InHands \cup InRings) \ {Gone}

Rank(f) == Cardinality({g \in InUse : g <= f})

Ranked(seq) == [i \in 1 .. Len(seq) |-> Rank(seq[i])]

PipeInit ==
  /\ running = [s \in Stages |-> FALSE]
  /\ at = [s \in Stages |-> "off"]
  /\ hand = [s \in Stages |-> <<>>]
  /\ queue = [q \in Queues |-> <<>>]
  /\ popped = [q \in Queues |-> <<>>]
  /\ ctx = FALSE
  /\ modelLock = "none"
  /\ stageLock = FALSE
  /\ created = FALSE
  /\ mgr = [at |-> "idle", op |-> "none", stage |-> Capture]

Goto(s, place) == at' = [at EXCEPT ![s] = place]

Hold(s, seq) == hand' = [hand EXCEPT ![s] = seq]

-----------------------------------------------------------------------------
(* The stages.  Every loop looks at running_ where it starts over, and only *)
(* there.                                                                   *)

\* CaptureStage, Preprocess and Postprocess leave run() when told to stop.
Leave(s) ==
  /\ s # Inference
  /\ at[s] = Entry(s)
  /\ ~running[s]
  /\ Goto(s, "off")
  /\ UNCHANGED <<running, hand, queue, popped, ctx, modelLock, stageLock, created, mgr>>

\* A sample came and the pool has a frame for it, the youngest from now on; with
\* an empty pool, or without a sample, the loop starts over.
CapturePull ==
  /\ at[Capture] = "pull"
  /\ running[Capture]
  /\ Cardinality(InUse) < PoolFrames
  /\ hand' = [s \in Stages |-> IF s = Capture THEN <<Cardinality(InUse) + 1>>
                                              ELSE Ranked(hand[s])]
  /\ queue' = [q \in Queues |-> Ranked(queue[q])]
  /\ popped' = [q \in Queues |-> Ranked(popped[q])]
  /\ Goto(Capture, "push")
  /\ UNCHANGED <<running, ctx, modelLock, stageLock, created, mgr>>

\* With every cell in use, the push overwrites the one popped longest ago, which
\* may be a frame's last reference: the producer's thread gives it back.
Push(s) ==
  /\ at[s] = "push"
  /\ Len(queue[s]) < QueueMax
  /\ queue' = [queue EXCEPT ![s] = @ \o hand[s]]
  /\ popped' = [popped EXCEPT ![s] = IF Len(@) + Len(queue[s]) = Cells THEN Tail(@) ELSE @]
  /\ Hold(s, <<>>)
  /\ Goto(s, IF s = Capture THEN "pull" ELSE "pop")
  /\ modelLock' = IF s = Inference THEN "none" ELSE modelLock
  /\ UNCHANGED <<running, ctx, stageLock, created, mgr>>

Pop(s) ==
  /\ s # Capture
  /\ at[s] = "pop"
  /\ running[s]
  /\ queue[s - 1] # <<>>
  /\ Hold(s, <<Head(queue[s - 1])>>)
  /\ queue' = [queue EXCEPT ![s - 1] = Tail(@)]
  /\ popped' = [popped EXCEPT ![s - 1] = Append(@, Head(queue[s - 1]))]
  /\ Goto(s, CASE s = Preprocess -> "push"
               [] s = Inference -> "work"
               [] s = Postprocess -> "callback")
  /\ UNCHANGED <<running, ctx, modelLock, stageLock, created, mgr>>

\* run() loads the model first, without model_mutex_.  If it cannot, it waits
\* to be stopped and pops nothing.
InferenceLoad ==
  /\ at[Inference] = "load"
  /\ \/ ctx' = TRUE /\ Goto(Inference, "pop")
     \/ LoadMayFail /\ ctx' = FALSE /\ Goto(Inference, "sleep")
  /\ UNCHANGED <<running, hand, queue, popped, modelLock, stageLock, created, mgr>>

\* Leaving the sleep loop returns at once, leaving the inference loop destroys
\* the context.
InferenceLeave ==
  /\ at[Inference] \in {"pop", "sleep"}
  /\ ~running[Inference]
  /\ Goto(Inference, "off")
  /\ ctx' = (ctx /\ at[Inference] = "sleep")
  /\ UNCHANGED <<running, hand, queue, popped, modelLock, stageLock, created, mgr>>

InferenceTake ==
  /\ ctx
  /\ modelLock' = "run"
  /\ Goto(Inference, "infer")
  /\ UNCHANGED hand

InferenceDrop ==
  /\ modelLock' = "none"
  /\ Hold(Inference, <<>>)
  /\ Goto(Inference, "pop")

\* A frame met without a model is dropped.
InferenceLock ==
  /\ at[Inference] = "work"
  /\ modelLock = "none"
  /\ InferenceTake \/ (~ctx /\ InferenceDrop)
  /\ UNCHANGED <<running, queue, popped, ctx, stageLock, created, mgr>>

\* Variant with a bug: a failed inference keeps the mutex.
InferenceKeepsLock ==
  /\ at[Inference] = "infer"
  /\ \/ Goto(Inference, "push") /\ UNCHANGED hand
     \/ Goto(Inference, "pop") /\ Hold(Inference, <<>>)
  /\ UNCHANGED <<running, queue, popped, ctx, modelLock, stageLock, created, mgr>>

\* The result is pushed with model_mutex_ held; a failed inference drops the
\* frame and releases it.
InferenceRun ==
  /\ at[Inference] = "infer"
  /\ \/ Goto(Inference, "push") /\ UNCHANGED <<hand, modelLock>>
     \/ InferenceDrop
  /\ UNCHANGED <<running, queue, popped, ctx, stageLock, created, mgr>>

PostprocessCallback ==
  /\ at[Postprocess] = "callback"
  /\ Hold(Postprocess, <<>>)
  /\ Goto(Postprocess, "pop")
  /\ UNCHANGED <<running, queue, popped, ctx, modelLock, stageLock, created, mgr>>

\* What a stage's thread does without waiting for a sample.
Advance(s) ==
  \/ Leave(s)
  \/ Push(s)
  \/ Pop(s)
  \/ s = Inference /\ (InferenceLoad \/ InferenceLeave \/ InferenceLock \/ InferenceRun)
  \/ s = Postprocess /\ PostprocessCallback

Thread(s) == Advance(s) \/ (s = Capture /\ CapturePull)

-----------------------------------------------------------------------------
(* The scheduler thread: one command at a time *)

Command(op) ==
  /\ mgr.at = "idle"
  /\ mgr' = [mgr EXCEPT !.at = IF op = "switch" THEN "lockSwitch" ELSE "lockStop", !.op = op]
  /\ UNCHANGED <<running, at, hand, queue, popped, ctx, modelLock, stageLock, created>>

\* stop(): with the mutex held, each stage in the order of the frames is told
\* to stop and joined.
StopLock ==
  /\ mgr.at = "lockStop"
  /\ ~stageLock
  /\ stageLock' = TRUE
  /\ mgr' = [mgr EXCEPT !.at = IF created THEN "signal" ELSE "drain", !.stage = Capture]
  /\ UNCHANGED <<running, at, hand, queue, popped, ctx, modelLock, created>>

\* Variant with a bug: the stage is joined and not told to stop.
StopUnsignalled ==
  /\ mgr.at = "signal"
  /\ mgr' = [mgr EXCEPT !.at = "join"]
  /\ UNCHANGED <<running, at, hand, queue, popped, ctx, modelLock, stageLock, created>>

StopSignal ==
  /\ mgr.at = "signal"
  /\ running' = [running EXCEPT ![mgr.stage] = FALSE]
  /\ mgr' = [mgr EXCEPT !.at = "join"]
  /\ UNCHANGED <<at, hand, queue, popped, ctx, modelLock, stageLock, created>>

\* Variant with a bug: the stage is told to stop and not joined.
StopUnjoined ==
  /\ mgr.at = "join"
  /\ mgr' = IF mgr.stage = Postprocess
            THEN [mgr EXCEPT !.at = "drain"]
            ELSE [mgr EXCEPT !.at = "signal", !.stage = @ + 1]
  /\ UNCHANGED <<running, at, hand, queue, popped, ctx, modelLock, stageLock, created>>

StopJoin ==
  /\ mgr.at = "join"
  /\ at[mgr.stage] = "off"
  /\ mgr' = IF mgr.stage = Postprocess
            THEN [mgr EXCEPT !.at = "drain"]
            ELSE [mgr EXCEPT !.at = "signal", !.stage = @ + 1]
  /\ UNCHANGED <<running, at, hand, queue, popped, ctx, modelLock, stageLock, created>>

\* What is left in the queues is popped; the cells refer to it as before.
Drain ==
  /\ queue' = [q \in Queues |-> <<>>]
  /\ popped' = [q \in Queues |-> popped[q] \o queue[q]]

StopDrain ==
  /\ mgr.at = "drain"
  /\ Drain
  /\ stageLock' = FALSE
  /\ mgr' = [mgr EXCEPT !.at = IF mgr.op = "start" THEN "lockStart" ELSE "idle"]
  /\ UNCHANGED <<running, at, hand, ctx, modelLock, created>>

\* start() stops first, then takes the mutex again.
StartLock ==
  /\ mgr.at = "lockStart"
  /\ ~stageLock
  /\ stageLock' = TRUE
  /\ mgr' = [mgr EXCEPT !.at = "create"]
  /\ UNCHANGED <<running, at, hand, queue, popped, ctx, modelLock, created>>

\* The queues are emptied once more, then a new pool and new stages replace the
\* old ones: whoever still refers to a frame of the old pool has nothing left.
\* The old InferenceStage destroys a context it still has.
StartCreate ==
  /\ mgr.at = "create"
  /\ queue' = [q \in Queues |-> <<>>]
  /\ popped' = [q \in Queues |-> [i \in 1 .. Len(popped[q]) + Len(queue[q]) |-> Gone]]
  /\ hand' = [s \in Stages |-> [i \in 1 .. Len(hand[s]) |-> Gone]]
  /\ created' = TRUE
  /\ ctx' = FALSE
  /\ mgr' = [mgr EXCEPT !.at = "launch", !.stage = Postprocess]
  /\ UNCHANGED <<running, at, modelLock, stageLock>>

\* Consumers are launched before producers.
StartLaunch ==
  /\ mgr.at = "launch"
  /\ running' = [running EXCEPT ![mgr.stage] = TRUE]
  /\ Goto(mgr.stage, Entry(mgr.stage))
  /\ IF mgr.stage = Capture
     THEN mgr' = [mgr EXCEPT !.at = "idle"] /\ stageLock' = FALSE
     ELSE mgr' = [mgr EXCEPT !.stage = @ - 1] /\ UNCHANGED stageLock
  /\ UNCHANGED <<hand, queue, popped, ctx, modelLock, created>>

\* switch_model(): refused while there is no InferenceStage.
SwitchLock ==
  /\ mgr.at = "lockSwitch"
  /\ ~stageLock
  /\ IF created
     THEN mgr' = [mgr EXCEPT !.at = "lockModel"] /\ stageLock' = TRUE
     ELSE mgr' = [mgr EXCEPT !.at = "idle"] /\ UNCHANGED stageLock
  /\ UNCHANGED <<running, at, hand, queue, popped, ctx, modelLock, created>>

SwitchModelLock ==
  /\ mgr.at = "lockModel"
  /\ modelLock = "none"
  /\ modelLock' = "switch"
  /\ mgr' = [mgr EXCEPT !.at = "swap"]
  /\ UNCHANGED <<running, at, hand, queue, popped, ctx, stageLock, created>>

\* The new model loads, or the old context, if there was one, is put back.
SwitchModel ==
  /\ mgr.at = "swap"
  /\ ctx' \in {TRUE, ctx}
  /\ modelLock' = "none"
  /\ stageLock' = FALSE
  /\ mgr' = [mgr EXCEPT !.at = "idle"]
  /\ UNCHANGED <<running, at, hand, queue, popped, created>>

Scheduler ==
  \/ StopLock
  \/ StopSignal
  \/ StopJoin
  \/ StopDrain
  \/ StartLock
  \/ StartCreate
  \/ StartLaunch
  \/ SwitchLock
  \/ SwitchModelLock
  \/ SwitchModel

PipeNext ==
  \/ \E s \in Stages : Thread(s)
  \/ \E op \in {"start", "stop", "switch"} : Command(op)
  \/ Scheduler

PipeSpec == PipeInit /\ [][PipeNext]_pipeVars

\* Threads that can run do run, and the calls they make return: a pull that
\* waits when its stage is told to stop ends, with a sample or at the end of the
\* file (gst_app_sink_pull_sample(), CaptureStage.cpp 103, has no timeout).
\* Nothing makes samples arrive, and nothing makes the core send commands.
PipeFairSpec ==
  PipeSpec /\ WF_pipeVars(Scheduler) /\ \A s \in Stages : WF_pipeVars(Advance(s))

-----------------------------------------------------------------------------
(* Properties *)

ControlOK ==
  /\ running \in [Stages -> BOOLEAN]
  /\ at \in [Stages -> {"off", "pull", "pop", "push", "load", "sleep", "work", "infer",
                        "callback"}]
  /\ ctx \in BOOLEAN
  /\ modelLock \in {"none", "run", "switch"}
  /\ stageLock \in BOOLEAN
  /\ created \in BOOLEAN
  /\ mgr \in [at : {"idle", "lockStop", "signal", "join", "drain", "lockStart", "create",
                    "launch", "lockSwitch", "lockModel", "swap"},
              op : {"none", "start", "stop", "switch"}, stage : Stages]

RingsOK ==
  /\ hand \in [Stages -> Seq(Nat)]
  /\ queue \in [Queues -> Seq(Nat)]
  /\ popped \in [Queues -> Seq(Nat)]
  /\ \A s \in Stages : Len(hand[s]) <= 1
  /\ \A q \in Queues : Len(queue[q]) <= QueueMax /\ Len(popped[q]) + Len(queue[q]) <= Cells

PipeTypeOK == ControlOK /\ RingsOK

\* No stage ever has a frame of a destroyed pool to work on, in its hands or
\* waiting for it: start() replaces the pool when every thread was joined and
\* nothing waits, in whatever state stop() met the stages.  A stage that pops such
\* a frame is the use-after-free that Pipeline.cpp 31-34 speaks of.
NoDanglingFrame ==
  /\ \A s \in Stages : Gone \notin Elements(hand[s])
  /\ \A q \in Queues : Gone \notin Elements(queue[q])

\* "So that the references to FramePool are released" (Pipeline.cpp 70) the queues
\* are emptied, or "these pointers dangle when pool_ is built again and the old
\* pool destroyed" (31-33): no cell refers to a frame of a destroyed pool.  The
\* push that overwrites such a cell gives the frame back to the destroyed pool.
NoDanglingCell == \A q \in Queues : Gone \notin Elements(popped[q])

\* stop() waits for a stage that waits for room in front of an inference that
\* sleeps because its first load failed: the one way for it to wait for ever.
StuckBehindSleep ==
  /\ mgr.at = "join"
  /\ mgr.stage \in {Capture, Preprocess}
  /\ at[Inference] = "sleep"
  /\ at[Preprocess] = "push"
  /\ Len(queue[Preprocess]) = QueueMax
  /\ mgr.stage = Capture => at[Capture] = "push" /\ Len(queue[Capture]) = QueueMax

\* start() and stop() return, and with them stage_mutex_ is given back: the
\* scheduler reads its next command, and the heartbeat thread gets through
\* set_throttle().  stop() waits for stages that wait for room in a queue, and for
\* an inference that waits for room with model_mutex_ held (PipelineQueue.h 25-27,
\* InferenceStage.cpp 225-282).  They get it, but in the state above.
\* switch_model() waits for model_mutex_ only, and that comes free again and again:
\* the call may be overtaken, as std::mutex is not fair, and is never deadlocked.
CommandsReturn ==
  /\ (mgr.at # "idle" /\ mgr.op # "switch") ~> (mgr.at = "idle" \/ StuckBehindSleep)
  /\ (mgr.at # "idle" /\ mgr.op = "switch") ~> mgr.at \in {"idle", "lockModel"}
  /\ <>[](mgr.at = "lockModel") => []<>(modelLock = "none")

\* Without the exception, as the comment on the destructor has it: stop() "must be
\* called explicitly", so that no join "gets stuck in a push of the policy Block",
\* which "keeps the way out stable" (Pipeline.cpp 15-17).
StopReturns == (mgr.at # "idle" /\ mgr.op # "switch") ~> mgr.at = "idle"

Streaming == mgr.at = "idle" /\ \A s \in Stages : running[s]

\* A pipeline that is left running, with a model that its first load or a switch
\* put in place, goes on inferring as long as samples arrive: no failed inference,
\* full queue or refused switch stops it (InferenceStage.cpp 213-287), and neither
\* do the frames that the cells of the rings keep from the pool.
StreamMeansInference ==
  (WF_pipeVars(CapturePull) /\ <>[](Streaming /\ ctx /\ at[Inference] # "sleep"))
    => []<>(at[Inference] = "infer")
=============================================================================
