---------------------------- MODULE BoundedFifo ----------------------------
(***************************************************************************)
(* What a queue between two threads promises its users: items come out in  *)
(* the order in which they went in, none is lost, none is delivered twice, *)
(* none is invented, and at most Bound of them wait at any time.           *)
(*                                                                         *)
(* The two histories are all the state: `sent' is what was accepted so     *)
(* far, `got' what was handed out.  SpscQueue implements this module.      *)
(***************************************************************************)
EXTENDS Naturals, Sequences

CONSTANTS Items,   \* what can be queued
          Bound    \* how many items fit

VARIABLES sent, got

fifoVars == <<sent, got>>

Waiting == Len(sent) - Len(got)

FifoInit == sent = <<>> /\ got = <<>>

Enqueue(x) ==
  /\ Waiting < Bound
  /\ sent' = Append(sent, x)
  /\ UNCHANGED got

Dequeue ==
  /\ Len(got) < Len(sent)
  /\ got' = Append(got, sent[Len(got) + 1])
  /\ UNCHANGED sent

FifoNext == Dequeue \/ \E x \in Items : Enqueue(x)

FifoSpec == FifoInit /\ [][FifoNext]_fifoVars
=============================================================================
