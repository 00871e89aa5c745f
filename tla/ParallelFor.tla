----------------------------- MODULE ParallelFor -----------------------------
(***************************************************************************)
(* What FFmpeg expects of avctx->execute: a call with n jobs runs every    *)
(* job once, in any order, and returns when all of them have run.          *)
(***************************************************************************)
EXTENDS Naturals

CONSTANT MaxSlices

VARIABLES
  todo,     (* the jobs of the current call that have not run yet          *)
  running   (* is a call in progress                                       *)

pvars == <<todo, running>>

PInit == todo = {} /\ running = FALSE

Call(n) ==
  /\ ~running
  /\ running' = TRUE /\ todo' = 0 .. (n - 1)

Run(i) ==
  /\ running /\ i \in todo
  /\ todo' = todo \ {i} /\ UNCHANGED running

Return ==
  /\ running /\ todo = {}
  /\ running' = FALSE /\ UNCHANGED todo

PNext ==
  \/ \E n \in 0 .. MaxSlices : Call(n)
  \/ \E i \in todo : Run(i)
  \/ Return

PSpec == PInit /\ [][PNext]_pvars
=============================================================================
