-------------------------- MODULE MCBlockTransfer --------------------------
(* Model values and symmetry for checking BlockTransfer with TLC. *)
EXTENDS BlockTransfer, TLC

\* Workers are interchangeable: they run the same loop on the same state.
WorkerSymmetry == Permutations(Workers)
=============================================================================
