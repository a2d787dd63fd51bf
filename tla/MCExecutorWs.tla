---------------------------- MODULE MCExecutorWs ----------------------------
(***************************************************************************)
(* Small instances of ExecutorWs: connections and topics as model values.  *)
(***************************************************************************)
EXTENDS ExecutorWs, TLC

MCSymmetry == Permutations(Client) \cup Permutations(Topic)
=============================================================================
