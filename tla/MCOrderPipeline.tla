--------------------------- MODULE MCOrderPipeline ---------------------------
(***************************************************************************)
(* Small instances of OrderPipeline: o1 has topic t1, o2 has topic t2, and *)
(* bad is an id that no /sign-order request can produce.                   *)
(***************************************************************************)
EXTENDS OrderPipeline

CONSTANTS o1, o2, bad, t1, t2

MCTopicOf == [o \in Order |-> IF o = o2 THEN t2 ELSE t1]
MCBatches == {<<o1>>, <<o1, o2>>, <<bad>>}
MCSignable == Order \ {bad}
=============================================================================
