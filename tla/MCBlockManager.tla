--------------------------- MODULE MCBlockManager ---------------------------
(***************************************************************************)
(* A block DAG of three rounds for the block manager.  Blocks are named by *)
(* author and round.  c3 skips a round, so its ancestors lie on different  *)
(* sides of the gc round while the commits move it, and b2 is suspended    *)
(* beside the chain to c3.                                                 *)
(***************************************************************************)
EXTENDS BlockManager

MCBlock == {"a0", "a1", "b1", "a2", "b2", "c3"}

MCRound == [b \in MCBlock |->
    CASE b = "a0" -> 0
      [] b \in {"a1", "b1"} -> 1
      [] b \in {"a2", "b2"} -> 2
      [] b = "c3" -> 3]

MCAncestors == [b \in MCBlock |->
    CASE b = "a0" -> {}
      [] b \in {"a1", "b1"} -> {"a0"}
      [] b = "a2" -> {"a1", "b1"}
      [] b = "b2" -> {"b1"}
      [] b = "c3" -> {"a2", "b1"}]
=============================================================================
