---------------------------- MODULE MCSuiSystem ----------------------------
(***************************************************************************)
(* SuiSystem for four addresses.  Two are active, one of them with so      *)
(* little stake that it is near the thresholds of SIP-39, and two are      *)
(* candidates.  The gas of an epoch pays for its rewards or for about half *)
(* of them, so that two epochs together do.                                *)
(***************************************************************************)
EXTENDS SuiSystem

CONSTANTS a, b, c, d

McActive == <<a, c>>
McStakes == [v \in Validator |-> CASE v = a -> 205400 [] v = b -> 250 [] OTHER -> 300]
McGas == {[computation |-> 2071, storage |-> 7, rebate |-> 3, fee |-> 1],
          [computation |-> 1250, storage |-> 4, rebate |-> 3, fee |-> 1]}
McSubsidy == [balance |-> 25, current_distribution_amount |-> 10]
=============================================================================
