----------------------------- MODULE MCConsole -------------------------------
(***************************************************************************)
(* An instance of Console, with Uart, for TLC, in two parts with bounds of *)
(* their own: part "in" types up to MaxTyped keys beside one write of up   *)
(* to InBytes bytes, all the same, part "out" up to OutTyped keys beside MaxWrites writes   *)
(* of any bytes.  Every behaviour of MCSpec is one of Spec.                *)
(***************************************************************************)
EXTENDS Console

CONSTANTS OneByte, InBytes, OutTyped, OutKeys
VARIABLE part

MCInit == part \in {"in", "out"} /\ Init /\ txbuf = [k \in Slots |-> OneByte]

MCNext ==
  /\ UNCHANGED part
  /\ Next
  /\ part = "in" => /\ writes' <= 1
                    /\ \A p \in Writers : left'[p] <= InBytes /\ ch'[p] \in {OneByte, None}
  /\ part = "out" => typed' <= OutTyped /\ rhr' \in OutKeys \union {None}

MCSpec == MCInit /\ [][MCNext]_<<part, vars>>
=============================================================================
