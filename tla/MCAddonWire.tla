----------------------------- MODULE MCAddonWire -----------------------------
(***************************************************************************)
(* An instance of AddonWire for TLC: a probe that may send its command     *)
(* again, and a bridge.                                                    *)
(***************************************************************************)
EXTENDS AddonWire, TLC

CONSTANT probe

Probe == {probe}
Twice == probe :> 2
=============================================================================
