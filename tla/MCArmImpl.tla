------------------------------ MODULE MCArmImpl ------------------------------
(***************************************************************************)
(* Instance of ArmImpl: a device that starts in drag mode, its motors      *)
(* under MIT control.                                                      *)
(***************************************************************************)
EXTENDS ArmImpl

MCBootModes == {[arm |-> "drag", control |-> "mit"]}

=============================================================================
