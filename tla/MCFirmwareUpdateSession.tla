----------------------- MODULE MCFirmwareUpdateSession -----------------------
(***************************************************************************)
(* Instance of FirmwareUpdateSession: the old and the new firmware of the  *)
(* device, the new one on another device, and one that tells no identity   *)
(* and speaks another protocol.                                            *)
(***************************************************************************)
EXTENDS FirmwareUpdateSession

MCImages ==
    {[id |-> "arm", version |-> 1, compatible |-> TRUE],
     [id |-> "arm", version |-> 2, compatible |-> TRUE],
     [id |-> "other", version |-> 2, compatible |-> TRUE],
     [id |-> "nobody", version |-> 1, compatible |-> FALSE]}

=============================================================================
