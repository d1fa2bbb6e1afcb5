--------------------------- MODULE MC_FaultCampaign ---------------------------
(* Two cube bits and one controller bit; a diagnosis of three faults a       *)
(* profile, of which both are expected to be silent or to change one bit.   *)
EXTENDS FaultCampaign

MCRegionBits == <<2, 1, 0, 0, 0>>
MCCasesPerProfile == [replication |-> 2, diagnosis |-> 1,
                      nonce_family |-> 3, key_family |-> 3]
MCExpectedSilent == <<2, 1, 2>>
MCExpectedOneBit == <<1, 1, 1>>
=============================================================================
