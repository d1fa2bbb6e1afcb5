------------------------- MODULE MC_StreamFrameAudit -------------------------
(* Two accepted configurations, and one refused for each requirement.       *)
EXTENDS StreamFrameAudit

MCConfigs == {<<5, 2, 2>>, <<9, 3, 1>>, <<3, 2, 1>>, <<5, 1, 1>>, <<5, 4, 1>>,
              <<5, 2, 0>>}
=============================================================================
