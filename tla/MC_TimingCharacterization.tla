---------------------- MODULE MC_TimingCharacterization ----------------------
(* Every target in one short campaign; one target in campaigns too short    *)
(* and long enough for a verdict; and a refusal for each requirement.       *)
EXTENDS TimingCharacterization

MCConfigs == {<<t, 4, 1>> : t \in Targets}
                 \cup {<<"PositiveControl", 6, b>> : b \in 1..2}
                 \cup {<<"Unknown", 4, 1>>, <<"Seal", 2, 1>>, <<"Seal", 5, 1>>,
                       <<"Seal", 4, 0>>}
=============================================================================
