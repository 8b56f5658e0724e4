----------------------------- MODULE MCTraining -----------------------------
EXTENDS Training, TLC

MCPlacesOf == 1 :> {0, 1} @@ 2 :> {4}
MCCoded == 0 :> 1 @@ 1 :> 1 @@ 4 :> 4
MCPayloads == {"year" :> Whole(1)}
MCWithin == {}
MCNodes == {}
=============================================================================
