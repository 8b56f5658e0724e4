---------------------------- MODULE MCGpuHybrid -----------------------------
EXTENDS GpuHybrid, TLC

MCPlacesOf == 1 :> {0, 12} @@ 2 :> {12, 36} @@ 3 :> {36, 60} @@ 4 :> {60}
MCBatches ==
    {<<Row(1, 0), Row(2, 12), Row(3, 36), Row(4, 60)>>,
     <<Row(4, 60), Row(2, 36), Row(1, 12)>>,
     <<>>}
=============================================================================
