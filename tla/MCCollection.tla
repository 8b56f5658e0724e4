---------------------------- MODULE MCCollection ----------------------------
EXTENDS Collection, TLC

MCPlacesOf == 1 :> {0} @@ 2 :> {1} @@ 3 :> {4} @@ 4 :> {9}
MCCoded == 0 :> 1 @@ 1 :> 1 @@ 4 :> 4 @@ 9 :> 9

MCPayloads == {
    "year" :> Whole(1),
    "year" :> Double(12) @@ "lang" :> Text(1),
    "year" :> Whole(12),
    "lang" :> Text(2) @@ "year" :> Double(NaN)}

Early == Where("year", "eq", Whole(1))
Late == Where("year", "eq", Double(12))
German == Where("lang", "eq", Text(1))
Either == OneOf("year", {Whole(1), Double(12)})

MCNodes == {Early, Late, German, Either, Where("year", "ge", Double(12)),
            Has("lang", Text(1)), And(Either, German), Or(Early, German), Not(Early),
            Not(Everything)}

MCWithin == {<<Text(1), Text(1)>>, <<Text(2), Text(2)>>, <<Text(2), Text(1)>>}
=============================================================================
