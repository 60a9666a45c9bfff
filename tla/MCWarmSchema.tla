--------------------------- MODULE MCWarmSchema ----------------------------
(* Two big schemas of one length, a small one and a prompt without any;    *)
(* two queries of different lengths with the first schema, so that its     *)
(* rows sit at different positions.                                        *)
EXTENDS WarmSchema, TLC

CONSTANTS all6, other6, pair, ask1, ask2, askOther, askPair, plain, o1, o2

MCPrompts == {ask1, ask2, askOther, askPair, plain}
MCSchemas == {all6, other6, pair}
MCNQ == ask1 :> 1 @@ ask2 :> 2 @@ askOther :> 1 @@ askPair :> 2 @@ plain :> 3
MCSchema == ask1 :> all6 @@ ask2 :> all6 @@ askOther :> other6 @@ askPair :> pair
            @@ plain :> None
MCNS == all6 :> 2 @@ other6 :> 2 @@ pair :> 1
MCObjs == {o1, o2}
=============================================================================
