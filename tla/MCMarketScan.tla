--------------------------- MODULE MCMarketScan ---------------------------
EXTENDS MarketScan

CONSTANTS s1, s2, a, y
MCSymbols == <<s1, s2>>
MCRegistry == s1 :> <<a, y>> @@ s2 :> <<>>
MCDiscovered == s1 :> <<>> @@ s2 :> <<y>>
=============================================================================
