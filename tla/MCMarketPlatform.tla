------------------------- MODULE MCMarketPlatform -------------------------
EXTENDS MarketPlatform

MCProviders == <<"gateio", "yahoo">>
=============================================================================
