---------------------------- MODULE MCQuoteWizard ----------------------------
EXTENDS QuoteWizard

MCKind == [house |-> "house_wash", tall |-> "house_wash", roof |-> "roof_soft_wash", pool |-> "pool_deck",
           patio |-> "patio", drive |-> "driveway_cleaning", fence |-> "fence",
           call |-> "flat_rate"]
MCMode == [s \in DOMAIN MCKind |-> IF s = "call" THEN "request" ELSE "instant"]

\* An outline meets a researched area and another outline, a driveway's size the
\* questions about the roof, a typed quantity a service that is only requested.
MCCatalogs == {<<"pool", "house">>, <<"pool", "patio">>, <<"drive", "roof">>, <<"fence", "call">>}
\* A company with two prices for a house wash.
MCTwins == {<<"house", "tall">>}
MCAreas  == {1, 2}
MCRoofOf == [a \in MCAreas |-> a]
=============================================================================
