-------------------------- MODULE MCCampaignAccount --------------------------
(***************************************************************************)
(* CampaignAccount with the real caps and a word that ends just above the  *)
(* last of them, so that every ceiling, the native cap and the end of the  *)
(* word are all crossed by a few changes.                                  *)
(***************************************************************************)
EXTENDS CampaignAccount

MCAmounts == {150000, 4450000}
MCWrites ==
    {<<"add", 3000000>>, <<"add", 8745000>>, <<"set", 170000>>,
     <<"percent", 150>>, <<"catchup", 600000>>}
MCBaselines == {0, 155000}
==============================================================================
