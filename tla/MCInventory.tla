----------------------------- MODULE MCInventory -----------------------------
EXTENDS Inventory

\* Reports that differ in every derived column; the last lists an app twice.
MCReports ==
    {[os |-> {"windows 10"}, antivirus |-> {"disabled"}, software |-> <<"browser", "office">>],
     [os |-> {"windows 11"}, antivirus |-> {"enabled", "disabled"}, software |-> << >>],
     [os |-> {"linux"}, antivirus |-> {}, software |-> <<"browser", "browser">>]}
==============================================================================
