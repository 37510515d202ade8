--------------------------- MODULE MCCatalogueTest ---------------------------
(***************************************************************************)
(* CatalogueTest for TLC.  The test of the client alone has paths with two *)
(* parameters, one of them twice, and values that contain the other        *)
(* parameter's placeholder.                                                *)
(***************************************************************************)
EXTENDS CatalogueTest

TwoHoles ==
    {<<Text, Hole("id"), Hole("labelUUID")>>, <<Hole("labelUUID"), Text, Hole("labelUUID")>>, <<Text>>}
PlainAndBraces ==
    UNION {[keys -> {<<Text>>, <<Hole("id")>>, <<Text, Hole("labelUUID")>>}] :
             keys \in SUBSET {"id", "labelUUID"}}
Small == [alias |-> 5, title |-> 4, game |-> 4, iban |-> 2, personal |-> <<2, 1>>, phone |-> 2]
=============================================================================
