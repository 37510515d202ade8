------------------------------ MODULE Mappers ------------------------------
(***************************************************************************)
(* pkg/mappers/mappers.go: the words of the CAP API and the numbers of the *)
(* wallet's events.  The test of a balance adjustment asks with the words  *)
(* and compares the numbers of the event with what these functions make of *)
(* them.                                                                   *)
(***************************************************************************)
LOCAL INSTANCE Integers

\* The tables, from the number to the word.
ReasonTable == [code \in 0 .. 2 |-> << "Malfunction", "OperationalMistake", "BalanceCorrection" >>[code + 1]]

OperationTable ==
    [code \in 0 .. 7 |-> << "Correction", "Deposit", "Withdrawal", "Gift",
                             "ReferralCommission", "Cashback", "TournamentPrize", "Jackpot" >>[code + 1]]

\* for k, v := range table: some number of the word, whichever the map gives
\* first, or else the number given.
Codes(table, word, unknown) ==
    LET found == {code \in DOMAIN table : table[code] = word} IN
    IF found = {} THEN {unknown} ELSE found

MapReasonToNats(word) == Codes(ReasonTable, word, 3)
MapOperationTypeToNats(word) == Codes(OperationTable, word, 0)
MapDirectionToNats(word) == IF word = "Decrease" THEN 0 ELSE 1
=============================================================================
