----------------------------- MODULE ApiMethods -----------------------------
(***************************************************************************)
(* The methods of the CAP API and of the public API: each writes the path   *)
(* of the request and hands it to DoRequest of HttpClient.                 *)
(* Most paths have a placeholder, which DoRequest fills in from the        *)
(* parameters of the caller; three methods put a parameter into the path   *)
(* with fmt.Sprintf, where it is not escaped and a missing one is "".      *)
(* The verb, and what the text of a path says, are left out.               *)
(*                                                                         *)
(* A definition named X_Something is X with one plausible slip; it is used *)
(* only to show that the properties notice that slip.                      *)
(***************************************************************************)
EXTENDS HttpClient

\* The text of the path goes on after the placeholder, or ends with it.
Of(key) == <<Text, Hole(key), Text>>
By(key) == <<Text, Hole(key)>>

\* A method: its path, the parameter that Sprintf appends, what it sends.
Method(to, appends, sends) == [path |-> to, appends |-> appends, sends |-> sends]
Bare(to) == Method(to, "none", "nothing")
Body(to) == Method(to, "none", "json")
Formatted(key) == Method(<<Text>>, key, "json")

Gambling ==
    [GetCapBrand |-> Bare(By("id")), DeleteCapBrand |-> Bare(By("id")),
     CreateCapBrand |-> Body(<<Text>>), UpdateBrandStatus |-> Body(Of("id")),
     UpdateCapBrand |-> Body(By("id")), UpdateCapBrandError |-> Body(By("id")),
     GetCapCategory |-> Bare(By("id")), DeleteCapCategory |-> Bare(By("id")),
     CreateCapCategory |-> Body(<<Text>>), UpdateCapCategory |-> Body(By("id")),
     UpdateCapCategoryError |-> Body(By("id")),
     UpdateCapCollectionStatus |-> Body(Of("id")), UpdateCapCategoryStatus |-> Body(Of("id"))]

Games ==
    [GetGames |-> Bare(By("id")), UpdateGamesStatus |-> Body(By("id")), UpdateGames |-> Body(By("id"))]

Labels == [CreateLabel |-> Body(<<Text>>), GetLabel |-> Bare(By("labelUUID"))]

WalletMethods(ofLimits) ==
    [UpdateBlockers |-> Body(Of("player_uuid")), GetBlockers |-> Bare(Of("player_uuid")),
     GetPlayerLimits |-> Bare(Of(ofLimits)),
     CreateBalanceAdjustment |-> Body(Of("player_uuid")),
     CreateBlockAmount |-> Body(Of("player_uuid")), GetBlockAmountList |-> Bare(Of("player_uuid")),
     GetWalletList |-> Bare(Of("player_uuid")), DeleteBlockAmount |-> Bare(By("block_uuid"))]
Wallets_OneKey == WalletMethods("player_uuid")
Wallets == WalletMethods("playerID")

CapPlayer == [UpdateVerificationStatus |-> Formatted("verification_id")]

CheckAdmin == [CheckAdmin |-> Body(<<Text>>)]

Limits ==
    LET sets == {"SetSingleBetLimit", "SetCasinoLossLimit", "SetRestriction", "SetTurnoverLimit"}
        gets == {"GetTurnoverLimits", "GetSingleBetLimits", "GetRestriction", "GetCasinoLossLimits"}
        updates == {"UpdateSingleBetLimit", "UpdateRecalculatedLimit"}
    IN  [name \in sets \cup gets \cup updates |->
            IF name \in sets THEN Body(<<Text>>)
            ELSE IF name \in gets THEN Bare(<<Text>>) ELSE Formatted("limitID")]

\* VerifyIdentity copies its body to the fields of a form, and leaves it there.
PublicPlayer ==
    [FastRegistration |-> Body(<<Text>>), FullRegistration |-> Body(<<Text>>),
     TokenCheck |-> Body(<<Text>>), UpdatePlayer |-> Body(<<Text>>),
     RequestContactVerification |-> Body(<<Text>>), ConfirmContact |-> Body(<<Text>>),
     VerifyContact |-> Body(<<Text>>), GetVerificationStatus |-> Bare(<<Text>>),
     VerifyIdentity |-> Method(<<Text>>, "none", "form")]

Payment == [CreateDeposit |-> Body(<<Text>>)]

PublicWallets ==
    [GetWallets |-> Bare(<<Text>>), RemoveWallet |-> Bare(<<Text>>),
     CreateWallet |-> Body(<<Text>>), SwitchWallet |-> Body(<<Text>>)]

\* No two interfaces have a method of the same name.
Methods ==
    LET tables == {Gambling, Games, Labels, Wallets, CapPlayer, CheckAdmin,
                   Limits, PublicPlayer, Payment, PublicWallets}
    IN  [name \in UNION {DOMAIN table : table \in tables} |->
            (CHOOSE table \in tables : name \in DOMAIN table)[name]]

\* The parameters that the suites give to a method, one of which is its item.
GivenBySuites(name) ==
    CASE name \in (DOMAIN Gambling \cup DOMAIN Games) \ {"CreateCapBrand", "CreateCapCategory"} -> {"id"}
      [] name = "GetLabel" -> {"labelUUID"}
      [] name = "GetPlayerLimits" -> {"playerID"}
      [] name = "DeleteBlockAmount" -> {"block_uuid"}
      [] name \in DOMAIN Wallets \ {"GetPlayerLimits", "DeleteBlockAmount"} -> {"player_uuid"}
      [] name \in DOMAIN CapPlayer -> {"verification_id"}
      [] name \in {"UpdateSingleBetLimit", "UpdateRecalculatedLimit"} -> {"limitID"}
      [] OTHER -> {}

\* Every parameter that the suites give is a key.
ASSUME KeysAssumption == \A name \in DOMAIN Methods : GivenBySuites(name) \subseteq Keys

Appended(key, given) == IF key \in DOMAIN given THEN given[key] ELSE << >>

Call(name, given) ==
    LET m == Methods[name]
    IN  DoRequest(m.path \o Appended(m.appends, given), given,
                  m.sends # "nothing", m.sends = "form", "none")
=============================================================================
