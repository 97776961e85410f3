------------------------------- MODULE Economy -------------------------------
(***************************************************************************)
(* The economics pallet and the public funds on one set of accounts: what  *)
(* is distributed out of the funds becomes stakeable, and the ends of eras *)
(* are computed from what is left.                                         *)
(***************************************************************************)
EXTENDS Economics, PublicFunds

ASSUME EconomyAssumption ==
    FundAccount["testnet"] = TestnetFund /\ FundAccount["sale"] = SaleFund

economyVars == <<allEconomicsVars, publicVars>>

EconomyInit == EconomicsInit /\ PublicInit

EconomyNext ==
    \/ EconomicsNext /\ UNCHANGED publicVars
    \/ PublicNext /\ UNCHANGED <<settings, liquidity, owed, adjusted, calls>>

EconomySpec == EconomyInit /\ [][EconomyNext]_economyVars
=============================================================================
