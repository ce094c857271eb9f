------------------------------ MODULE Trading ------------------------------
(***************************************************************************)
(* Both launchpad engines over the same wallet.  A run is of one engine,   *)
(* which its inputs name.                                                  *)
(***************************************************************************)
EXTENDS Sniping, CopyTrading

snipingOnly == until
copyOnly == <<control, callbacks, requests>>
tradingVars == <<sharedVars, snipingOnly, copyOnly>>

TradingInit == SnipingInit /\ CopyInit

TradingNext ==
    \/ run.engine = "sniping" /\ SnipingNext /\ UNCHANGED copyOnly
    \/ run.engine = "copy" /\ CopyNext /\ UNCHANGED snipingOnly

TradingSpec == TradingInit /\ [][TradingNext]_tradingVars
=============================================================================
