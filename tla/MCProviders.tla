---------------------------- MODULE MCProviders ----------------------------
(***************************************************************************)
(* A symbol's bars, its news and a macro series.  One client is enough:    *)
(* the requests it gives up go on, and three of them can run at once.  The *)
(* circuit opens at the second failure.                                    *)
(***************************************************************************)
EXTENDS Providers

MCFeeds == {"bars", "news", "cpi"}
MCKindOf == [f \in MCFeeds |-> CASE f = "bars" -> "ohlcv" [] f = "news" -> "news" [] OTHER -> "macro"]
=============================================================================
