----------------------------- MODULE MCHotStore -----------------------------
(* HotStore for TLC: one source for the stock's rows, one for the market's. *)
EXTENDS HotStore

CONSTANTS d1, d2

TwoSources == <<{<<"stock", d1>>, <<"stock", d2>>}, {<<"market", d1>>}>>
=============================================================================
