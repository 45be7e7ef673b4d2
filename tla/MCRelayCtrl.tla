----------------------------- MODULE MCRelayCtrl -----------------------------
(* RelayCtrl with two decades (0-99 Ohm, every value and digit) and three    *)
(* relays that may be driven by hand: a bridge, a tap and a bypass.          *)
EXTENDS RelayCtrl

MCRelayInputs == {<<1, 0>>, <<1, 3>>, <<2, 1>>}
=============================================================================
