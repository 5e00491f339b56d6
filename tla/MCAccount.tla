------------------------------ MODULE MCAccount ------------------------------
(* Account on a small instance: two people share one device, and the one   *)
(* with the Google account has another.                                    *)
EXTENDS Account

CONSTANTS ann, bob, d1, d2

MCClients == {<<d1, bob>>, <<d2, bob>>, <<d2, ann>>}
=============================================================================
