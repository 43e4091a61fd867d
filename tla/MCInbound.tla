----------------------------- MODULE MCInbound ------------------------------
(* Instances of Inbound for TLC. *)
EXTENDS Inbound, TLC

CONSTANTS r1, r2, bad, c1, h1, h2, obj

\* r1 draws an id that MessagePack cuts to a wide one; r2 one it can write in
\* a narrow form.
IdWide == 5
OneAnswer == {[ok |-> FALSE, errc |-> "Unauthorized", obj |-> obj]}
UnitError == {[ok |-> FALSE, errc |-> "Unknown", obj |-> Nil]}

IdOfAll == (r1 :> (WordMax + 1 + IdWide)) @@ (r2 :> 2) @@ (bad :> IdWide)
InboundsOfAll == {<<r1, 0>>, <<r1, 1>>, <<r2, 0>>, <<bad, 0>>}
=============================================================================
