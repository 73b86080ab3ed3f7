--------------------------- MODULE MC_SiteEngines ---------------------------
(* Five comments: three threads, one of them with a chain of two below it.   *)
EXTENDS SiteEngines

MCKinds == DOMAIN Plan
MCOrder == <<"a", "d", "e", "b", "c">>
MCParent == [a |-> "post", b |-> "post", c |-> "post", d |-> "a", e |-> "d"]
MCPatches == {<<>>, <<1, 3, 1>>, <<2, 2>>}
MCCaps == {[top |-> 2, per |-> 0, max |-> 4], [top |-> 0, per |-> 2, max |-> 2]}
=============================================================================
