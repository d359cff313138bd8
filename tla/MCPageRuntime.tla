---------------------------- MODULE MCPageRuntime ----------------------------
(* A page of two sections in two languages. *)
EXTENDS PageRuntime

All == <<"intro", "closing">>
MCNarrations == {[l \in Languages |-> IF l \in narrated THEN All ELSE <<>>] :
                   narrated \in {Languages, {"ar"}, {}}}
=============================================================================
