---------------------------- MODULE MCInterface ----------------------------
(* Two people, one of them a contact as well, and a contact of two words   *)
(* whose first one is the name of another.                                 *)
EXTENDS Interface

MCUser == {<<"omar">>, <<"layla">>}
MCContact == {<<"layla">>, <<"layla", "smith">>}
=============================================================================
