------------------------------ MODULE MC_Search ------------------------------
(* Three pages, one of them under two spellings.                             *)
EXTENDS Search

MCUrls == {<<"p", "plain">>, <<"p", "www">>, <<"q", "plain">>, <<"r", "plain">>}
=============================================================================
