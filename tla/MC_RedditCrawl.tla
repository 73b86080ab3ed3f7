--------------------------- MODULE MC_RedditCrawl ---------------------------
(* Five comments: three threads, a removed root with a chain of two below it. *)
EXTENDS RedditCrawl

MCOrder == <<"a", "d", "e", "b", "c">>
MCParent == [a |-> "post", b |-> "post", c |-> "post", d |-> "a", e |-> "d"]
MCChains == {<<"client_id", "session">>, <<"session", "browser">>, <<"browser">>}

Asking(page, rounds, maxTop, maxComments) ==
    [page |-> page, rounds |-> rounds, maxTop |-> maxTop, maxComments |-> maxComments]
MCRequests == {Asking("thread", 2, 1, 0), Asking("share", 1, 0, 2), Asking("listing", 0, 0, 0)}
=============================================================================
