-------------------------- MODULE MCRetryOnLogout --------------------------
(* A small instance of RetryOnLogout for TLC: a site that changes its      *)
(* answer, or gives less of it.                                            *)
EXTENDS RetryOnLogout

ManyReplies == {<<"a", "b", "c">>, <<"a", "c">>, <<"a">>, <<>>}
=============================================================================
