----------------------------- MODULE MCWebView -----------------------------
(* WebView with two projects, each with a job, of which one is shown. *)
EXTENDS WebView

CONSTANTS a, b

MCProjects == <<"p", "q">>
MCProjectOf == [j \in Jobs |-> IF j = b THEN "q" ELSE "p"]

=============================================================================
