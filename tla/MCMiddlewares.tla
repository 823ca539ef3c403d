--------------------------- MODULE MCMiddlewares ---------------------------
(* Middlewares on two GET requests for one URL, which robots.txt always    *)
(* forbids, a POST to another URL of that host, and a GET to another host. *)
EXTENDS Middlewares

CONSTANTS get1, get2, post, other, hostA, hostB

MCUrlOf == [r \in Requests |->
              CASE r \in {get1, get2} -> "/page" [] r = post -> "/form" [] OTHER -> "/other"]
MCHostOf == [u \in {"/page", "/form", "/other"} |-> IF u = "/other" THEN hostB ELSE hostA]

MCTwoAnswers == {{"/page"}, {"/page", "/form"}}
=============================================================================
