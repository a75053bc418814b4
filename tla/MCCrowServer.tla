---------------------------- MODULE MCCrowServer ----------------------------
(* The server with two connections: partial requests, requests that keep   *)
(* or close the connection, an expected 100-continue with the body in the  *)
(* same read, two requests in one read, the second of which takes back the *)
(* first one's wish to close, and garbage.                                 *)
EXTENDS CrowServer

SomeContents ==
    {<<>>, <<"keep">>, <<"close">>, <<"close", "keep">>, <<"expect", "close">>, <<"error">>}
=============================================================================
