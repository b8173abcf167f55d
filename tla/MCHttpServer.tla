---------------------------- MODULE MCHttpServer ----------------------------
(* HttpServer on one way whose clients send anything, and on two ways whose *)
(* clients send whole requests.                                            *)
EXTENDS HttpServer

OneSends == <<Tokens \ {"get10"}>>
OneRxMax == <<2>>

TwoSends == <<{"get11", "get10"}, {"get11"}>>
TwoRxMax == <<1, 1>>
=============================================================================
