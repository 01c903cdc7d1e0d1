---------------------------- MODULE MCHttpServer ----------------------------
(* Values for model checking HttpServer: a request with a body, then two    *)
(* without one.                                                             *)
EXTENDS HttpServer

MCBodies == <<1, 0, 0>>
MCKinds == <<{"keepAlive"}, {"http10", "expect"}, {"keepAlive"}>>
PlainKinds == <<{"keepAlive"}, {"keepAlive"}, {"keepAlive"}>>
=============================================================================
