----------------------------- MODULE MCHttpServer ----------------------------
\* The bodies of the run of HttpServer: none, a character of one byte and one
\* of two, two bytes that are no character, and a text that ends in a NUL.
EXTENDS HttpServer

MCBodies == {<<>>, <<"text", "lead", "trail">>, <<"trail", "lead">>,
             <<"text", "nul">>}
=============================================================================
