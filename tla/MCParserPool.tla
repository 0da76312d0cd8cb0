---------------------------- MODULE MCParserPool ----------------------------
(* An instance of ParserPool for TLC: two descriptors and two connections,   *)
(* on different descriptors or one after the other on the same; the two      *)
(* parser threads of server.conf.  The stream of the first connection begins *)
(* with an invalid length.                                                   *)
EXTENDS ParserPool

MCJunk == {<<1, 1>>}
=============================================================================
