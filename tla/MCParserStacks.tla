---------------------------- MODULE MCParserStacks ----------------------------
(***************************************************************************)
(* ParserStacks over every text in which nothing optional begins after the *)
(* fifth value, nested six rules deep: f(x, g(y, z), w) in a statement of  *)
(* a function and break; while (c) break; continue; in a loop are among    *)
(* them.                                                                   *)
(***************************************************************************)
EXTENDS ParserStacks

MCMaxValues == 5
MCMaxOpen == 6
=============================================================================
