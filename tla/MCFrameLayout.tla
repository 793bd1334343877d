---------------------------- MODULE MCFrameLayout ----------------------------
(***************************************************************************)
(* FrameLayout for a function with nine parameters, one of which is passed *)
(* on the stack, and a function without parameters that calls it.          *)
(***************************************************************************)
EXTENDS FrameLayout, SequencesExt

MCArity == <<9, 0>>
MCReturns == <<"int", "void">>
MCShapes == {<<2>>, <<2, 1>>}
\* size = 4; size *= ... of VarDefAST::Dump, and return_size_of_value
MCSizeOf(d) == FoldSeq(LAMBDA x, y : x * y, 4, d)
MCMaxLines == <<0, 3>>
=============================================================================
