------------------------------- MODULE MCStmtRun -------------------------------
(***************************************************************************)
(* StmtDump and StmtRun on every function body up to BodySize, every       *)
(* control body of ControlSize, and every pair of functions with small     *)
(* bodies, of which the first one is run.  The sets are computed once      *)
(* (AllBodies, ...); the cfg gives them to the constants under the MC      *)
(* names.                                                                  *)
(***************************************************************************)
EXTENDS StmtRun, SysYTrees

AllBodies == Bodies(BodySize) \cup ControlBodies(ControlSize)
AllExps == ExpsIn(AllBodies)
AllStmts == StmtsIn(AllBodies)
AllBlocks == BlocksIn(AllBodies)
AllPrograms == {<<b>> : b \in AllBodies}
               \cup {<<a, b>> : a \in Bodies(1), b \in Bodies(2)}

MCExps == AllExps
MCStmts == AllStmts
MCBlocks == AllBlocks
MCPrograms == AllPrograms
\* 2 and not 1: a true value that || and && must turn into 1
MCValues == {0, 2}
=============================================================================
