------------------------------ MODULE MCSqlWalk ------------------------------
(* The share of MCUrlWalk, all of it open.                                 *)
EXTENDS SqlWalk
CONSTANTS a, b

MCNames == {a, b}
MCShare == {<<>>, <<a>>, <<b>>, <<a, a>>, <<a, b>>, <<a, b, a>>, <<b, a>>, <<b, a, b>>}
MCClosed == {}
MCSaved == {<<>>, <<a>>, <<a, a>>}
MCBeyond == {<<b, a>>}
MCBig == {<<a>>}
None == {}
=============================================================================
