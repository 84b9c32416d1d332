------------------------------ MODULE MCUrlWalk ------------------------------
(* A share for TLC: a subtree that is in the saved tree, one that is new,  *)
(* the same names on several levels, and directories that are closed, too  *)
(* big, beyond the limit or taken for a link.                              *)
EXTENDS Scanner
CONSTANTS a, b

MCNames == {a, b}
MCShare == {<<>>, <<a>>, <<b>>, <<a, a>>, <<a, b>>, <<a, b, a>>, <<b, a>>, <<b, a, b>>, <<b, a, b, a>>, <<b, a, a>>}
MCClosed == {<<b, b>>}
MCSaved == {<<>>, <<a>>, <<a, a>>}
MCBeyond == {<<b, a, a>>}
MCBig == {<<a>>}
MCLooped == {<<a, b>>}
None == {}

(* Command lines of up to three arguments.                                 *)
MCArguments == {"-f", "-l", "-a", "-d", "-u", "-U", "-P", "-p80", "-C", "-h", "-x", "--", "word"}
MCCommandLines == UNION {[1..n -> MCArguments] : n \in 0..3}
=============================================================================
