----------------------------- MODULE MCTreePatch -----------------------------
(* Contents of a share for TreePatch.  OfNames: names from a set N, each   *)
(* the name of nothing, of a file or of a directory with a content from D. *)
EXTENDS Dump

OfNames(N, Sizes, D, Twins) ==
  UNION {{Content(d, f, t) :
            d \in [A -> D],
            f \in UNION {[B -> Sizes] : B \in SUBSET (N \ A)},
            t \in IF A = {} THEN {0} ELSE Twins} : A \in SUBSET N}

Leaves(N, Sizes) == OfNames(N, Sizes, {}, {0})

\* two names, files of two sizes, subdirectories with files, or closed
WideContents == OfNames({1, 2}, {1, 2}, Leaves({1, 2}, {1}) \cup Leaves({1}, {2}) \cup {Closed}, {0})
\* three levels of directories
DeepContents == OfNames({1}, {1}, OfNames({1, 2}, {1}, Leaves({1, 2}, {1}), {0}), {0})
\* three names, files and subdirectories that are empty or closed
FlatContents == OfNames({1, 2, 3}, {1}, {Empty, Closed}, {0})
(* directories one in another by these names, with a file in the i-th of them *)
RECURSIVE Nested(_, _)
Nested(names, i) ==
  LET f == IF i = 0 THEN (3 :> 1) ELSE <<>>
  IN IF names = <<>> THEN Content(<<>>, f, 0)
     ELSE Content(Head(names) :> Nested(Tail(names), i - 1), f, 0)
NestedContents ==
  {Nested(names, i) : names \in {<<1, 1, 1, 1>>, <<1, 1, 1>>, <<1, 2, 1, 2>>, <<1, 2, 1>>, <<1, 1, 2, 1>>},
                      i \in 0..5}
(* The contents of a run are of one kind; there are two or three of them.  *)
AnyOfOneKind(c, n) ==
  (IF n <= 2 /\ c \in WideContents THEN WideContents ELSE {})
    \cup (IF n <= 2 /\ c \in NestedContents \cup {Empty} THEN NestedContents ELSE {})
    \cup (IF n <= 2 /\ c \in DeepContents THEN DeepContents ELSE {})
    \cup (IF c \in FlatContents THEN FlatContents ELSE {})

\* a subdirectory may be reported twice
Twins(c, n) == OfNames({1, 2, 3}, {1}, {Empty}, {0, 1})
=============================================================================
