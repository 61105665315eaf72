--------------------------- MODULE MCReviewInput ---------------------------
(* Values of ReviewInput's constants for TLC.                              *)
EXTENDS ReviewInput

CONSTANTS m1, m2

TheSystemTexts == [p \in Paths |-> <<"built in">>]

File(entries, exclude) == [rules |-> entries, include |-> {}, exclude |-> exclude]

Says(paths, text, merge) ==
  [path |-> paths, rule |-> <<text>>, ref |-> Inline, merge |-> merge]

Names(paths, doc) == [path |-> paths, rule |-> NoText, ref |-> doc, merge |-> FALSE]

\* One rule, with and without the embedded one, and an invalid file.
SomeTargetFiles ==
  {File(<<Says({"a"}, "strict", FALSE)>>, {}), File(<<Says({"a"}, "strict", TRUE)>>, {}),
   File(<<>>, {})}

HeadFile == File(<<Names({"a", "b"}, "doc")>>, {{"b"}})

SomeRuleFiles == SomeTargetFiles \union {HeadFile}

Tree(a, b, rules, text) ==
  [diff |-> [p \in Paths |-> IF p = "a" THEN a ELSE b], rules |-> rules,
   docs |-> [d \in Docs |-> text]]

HeadWithoutRules == Tree("d1", "long", Missing, NoText)

\* A head without rules, one that cannot be read, and one that names a file
\* of the head and excludes a path.
SomeHeads ==
  {HeadWithoutRules, Tree("d1", Gone, Broken, NoText),
   Tree("d2", "d1", HeadFile, <<"own">>)}

\* The second merge request starts without rules of its own.
SecondIsPlain == heads[m2].tree = HeadWithoutRules

NoGlobal == NoLayer
=============================================================================
