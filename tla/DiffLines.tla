----------------------------- MODULE DiffLines -----------------------------
(***************************************************************************)
(* diff: git's text of a change is parsed into files and hunks, and a      *)
(* review comment, which quotes code, is given the lines that hold it.     *)
(*                                                                         *)
(* The change is written line by line as an edit script; git's text of it  *)
(* is lines of a first character and a rest, so that a deleted line        *)
(* "-- /dev/null" reads as the header "--- /dev/null".                     *)
(***************************************************************************)
EXTENDS Integers, Sequences, FiniteSets, SequencesExt, FiniteSetsExt

CONSTANTS
  Contents,          \* lines of a file
  Blank,             \* those normalizeLine leaves empty
  DiffContextLines,  \* 3 in the code
  MaxLines,          \* bound: lines of an edit script, half for other kinds
  Changes            \* what happens to F and to the file after it in the diff,
                     \* and the .gitignore, a sequence of Pattern

\* A pattern: does it match the file's path, is it negated, is it "dir/".
Pattern == [matches : BOOLEAN, negated : BOOLEAN, dir : BOOLEAN]

FileKinds == {"modified", "new", "deleted", "renamed", "binary"}

ASSUME DiffAssumption ==
  Changes \subseteq [kind : FileKinds, next : FileKinds, ignore : Seq(Pattern)]

VARIABLES
  script,    \* the edit of file F: operations with their lines
  kind,      \* what happens to F
  next,      \* what happens to the file after F in the diff
  ignore,    \* patterns of .gitignore
  diffs,     \* Provider.GetDiff's answer
  comment    \* LlmComment: the code it quotes and its lines

diffVars == <<script, kind, next, ignore, diffs, comment>>

NotRead == <<>>

NoComment == [code |-> <<>>, start |-> 0, end |-> 0]

\* normalizeLine: the blank of a line and one marker before it are dropped.
Normalized(line) == IF line = "-x" THEN "x" ELSE line

-----------------------------------------------------------------------------
(* git: the two sides of a script and its text. *)

LinesOf(s, but) ==
  LET side == SelectSeq(s, LAMBDA e : e.op # but)
  IN  [i \in DOMAIN side |-> side[i].line]

OldFile(s) == LinesOf(s, "add")
NewFile(s) == LinesOf(s, "del")

Shown(s) == {i \in DOMAIN s : \E c \in DOMAIN s :
               s[c].op # "keep" /\ i - c \in -DiffContextLines .. DiffContextLines}

\* The first line a hunk that begins at i has on a side.
FirstLine(s, i, but) ==
  LET before == Cardinality({k \in 1 .. i - 1 : s[k].op # but})
      has == \E k \in i .. Len(s) : i .. k \subseteq Shown(s) /\ s[k].op # but
  IN  IF has THEN before + 1 ELSE before

Line(first, rest) == [first |-> first, rest |-> rest, old |-> 0, new |-> 0]

HunkHeader(s, i) ==
  [first |-> "@", rest |-> "", old |-> FirstLine(s, i, "add"),
   new |-> FirstLine(s, i, "del")]

Mark == [keep |-> " ", add |-> "+", del |-> "-"]

HunkText(s) ==
  FlattenSeq([i \in DOMAIN s |->
    IF i \notin Shown(s) THEN <<>>
    ELSE (IF i - 1 \in Shown(s) THEN <<>> ELSE <<HunkHeader(s, i)>>)
           \o <<Line(Mark[s[i].op], s[i].line)>>])

OldName == Line("-", "-- a/path")
NewName == Line("+", "++ b/path")
NoOldName == Line("-", "-- /dev/null")
NoNewName == Line("+", "++ /dev/null")

FileText(path, k, s) ==
  <<Line("d", path)>>
    \o (CASE k = "modified" -> <<Line("i", ""), OldName, NewName>>
          [] k = "new" -> <<Line("n", ""), Line("i", ""), NoOldName, NewName>>
          [] k = "deleted" -> <<Line("e", ""), Line("i", ""), OldName, NoNewName>>
          [] k = "renamed" -> <<Line("r", "old"), Line("i", ""), OldName, NewName>>
          [] k = "binary" -> <<Line("i", ""), Line("B", "")>>)
    \o HunkText(s)

-----------------------------------------------------------------------------
(* ParseDiffText. *)

NewDiff(path) ==
  [old |-> path, new |-> path, isNew |-> FALSE, isDeleted |-> FALSE,
   isRenamed |-> FALSE, isBinary |-> FALSE, insertions |-> 0, deletions |-> 0,
   text |-> <<>>, content |-> <<>>]

\* What a line says of its file, by its place in a hunk or before one.
Noted(d, t, inHunk) ==
  CASE t.first = "n" -> [d EXCEPT !.isNew = TRUE]
    [] t.first = "e" -> [d EXCEPT !.isDeleted = TRUE]
    [] t.first = "r" -> [d EXCEPT !.isRenamed = TRUE, !.old = t.rest]
    [] t.first = "B" /\ ~inHunk -> [d EXCEPT !.isBinary = TRUE]
    [] t = NoOldName /\ ~inHunk -> [d EXCEPT !.isNew = TRUE]
    [] t = NoNewName /\ ~inHunk -> [d EXCEPT !.isDeleted = TRUE]
    [] t.first = "+" /\ inHunk -> [d EXCEPT !.insertions = @ + 1]
    [] t.first = "-" /\ inHunk -> [d EXCEPT !.deletions = @ + 1]
    [] OTHER -> d

\* Mutant of InHunkAfter: a new file does not end the hunk.
InHunkAfterAny(inHunk, t) == inHunk \/ t.first = "@"

InHunkAfter(inHunk, t) == t.first # "d" /\ (inHunk \/ t.first = "@")

\* The index line of a header is left out of the file's text.
ReadLine(acc, t) ==
  LET n == Len(acc.diffs)
      in == InHunkAfter(acc.inHunk, t)
  IN  [inHunk |-> in,
       diffs |->
         IF t.first = "d" THEN Append(acc.diffs, [NewDiff(t.rest) EXCEPT !.text = <<t>>])
         ELSE IF n = 0 \/ (t.first = "i" /\ ~in) THEN acc.diffs
         ELSE [acc.diffs EXCEPT ![n] = [Noted(@, t, in) EXCEPT !.text = Append(@, t)]]]

\* finalizeDiff: a file that git show cannot read has no content.
Finalized(d, content, readable) ==
  IF d.isDeleted THEN [d EXCEPT !.new = "/dev/null"]
  ELSE [d EXCEPT !.content = IF readable THEN content ELSE <<>>]

ParseDiffText(text) == FoldLeft(ReadLine, [inHunk |-> FALSE, diffs |-> <<>>], text).diffs

\* isPathExcluded: the last pattern that applies decides; a negated directory
\* pattern applies to no file.
IsPathExcluded(patterns) ==
  FoldLeft(LAMBDA excluded, p :
             IF p.matches /\ ~(p.negated /\ p.dir) THEN ~p.negated ELSE excluded,
           FALSE, patterns)

\* filterDiffs; the other file is matched by no pattern.
FilterDiffs(ds) ==
  SelectSeq(ds, LAMBDA d : ~(IsPathExcluded(ignore) /\ d.new # "next" /\ d.old # "next"))

-----------------------------------------------------------------------------
(* ParseHunks and the lines of its sides. *)

LineType == [c \in {" ", "+", "-"} |->
               CASE c = " " -> "keep" [] c = "+" -> "add" [] c = "-" -> "del"]

ReadHunkLine(hunks, t) ==
  CASE t.first = "@" -> Append(hunks, [old |-> t.old, new |-> t.new, lines |-> <<>>])
    [] hunks # <<>> /\ t.first # "@" ->
         [hunks EXCEPT ![Len(hunks)].lines =
            Append(@, [type |-> LineType[t.first], content |-> t.rest])]
    [] OTHER -> hunks

ParseHunks(text) == FoldLeft(ReadHunkLine, <<>>, text)

\* Mutant of NotOnSide: every line moves the numbers of both sides.
NotOnSideNone(side) == "none"

\* The lines a side has not.
NotOnSide(side) == IF side = "new" THEN "del" ELSE "add"

ExtractSideLines(h, side) ==
  LET first == IF side = "new" THEN h.new ELSE h.old
      but == NotOnSide(side)
      numbered == [k \in DOMAIN h.lines |->
        [type |-> h.lines[k].type, content |-> Normalized(h.lines[k].content),
         num |-> first + Cardinality({j \in 1 .. k - 1 : h.lines[j].type # but})]]
  IN  SelectSeq(numbered, LAMBDA l : l.type # (IF side = "new" THEN "del" ELSE "add"))

-----------------------------------------------------------------------------
(* ResolveComment. *)

Code(lines) ==
  SelectSeq([i \in DOMAIN lines |-> Normalized(lines[i])], LAMBDA l : l \notin Blank)

\* matchConsecutive: where target stands in lines.
Matches(lines, target) ==
  {i \in 1 .. Len(lines) - Len(target) + 1 :
     \A j \in DOMAIN target : lines[i + j - 1].content = target[j]}

Unresolved == [start |-> 0, end |-> 0]

MatchIn(lines, target) ==
  LET i == Min(Matches(lines, target))
  IN  [start |-> lines[i].num, end |-> lines[i + Len(target) - 1].num]

\* Of the first hunk that has it.
OnSide(hunks, side, target) ==
  LET has == {k \in DOMAIN hunks :
                Matches(ExtractSideLines(hunks[k], side), target) # {}}
  IN  IF has = {} THEN Unresolved
      ELSE MatchIn(ExtractSideLines(hunks[Min(has)], side), target)

\* The lines of the new file that are not blank.
InFile(content, target) ==
  LET numbered == [i \in DOMAIN content |->
                     [num |-> i, content |-> Normalized(content[i])]]
      lines == SelectSeq(numbered, LAMBDA l : l.content \notin Blank)
  IN  IF Matches(lines, target) = {} THEN Unresolved ELSE MatchIn(lines, target)

\* resolveFromHunk, new side first, then resolveFromFileContent.
ResolveComment(d, code) ==
  LET target == Code(code)
      hunks == ParseHunks(d.text)
      tries == <<OnSide(hunks, "new", target), OnSide(hunks, "old", target),
                 InFile(d.content, target)>>
      done == {k \in DOMAIN tries : tries[k] # Unresolved}
  IN  IF target = <<>> \/ done = {} THEN Unresolved ELSE tries[Min(done)]

-----------------------------------------------------------------------------
Windows(lines) ==
  {SubSeq(lines, i, j) : i, j \in DOMAIN lines} \ {<<>>}

DiffInit ==
  /\ script = <<>>
  /\ \E c \in Changes : kind = c.kind /\ next = c.next /\ ignore = c.ignore
  /\ diffs = NotRead
  /\ comment = NoComment

\* The author edits the file; a new one has only added lines.
Edit ==
  /\ diffs = NotRead /\ kind # "binary"
  /\ Len(script) < (IF kind = "modified" THEN MaxLines ELSE MaxLines \div 2)
  /\ \E op \in (CASE kind = "new" -> {"add"} [] kind = "deleted" -> {"del"}
                  [] OTHER -> {"keep", "add", "del"}), line \in Contents :
       script' = Append(script, [op |-> op, line |-> line])
  /\ UNCHANGED <<kind, next, ignore, diffs, comment>>

NextScript == <<[op |-> IF next = "deleted" THEN "del" ELSE "add", line |-> "x"]>>

DiffText == FileText("F", kind, script) \o FileText("next", next, NextScript)

\* GetDiff of a range; without a merge base or with a git error there is none.
GetDiff ==
  /\ diffs = NotRead
  /\ kind = "modified" => \E i \in DOMAIN script : script[i].op # "keep"
  /\ \E readable \in BOOLEAN :
       LET parsed == ParseDiffText(DiffText)
           final == [i \in DOMAIN parsed |->
                       IF i = 1 THEN Finalized(parsed[1], NewFile(script), readable)
                       ELSE Finalized(parsed[i], NewFile(NextScript), readable)]
       IN  diffs' = FilterDiffs(final)
  /\ UNCHANGED <<script, kind, next, ignore, comment>>

Reviewed == diffs # NotRead /\ diffs[1].old # "next" /\ ~diffs[1].isDeleted

\* What the model may quote.
Quotes == Windows(NewFile(script)) \union Windows(OldFile(script))

Located(code, lines) == [code |-> code, start |-> lines.start, end |-> lines.end]

\* code_comment with its lines, and ReLocateComment when none are found: the
\* model quotes the code again, and a quote that is not found either is dropped.
Say ==
  /\ Reviewed /\ comment = NoComment
  /\ \E code \in Quotes :
       LET first == ResolveComment(diffs[1], code)
       IN  IF first # Unresolved THEN comment' = Located(code, first)
           ELSE \E again \in Quotes :
                  LET second == ResolveComment(diffs[1], again)
                  IN  comment' = IF second = Unresolved THEN Located(code, first)
                                 ELSE Located(again, second)
  /\ UNCHANGED <<script, kind, next, ignore, diffs>>

DiffNext == Edit \/ GetDiff \/ Say

DiffSpec == DiffInit /\ [][DiffNext]_diffVars

-----------------------------------------------------------------------------
Holds(lines, c) ==
  c.end <= Len(lines) /\ Code(SubSeq(lines, c.start, c.end)) = Code(c.code)

\* Every file of the diff is read with its own flags and counts, whatever its
\* lines look like, and a hunk's lines have their numbers in both files
\* (parser.go:33, hunk.go:40, resolver.go:133).
ParsedAsWritten ==
  diffs # NotRead =>
    /\ Len(diffs) = 2 \/ IsPathExcluded(ignore)
    /\ LET other == diffs[Len(diffs)]
       IN  /\ other.old = "next"
           /\ other.isNew = (next = "new") /\ other.isDeleted = (next = "deleted")
           /\ other.insertions + other.deletions = 1
    /\ Len(diffs) = 2 =>
         LET d == diffs[1]
             hunks == ParseHunks(d.text)
         IN  /\ d.isNew = (kind = "new") /\ d.isDeleted = (kind = "deleted")
             /\ d.isRenamed = (kind = "renamed") /\ d.isBinary = (kind = "binary")
             /\ d.insertions - d.deletions = Len(NewFile(script)) - Len(OldFile(script))
             /\ \A k \in DOMAIN hunks :
                  /\ \A l \in ToSet(ExtractSideLines(hunks[k], "new")) :
                       /\ l.num \in DOMAIN NewFile(script)
                       /\ l.content = Normalized(NewFile(script)[l.num])
                  /\ \A l \in ToSet(ExtractSideLines(hunks[k], "old")) :
                       /\ l.num \in DOMAIN OldFile(script)
                       /\ l.content = Normalized(OldFile(script)[l.num])

\* A comment's lines hold the code it quotes: in the new file, or in the old
\* one; a comment that quotes code of the new file has lines when the file
\* could be read (resolver.go:56-66).
CommentOnItsCode ==
  /\ comment.start > 0 => Holds(NewFile(script), comment) \/ Holds(OldFile(script), comment)
  /\ comment # NoComment /\ comment.start = 0 =>
       \/ Code(comment.code) = <<>>
       \/ diffs[1].content = <<>>
       \/ comment.code \notin Windows(NewFile(script))

=============================================================================
