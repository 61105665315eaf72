----------------------------- MODULE RuleLayers -----------------------------
(***************************************************************************)
(* Review rules: the layers a resolver is composed of, the rule it gives a *)
(* path, the file filter it is given, and the field list its digest is     *)
(* made of.  A glob pattern is the set of paths it matches, a rule text is *)
(* a sequence of texts (a merge concatenates them), <<>> the empty text.   *)
(***************************************************************************)
EXTENDS Naturals, Sequences, SequencesExt

CONSTANTS
  Paths,
  Docs,         \* rule files that an entry may name instead of a text
  Inline,       \* the entry holds its text itself
  SystemTexts   \* the embedded rules: the text of each path

ASSUME RuleAssumption == Inline \notin Docs

NoText == <<>>

Entry == [path : SUBSET Paths, rule : Seq(STRING), ref : Docs \union {Inline},
          merge : BOOLEAN]

ProjectRule == [rules : Seq(Entry), include : SUBSET SUBSET Paths,
                exclude : SUBSET SUBSET Paths]

\* A layer that is missing rules nothing, as a nil *ProjectRule does.
NoLayer == [rules |-> <<>>, include |-> {}, exclude |-> {}]

\* resolveRuleEntries: what the named file holds, or nothing when it cannot be
\* read beneath dir.
Loaded(layer, dir) ==
  LET Read(e) == IF e.ref = Inline THEN e ELSE [e EXCEPT !.rule = dir[e.ref]]
  IN  [layer EXCEPT !.rules = [i \in DOMAIN @ |-> Read(@[i])]]

\* matchProjectRuleEntry: an entry without a text counts only when it merges.
Matches(entry, path) == (entry.rule # NoText \/ entry.merge) /\ path \in entry.path

\* The places of the matching entries: a layer and an index in it.
Matching(layers, path) ==
  {p \in UNION {{l} \X DOMAIN layers[l].rules : l \in DOMAIN layers} :
     Matches(layers[p[1]].rules[p[2]], path)}

FirstPlace(places) ==
  CHOOSE p \in places : \A q \in places : p[1] < q[1] \/ (p[1] = q[1] /\ p[2] <= q[2])

MergeWithSystemRule(path, rule) == SystemTexts[path] \o rule

\* composedResolver.Resolve: custom, project, global, then the embedded rules.
Resolve(layers, path) ==
  LET places == Matching(layers, path)
      place == FirstPlace(places)
      entry == layers[place[1]].rules[place[2]]
  IN  IF places = {} THEN SystemTexts[path]
      ELSE IF entry.merge THEN MergeWithSystemRule(path, entry.rule)
      ELSE entry.rule

\* buildFileFilter: the first layer that filters at all.
BuildFileFilter(layers) ==
  LET filtering == SelectSeq(layers, LAMBDA l : l.include # {} \/ l.exclude # {})
  IN  IF filtering = <<>> THEN [include |-> {}, exclude |-> {}]
      ELSE [include |-> filtering[1].include, exclude |-> filtering[1].exclude]

IsUserExcluded(filter, path) == \E pattern \in filter.exclude : path \in pattern
IsUserIncluded(filter, path) == \E pattern \in filter.include : path \in pattern

EntryFields(name, e) == <<name, e.path, e.rule, e.merge>>

\* appendLayer
LayerFields(name, layer) ==
  [i \in DOMAIN layer.rules |-> EntryFields(name, layer.rules[i])]

\* CanonicalConfig and the filter, in the order they are hashed.
RuleConfig(layers, filter) ==
  <<LayerFields("custom", layers[1]) \o LayerFields("project", layers[2])
      \o LayerFields("global", layers[3]), SystemTexts, filter>>
=============================================================================
