----------------------------- MODULE Selection -----------------------------
(***************************************************************************)
(* Which files are reviewed, and what a file is expected to cost: the      *)
(* filters that the review of a diff, the full scan and their previews     *)
(* share.  A file is a record of what the filters ask about it.            *)
(***************************************************************************)
EXTENDS Naturals

CONSTANTS
  PromptOverhead,  \* promptOverheadTokens
  MainRounds,      \* avgMainRoundsPerFile
  RoundOutput,     \* avgOutputTokensPerRound
  PlanOutput       \* tokens of a plan's answer

ASSUME SelectionAssumption ==
  {PromptOverhead, MainRounds, RoundOutput, PlanOutput} \subseteq Nat

\* What git and the file system say of a path, and what the rules say.
FileFacts ==
  [regular : BOOLEAN, readable : BOOLEAN, ignored : BOOLEAN, tooBig : BOOLEAN,
   binary : BOOLEAN, userExcluded : BOOLEAN, userIncluded : BOOLEAN,
   allowedExt : BOOLEAN, excludedPath : BOOLEAN, tokens : Nat]

\* Provider.Enumerate: what cannot be read is left out with a warning; a binary
\* file is listed without its content.
Enumerated(file) ==
  ~file.ignored /\ file.regular /\ ~file.tooBig /\ file.readable

\* whyExcluded, in this order; userIncluded needs a non-empty include list.
WhyExcluded(file) ==
  IF file.binary THEN "binary"
  ELSE IF file.userExcluded THEN "user_rule"
  ELSE IF file.userIncluded THEN "none"
  ELSE IF ~file.allowedExt THEN "unsupported_ext"
  ELSE IF file.excludedPath THEN "default_path"
  ELSE "none"

WillReview(file) == WhyExcluded(file) = "none"

\* PromptTokenLimit: 80% of max_tokens.
PromptTokenLimit(maxTokens) == (maxTokens * 4) \div 5

\* filterLargeDiffs and filterLargeScans.
TooLarge(file, maxTokens) ==
  PromptTokenLimit(maxTokens) > 0 /\ file.tokens > PromptTokenLimit(maxTokens)

\* estimateFileTokens and estimateDiffFileTokens.
EstimatedTokens(file, plan) ==
  IF file.binary \/ file.tokens = 0 THEN 0
  ELSE (IF plan THEN file.tokens + PromptOverhead + PlanOutput ELSE 0)
       + MainRounds * (file.tokens + PromptOverhead + RoundOutput)
=============================================================================
