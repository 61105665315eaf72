---------------------------- MODULE ManifestProofs ----------------------------
(***************************************************************************)
(* For any files and classes: what a Mark call accepted is what the frozen *)
(* manifest reports, only failed files have a class, a refused call leaves *)
(* the builder as it was, and the builder implements module Coverage.      *)
(***************************************************************************)
EXTENDS Manifest, TLAPS

\* The entries and the causes are well typed.
EntriesOK ==
  /\ entries \in [Items -> Item]
  /\ runFailure \in RunClasses \union {Unset}
  /\ pending \in ItemClasses \union {Unset}
  /\ \A f \in Items : entries[f].state = "failed" <=> entries[f].class # Unset

\* An entry keeps the outcome that was accepted for it.
OutcomesHeld ==
  \A o \in accepted :
    /\ o.file \in Items /\ o.state \in Terminal
    /\ entries[o.file] = [state |-> o.state, class |-> o.class]

\* The result is a copy of the entries, which a frozen builder never changes.
ResultIsCopy == frozen => manifest.coverage = entries

ManInv ==
  /\ modeSet \in BOOLEAN /\ frozen \in BOOLEAN /\ sealed \in BOOLEAN
  /\ EntriesOK /\ OutcomesHeld /\ ResultIsCopy

-----------------------------------------------------------------------------
(* The sweep of Finalize. *)

\* What stopped the run gives every swept file a class of its own kind.
LEMMA SweepClassType ==
  ASSUME ManifestAssumption, EntriesOK
  PROVE  SweepClass \in FailureClasses /\ SweepClass # Unset
<1>1. runFailure # Unset => ItemFailureForRunClass(runFailure) \in FailureClasses
  BY DEF EntriesOK, ManifestAssumption, ItemFailureForRunClass, RunFailureClasses,
         FailureClasses
<1>2. pending # Unset => pending \in FailureClasses
  BY DEF EntriesOK, ManifestAssumption
<1>3. SweepClass \in FailureClasses
  BY <1>1, <1>2 DEF SweepClass, FailureClasses
<1> QED BY <1>3 DEF ManifestAssumption

\* The sweep keeps every outcome and types every entry.
LEMMA SweptOK ==
  ASSUME ManifestAssumption, EntriesOK
  PROVE  /\ Swept \in [Items -> Item]
         /\ \A f \in Items :
              /\ Swept[f].state = "failed" <=> Swept[f].class # Unset
              /\ Swept[f].state # "selected"
              /\ entries[f].state # "selected" => Swept[f] = entries[f]
<1>1. SweepClass \in FailureClasses /\ SweepClass # Unset
  BY SweepClassType
<1>2. [state |-> "failed", class |-> SweepClass] \in Item
  BY <1>1 DEF Item, Terminal
<1> QED BY <1>1, <1>2 DEF Swept, EntriesOK

-----------------------------------------------------------------------------
(* What stopped the run: what the calls do to the builder. *)

LEMMA RunFailureCall ==
  ASSUME NEW class, SetRunFailure(class)
  PROVE  \/ UNCHANGED <<builder, accepted>>
         \/ /\ ~frozen /\ lastCall' = "ok" /\ runFailure' = class
            /\ UNCHANGED <<entries, pending, modeSet, sealed, frozen, manifest, accepted>>
BY Zenon DEF SetRunFailure, Refused, Accepted

LEMMA PendingCauseCall ==
  ASSUME NEW class, SetPendingFailureCause(class)
  PROVE  \/ UNCHANGED <<builder, accepted>>
         \/ /\ ~frozen /\ lastCall' = "ok" /\ pending' = class
            /\ UNCHANGED <<entries, runFailure, modeSet, sealed, frozen, manifest,
                           accepted>>
BY Zenon DEF SetPendingFailureCause, Refused, Accepted

-----------------------------------------------------------------------------
(* The invariant. *)

LEMMA InitInv == ManifestAssumption /\ ManInit => ManInv
<1> SUFFICES ASSUME ManifestAssumption, ManInit PROVE ManInv
  OBVIOUS
<1>1. /\ None \in Item /\ None.state # "failed" /\ None.class = Unset
  BY DEF None, Item
<1>2. EntriesOK
  BY <1>1 DEF ManInit, EntriesOK
<1> QED BY <1>2 DEF ManInit, ManInv, OutcomesHeld, ResultIsCopy

\* A call that is refused changes nothing the invariant reads.
LEMMA UnchangedInv == ManInv /\ UNCHANGED <<builder, accepted>> => ManInv'
BY DEF ManInv, EntriesOK, OutcomesHeld, ResultIsCopy, builder

\* A file that joins the selection has no outcome yet.
LEMMA RegisterInv ==
  ASSUME ManifestAssumption, ManInv, NEW f \in Items, RegisterSelected(f)
  PROVE  ManInv'
<1>1. CASE Refused
  BY <1>1, UnchangedInv DEF Refused
<1>2. CASE ~frozen /\ ~sealed
  <2>1. /\ entries' = IF entries[f] = None
                      THEN [entries EXCEPT ![f].state = "selected"] ELSE entries
        /\ UNCHANGED <<runFailure, pending, modeSet, sealed, frozen, accepted>>
    BY <1>2 DEF RegisterSelected
  <2>2. entries[f] = None => [entries[f] EXCEPT !.state = "selected"] \in Item
    BY DEF None, Item
  <2>3. EntriesOK'
    BY <2>1, <2>2 DEF ManInv, EntriesOK, None, Item
  <2>4. OutcomesHeld'
    <3> SUFFICES ASSUME NEW o \in accepted
                 PROVE  /\ o.file \in Items /\ o.state \in Terminal
                        /\ entries'[o.file] = [state |-> o.state, class |-> o.class]
      BY <2>1 DEF OutcomesHeld
    <3>1. /\ o.file \in Items /\ o.state \in Terminal
          /\ entries[o.file] = [state |-> o.state, class |-> o.class]
      BY DEF ManInv, OutcomesHeld
    <3>2. entries[o.file] # None
      BY <3>1 DEF None, Terminal
    <3> QED BY <2>1, <3>1, <3>2 DEF ManInv, EntriesOK
  <2> QED BY <1>2, <2>1, <2>3, <2>4 DEF ManInv, ResultIsCopy
<1> QED BY <1>1, <1>2 DEF RegisterSelected

\* An outcome is accepted for a file that has none, or that has the same.
LEMMA TransitionInv ==
  ASSUME ManifestAssumption, ManInv, NEW f \in Items, NEW to \in Terminal,
         NEW class \in FailureClasses \union {Unset},
         to = "failed" <=> class # Unset,
         Transition(f, to, class)
  PROVE  ManInv'
<1>1. CASE Refused
  BY <1>1, UnchangedInv DEF Refused
<1>2. CASE ~frozen /\ ~Conflicting(entries[f], to, class)
  <2> DEFINE entry == [state |-> to, class |-> class]
  <2>1. /\ entries' = [entries EXCEPT ![f] = entry]
        /\ accepted' = accepted \union {[file |-> f, state |-> to, class |-> class]}
        /\ UNCHANGED <<runFailure, pending, modeSet, sealed, frozen>>
    BY <1>2 DEF Transition
  <2>2. entry \in Item
    BY DEF Item
  <2>3. EntriesOK'
    BY <2>1, <2>2 DEF ManInv, EntriesOK
  <2>4. entries[f] \in Item /\ (entries[f].state = "failed" <=> entries[f].class # Unset)
    BY DEF ManInv, EntriesOK
  <2>5. entries[f].state \in Terminal => entries[f] = entry
    <3> HAVE entries[f].state \in Terminal
    <3>1. entries[f].state = to
      BY <1>2 DEF Conflicting
    <3>2. entries[f].class = class
      BY <1>2, <2>4, <3>1 DEF Conflicting, Terminal
    <3> QED BY <2>4, <3>1, <3>2 DEF Item
  <2>6. OutcomesHeld'
    <3> SUFFICES ASSUME NEW o \in accepted'
                 PROVE  /\ o.file \in Items /\ o.state \in Terminal
                        /\ entries'[o.file] = [state |-> o.state, class |-> o.class]
      BY DEF OutcomesHeld
    <3>1. CASE o \in accepted
      <4>1. /\ o.file \in Items /\ o.state \in Terminal
            /\ entries[o.file] = [state |-> o.state, class |-> o.class]
        BY <3>1 DEF ManInv, OutcomesHeld
      <4> QED BY <2>1, <2>5, <4>1 DEF ManInv, EntriesOK
    <3>2. CASE o = [file |-> f, state |-> to, class |-> class]
      BY <2>1, <3>2 DEF ManInv, EntriesOK
    <3> QED BY <2>1, <3>1, <3>2
  <2> QED BY <1>2, <2>1, <2>3, <2>6 DEF ManInv, ResultIsCopy
<1> QED BY <1>1, <1>2 DEF Transition

\* Finalize refuses, repeats its result, or sweeps and copies.
LEMMA FinalizeInv ==
  ASSUME ManifestAssumption, ManInv, Finalize
  PROVE  ManInv'
<1>1. CASE frozen
  BY <1>1, UnchangedInv DEF Finalize
<1>2. CASE ~frozen /\ Invalid
  BY <1>2, UnchangedInv DEF Finalize, Unswept, Refused
<1>3. CASE ~frozen /\ ~Invalid
  <2>1. /\ entries' = Swept /\ frozen' = TRUE
        /\ manifest' = [terminal |-> TerminalState(Swept), coverage |-> Swept,
                        runFailure |-> runFailure]
        /\ UNCHANGED <<runFailure, pending, modeSet, sealed, accepted>>
    BY <1>3 DEF Finalize
  <2>2. EntriesOK
    BY DEF ManInv
  <2>3. EntriesOK'
    BY <2>1, <2>2, SweptOK DEF EntriesOK
  <2>4. OutcomesHeld'
    <3> SUFFICES ASSUME NEW o \in accepted
                 PROVE  /\ o.file \in Items /\ o.state \in Terminal
                        /\ entries'[o.file] = [state |-> o.state, class |-> o.class]
      BY <2>1 DEF OutcomesHeld
    <3>1. /\ o.file \in Items /\ o.state \in Terminal
          /\ entries[o.file] = [state |-> o.state, class |-> o.class]
      BY DEF ManInv, OutcomesHeld
    <3>2. entries[o.file].state # "selected"
      BY <3>1 DEF Terminal
    <3> QED BY <2>1, <2>2, <3>1, <3>2, SweptOK
  <2>5. manifest'.coverage = entries'
    BY <2>1
  <2> QED BY <2>1, <2>3, <2>4, <2>5 DEF ManInv, ResultIsCopy
<1> QED BY <1>1, <1>2, <1>3

LEMMA NextInv == ManifestAssumption /\ ManInv /\ [ManNext]_manVars => ManInv'
<1> SUFFICES ASSUME ManifestAssumption, ManInv, [ManNext]_manVars PROVE ManInv'
  OBVIOUS
<1>1. CASE SetInput
  BY <1>1 DEF SetInput, ManInv, EntriesOK, OutcomesHeld, ResultIsCopy
<1>2. CASE SealSelected
  BY <1>2 DEF SealSelected, Refused, builder, ManInv, EntriesOK, OutcomesHeld, ResultIsCopy
<1>3. CASE Finalize
  BY <1>3, FinalizeInv
<1>4. ASSUME NEW f \in Items, RegisterSelected(f) PROVE ManInv'
  BY <1>4, RegisterInv
<1>5. ASSUME NEW f \in Items, MarkCompleted(f) PROVE ManInv'
  BY <1>5, TransitionInv DEF MarkCompleted, Terminal
<1>6. ASSUME NEW f \in Items, MarkReused(f) PROVE ManInv'
  BY <1>6, TransitionInv DEF MarkReused, Terminal
<1>7. ASSUME NEW f \in Items, MarkFailed(f) PROVE ManInv'
  <2>1. PICK class \in ItemClasses : Transition(f, "failed", class)
    BY <1>7 DEF MarkFailed
  <2>2. class \in FailureClasses /\ class # Unset
    BY DEF ManifestAssumption
  <2> QED BY <2>1, <2>2, TransitionInv DEF Terminal
<1>8. ASSUME NEW f \in Items, MarkWaived(f) PROVE ManInv'
  BY <1>8, TransitionInv, UnchangedInv DEF MarkWaived, Refused, Terminal
<1>9. ASSUME NEW class \in RunClasses, SetRunFailure(class) PROVE ManInv'
  BY <1>9, RunFailureCall, UnchangedInv DEF ManInv, EntriesOK, OutcomesHeld, ResultIsCopy
<1>10. ASSUME NEW class \in ItemClasses, SetPendingFailureCause(class) PROVE ManInv'
  BY <1>10, PendingCauseCall, UnchangedInv
     DEF ManInv, EntriesOK, OutcomesHeld, ResultIsCopy
<1>11. CASE UNCHANGED manVars
  BY <1>11, UnchangedInv DEF manVars
<1> QED BY <1>1, <1>2, <1>3, <1>4, <1>5, <1>6, <1>7, <1>8, <1>9, <1>10, <1>11 DEF ManNext

LEMMA ManInvariant == ManSpec => []ManInv
<1>1. ManifestAssumption
  BY ManifestAssumption
<1> QED BY <1>1, InitInv, NextInv, PTL DEF ManSpec

-----------------------------------------------------------------------------
(* The builder implements module Coverage. *)

\* A call that leaves the entries and the stage alone is a stutter.
LEMMA StutterStep ==
  ASSUME UNCHANGED <<entries, sealed, frozen>>
  PROVE  UNCHANGED C!covVars
BY DEF C!covVars

\* Only an entry that was never registered is in state "none".
LEMMA NoneIsNone ==
  ASSUME EntriesOK, NEW f \in Items
  PROVE  entries[f] = None <=> entries[f].state = "none"
BY DEF EntriesOK, None, Item

LEMMA RegisterStep ==
  ASSUME ManifestAssumption, ManInv, NEW f \in Items, RegisterSelected(f)
  PROVE  C!Register({f}) \/ UNCHANGED C!covVars
<1>1. CASE Refused
  BY <1>1, StutterStep DEF Refused, builder
<1>2. CASE ~frozen /\ ~sealed
  <2>1. /\ entries' = IF entries[f] = None
                      THEN [entries EXCEPT ![f].state = "selected"] ELSE entries
        /\ UNCHANGED <<sealed, frozen>>
    BY <1>2 DEF RegisterSelected
  <2>2. \A g \in Items :
          entries'[g].state = IF g \in {f} /\ entries[g].state = "none"
                              THEN "selected" ELSE entries[g].state
    <3> SUFFICES ASSUME NEW g \in Items
                 PROVE  entries'[g].state = IF g \in {f} /\ entries[g].state = "none"
                                            THEN "selected" ELSE entries[g].state
      OBVIOUS
    <3>1. EntriesOK
      BY DEF ManInv
    <3>2. CASE entries[f] = None
      <4>1. entries[f].state = "none"
        BY <3>1, <3>2, NoneIsNone
      <4>2. [entries[f] EXCEPT !.state = "selected"].state = "selected"
        BY <3>2 DEF None
      <4>3. entries' = [entries EXCEPT ![f] = [entries[f] EXCEPT !.state = "selected"]]
        BY <2>1, <3>2
      <4> QED BY <3>1, <4>1, <4>2, <4>3 DEF EntriesOK
    <3>3. CASE entries[f] # None
      <4>1. entries' = entries
        BY <2>1, <3>3
      <4> QED BY <3>1, <3>3, <4>1, NoneIsNone
    <3> QED BY <3>2, <3>3
  <2>3. [g \in Items |-> entries'[g].state]
          = [g \in Items |-> IF g \in {f} /\ entries[g].state = "none"
                             THEN "selected" ELSE entries[g].state]
    BY <2>2
  <2> QED BY <1>2, <2>1, <2>3 DEF C!Register, C!Registered
<1> QED BY <1>1, <1>2 DEF RegisterSelected

LEMMA SealStep ==
  ASSUME ManInv, SealSelected
  PROVE  C!Seal({}) \/ UNCHANGED C!covVars
<1>1. CASE Refused
  BY <1>1, StutterStep DEF Refused, builder
<1>2. CASE ~frozen /\ ~sealed
  <2>1. sealed' = TRUE /\ UNCHANGED <<entries, frozen>>
    BY <1>2 DEF SealSelected
  <2>2. [g \in Items |-> entries'[g].state]
          = [g \in Items |-> IF g \in {} /\ entries[g].state = "none"
                             THEN "selected" ELSE entries[g].state]
    BY <2>1
  <2> QED BY <1>2, <2>1, <2>2 DEF C!Seal, C!Registered
<1>3. CASE ~frozen /\ sealed
  <2>1. UNCHANGED <<entries, sealed, frozen>>
    BY <1>3 DEF SealSelected, ManInv
  <2> QED BY <2>1, StutterStep
<1> QED BY <1>1, <1>2, <1>3 DEF SealSelected

\* The first outcome of a file decides it; the same outcome again is a stutter.
LEMMA TransitionStep ==
  ASSUME ManifestAssumption, ManInv, NEW f \in Items, NEW to \in Terminal, NEW class,
         Transition(f, to, class)
  PROVE  C!Decide(f) \/ UNCHANGED C!covVars
<1>1. CASE Refused
  BY <1>1, StutterStep DEF Refused, builder
<1>2. CASE ~frozen /\ ~Conflicting(entries[f], to, class)
  <2>1. /\ entries' = [entries EXCEPT ![f] = [state |-> to, class |-> class]]
        /\ UNCHANGED <<sealed, frozen>>
    BY <1>2 DEF Transition
  <2>2. entries[f].state = "selected" \/ entries[f].state = to
    BY <1>2 DEF Conflicting, ManInv, EntriesOK, Item
  <2>3. [g \in Items |-> entries'[g].state]
          = [[g \in Items |-> entries[g].state] EXCEPT ![f] = to]
    BY <2>1 DEF ManInv, EntriesOK
  <2>4. CASE entries[f].state = "selected"
    BY <1>2, <2>1, <2>3, <2>4 DEF C!Decide, C!Outcomes, Terminal
  <2>5. CASE entries[f].state = to
    <3>1. [g \in Items |-> entries'[g].state] = [g \in Items |-> entries[g].state]
      BY <2>3, <2>5
    <3> QED BY <2>1, <3>1 DEF C!covVars
  <2> QED BY <2>2, <2>4, <2>5
<1> QED BY <1>1, <1>2 DEF Transition

LEMMA FinalizeStep ==
  ASSUME ManInv, Finalize
  PROVE  C!Freeze \/ UNCHANGED C!covVars
<1>1. CASE frozen
  BY <1>1, StutterStep DEF Finalize, builder
<1>2. CASE ~frozen /\ Invalid
  BY <1>2, StutterStep DEF Finalize, Unswept, Refused, builder
<1>3. CASE ~frozen /\ ~Invalid
  <2>1. entries' = Swept /\ frozen' = TRUE
    BY <1>3 DEF Finalize
  <2>2. [g \in Items |-> entries'[g].state]
          = [g \in Items |-> IF entries[g].state = "selected"
                             THEN "failed" ELSE entries[g].state]
    BY <2>1 DEF Swept
  <2> QED BY <1>3, <2>1, <2>2 DEF C!Freeze
<1> QED BY <1>1, <1>2, <1>3

LEMMA NextStep ==
  ASSUME ManifestAssumption, ManInv, [ManNext]_manVars
  PROVE  [C!CovNext]_C!covVars
<1>1. CASE SetInput \/ UNCHANGED manVars
  BY <1>1, StutterStep DEF SetInput, manVars, builder
<1>2. CASE SealSelected
  BY <1>2, SealStep DEF C!CovNext
<1>3. CASE Finalize
  BY <1>3, FinalizeStep DEF C!CovNext
<1>4. ASSUME NEW f \in Items, RegisterSelected(f) PROVE [C!CovNext]_C!covVars
  BY <1>4, RegisterStep DEF C!CovNext
<1>5. ASSUME NEW f \in Items,
             MarkCompleted(f) \/ MarkReused(f) \/ MarkFailed(f) \/ MarkWaived(f)
      PROVE  [C!CovNext]_C!covVars
  <2>1. \/ \E to \in Terminal, class \in FailureClasses \union {Unset} :
             Transition(f, to, class)
        \/ Refused
    BY <1>5 DEF MarkCompleted, MarkReused, MarkFailed, MarkWaived, Terminal,
                ManifestAssumption
  <2>2. CASE Refused
    BY <2>2, StutterStep DEF Refused, builder
  <2>3. ASSUME NEW to \in Terminal, NEW class, Transition(f, to, class)
        PROVE  [C!CovNext]_C!covVars
    BY <2>3, TransitionStep DEF C!CovNext
  <2> QED BY <2>1, <2>2, <2>3
<1>6. ASSUME NEW class \in RunClasses, SetRunFailure(class)
      PROVE  [C!CovNext]_C!covVars
  BY <1>6, RunFailureCall, StutterStep DEF builder
<1>7. ASSUME NEW class \in ItemClasses, SetPendingFailureCause(class)
      PROVE  [C!CovNext]_C!covVars
  BY <1>7, PendingCauseCall, StutterStep DEF builder
<1> QED BY <1>1, <1>2, <1>3, <1>4, <1>5, <1>6, <1>7 DEF ManNext

-----------------------------------------------------------------------------
(* What a silent file is blamed on. *)

\* The first causes are the ones in the builder.
CausesAreFirst == stopCauses = [run |-> runFailure, pending |-> pending]

\* Until the sweep only a Mark call decides a file.
DecidedByMark ==
  ~frozen => \A f \in Items :
    entries[f].state \in Terminal => \E o \in accepted : o.file = f

\* Every other file of the selection was swept.
SilentAreSwept ==
  frozen => \A f \in Items :
    (entries[f].state # "none" /\ \A o \in accepted : o.file # f) =>
      entries[f] = [state |-> "failed", class |-> SweepClass]

BlameInv == CausesAreFirst /\ DecidedByMark /\ SilentAreSwept

LEMMA BlameUnchanged ==
  BlameInv /\ UNCHANGED <<builder, accepted, stopCauses>> => BlameInv'
BY DEF BlameInv, CausesAreFirst, DecidedByMark, SilentAreSwept, SweepClass, builder

LEMMA BlameInit == ManInit => BlameInv
BY DEF ManInit, BlameInv, CausesAreFirst, DecidedByMark, SilentAreSwept, None, Terminal

LEMMA BlameFinalize ==
  ASSUME ManInv, BlameInv, Finalize
  PROVE  BlameInv'
<1>1. CASE frozen
  BY <1>1, BlameUnchanged DEF Finalize
<1>2. CASE ~frozen /\ Invalid
  BY <1>2, BlameUnchanged DEF Finalize, Unswept, Refused
<1>3. CASE ~frozen /\ ~Invalid
  <2>1. /\ entries' = Swept /\ frozen' = TRUE
        /\ UNCHANGED <<runFailure, pending, accepted, stopCauses>>
    BY <1>3 DEF Finalize
  <2>2. SweepClass' = SweepClass
    BY <2>1 DEF SweepClass
  <2>3. SilentAreSwept'
    <3> SUFFICES ASSUME NEW f \in Items, Swept[f].state # "none",
                        \A o \in accepted : o.file # f
                 PROVE  Swept[f] = [state |-> "failed", class |-> SweepClass]
      BY <2>1, <2>2 DEF SilentAreSwept
    <3>1. entries[f].state \notin Terminal
      BY <1>3 DEF BlameInv, DecidedByMark
    <3>2. entries[f].state \in {"none", "selected"}
      BY <3>1 DEF ManInv, EntriesOK, Item
    <3> QED BY <3>2 DEF Swept
  <2> QED BY <2>1, <2>3 DEF BlameInv, CausesAreFirst, DecidedByMark
<1> QED BY <1>1, <1>2, <1>3

LEMMA BlameTransition ==
  ASSUME ManInv, BlameInv, NEW f \in Items, NEW to, NEW class, Transition(f, to, class)
  PROVE  BlameInv'
<1>1. CASE Refused
  BY <1>1, BlameUnchanged DEF Refused
<1>2. CASE ~frozen
  <2> DEFINE outcome == [file |-> f, state |-> to, class |-> class]
  <2>0. CASE Refused
    BY <2>0, BlameUnchanged DEF Refused
  <2>1. CASE /\ entries' = [entries EXCEPT ![f] = [state |-> to, class |-> class]]
             /\ accepted' = accepted \union {outcome}
             /\ UNCHANGED <<runFailure, pending, frozen, stopCauses>>
    <3>1. DecidedByMark'
      <4> SUFFICES ASSUME NEW g \in Items, entries'[g].state \in Terminal
                   PROVE  \E o \in accepted' : o.file = g
        BY DEF DecidedByMark
      <4>1. CASE g = f
        <5>1. outcome \in accepted' /\ outcome.file = g
          BY <2>1, <4>1
        <5> QED BY <5>1
      <4>2. CASE g # f
        <5>1. entries'[g] = entries[g]
          BY <2>1, <4>2 DEF ManInv, EntriesOK
        <5> QED BY <1>2, <2>1, <5>1 DEF BlameInv, DecidedByMark
      <4> QED BY <4>1, <4>2
    <3> QED BY <1>2, <2>1, <3>1 DEF BlameInv, CausesAreFirst, SilentAreSwept
  <2> QED BY <1>2, <2>0, <2>1 DEF Transition
<1> QED BY <1>1, <1>2 DEF Transition

LEMMA BlameNext ==
  ASSUME ManifestAssumption, ManInv, BlameInv, [ManNext]_manVars
  PROVE  BlameInv'
<1>1. CASE SetInput \/ UNCHANGED manVars
  BY <1>1 DEF SetInput, manVars, builder, BlameInv, CausesAreFirst, DecidedByMark,
              SilentAreSwept, SweepClass
<1>2. CASE SealSelected
  BY <1>2, BlameUnchanged
     DEF SealSelected, Refused, BlameInv, CausesAreFirst, DecidedByMark,
         SilentAreSwept, SweepClass
<1>3. CASE Finalize
  BY <1>3, BlameFinalize
<1>4. ASSUME NEW f \in Items, RegisterSelected(f) PROVE BlameInv'
  <2>1. CASE Refused
    BY <2>1, BlameUnchanged DEF Refused
  <2>2. CASE ~frozen /\ ~sealed
    <3>1. /\ entries' = IF entries[f] = None
                        THEN [entries EXCEPT ![f].state = "selected"] ELSE entries
          /\ UNCHANGED <<runFailure, pending, frozen, accepted, stopCauses>>
      BY <1>4, <2>2 DEF RegisterSelected
    <3>2. ASSUME NEW g \in Items, entries'[g].state \in Terminal
          PROVE  entries[g].state \in Terminal
      <4>1. CASE entries[f] = None
        <5>1. [entries[f] EXCEPT !.state = "selected"].state = "selected"
          BY <4>1 DEF None
        <5>2. entries' = [entries EXCEPT ![f] = [entries[f] EXCEPT !.state = "selected"]]
          BY <3>1, <4>1
        <5> QED BY <3>2, <5>1, <5>2 DEF ManInv, EntriesOK, Terminal
      <4> QED BY <3>1, <3>2, <4>1
    <3> QED BY <2>2, <3>1, <3>2 DEF BlameInv, CausesAreFirst, DecidedByMark, SilentAreSwept
  <2> QED BY <1>4, <2>1, <2>2 DEF RegisterSelected
<1>5. ASSUME NEW f \in Items,
             MarkCompleted(f) \/ MarkReused(f) \/ MarkFailed(f) \/ MarkWaived(f)
      PROVE  BlameInv'
  BY <1>5, BlameTransition, BlameUnchanged
     DEF MarkCompleted, MarkReused, MarkFailed, MarkWaived, Refused
<1>6. ASSUME NEW class \in RunClasses, SetRunFailure(class) PROVE BlameInv'
  <2>1. class # Unset
    BY DEF ManifestAssumption
  <2>2. CASE ~frozen /\ runFailure \in {Unset, class}
    <3>1. /\ runFailure' = class /\ UNCHANGED <<entries, pending, frozen, accepted>>
          /\ stopCauses' = [stopCauses EXCEPT !.run = Earliest(stopCauses.run, class)]
      BY <1>6, <2>2 DEF SetRunFailure
    <3>2. stopCauses = [run |-> runFailure, pending |-> pending]
      BY DEF BlameInv, CausesAreFirst
    <3>3. Earliest(runFailure, class) = class
      BY <2>2 DEF Earliest
    <3>4. stopCauses' = [run |-> class, pending |-> pending]
      BY <3>1, <3>2, <3>3
    <3> QED BY <2>2, <3>1, <3>4 DEF BlameInv, CausesAreFirst, DecidedByMark, SilentAreSwept
  <2> QED BY <1>6, <2>2, BlameUnchanged DEF SetRunFailure, Refused
<1>7. ASSUME NEW class \in ItemClasses, SetPendingFailureCause(class) PROVE BlameInv'
  <2>1. class # Unset
    BY DEF ManifestAssumption
  <2>2. CASE ~frozen /\ pending \in {Unset, class}
    <3>1. /\ pending' = class /\ UNCHANGED <<entries, runFailure, frozen, accepted>>
          /\ stopCauses' =
               [stopCauses EXCEPT !.pending = Earliest(stopCauses.pending, class)]
      BY <1>7, <2>2 DEF SetPendingFailureCause
    <3>2. stopCauses = [run |-> runFailure, pending |-> pending]
      BY DEF BlameInv, CausesAreFirst
    <3>3. Earliest(pending, class) = class
      BY <2>2 DEF Earliest
    <3>4. stopCauses' = [run |-> runFailure, pending |-> class]
      BY <3>1, <3>2, <3>3
    <3> QED BY <2>2, <3>1, <3>4 DEF BlameInv, CausesAreFirst, DecidedByMark, SilentAreSwept
  <2> QED BY <1>7, <2>2, BlameUnchanged DEF SetPendingFailureCause, Refused
<1> QED BY <1>1, <1>2, <1>3, <1>4, <1>5, <1>6, <1>7 DEF ManNext

-----------------------------------------------------------------------------
(* The promises. *)

\* The manifest reports every outcome a Mark call accepted, whatever calls
\* of other goroutines came before and after it.
THEOREM AcceptedReported == ManSpec => []AcceptedIsReported
<1>1. ManInv => AcceptedIsReported
  BY DEF ManInv, OutcomesHeld, ResultIsCopy, AcceptedIsReported
<1> QED BY <1>1, ManInvariant, PTL

\* A call that returns an error leaves the builder as it was: Finalize undoes
\* the sweep.
THEOREM RefusalsChangeNothing == ManSpec => ErrorChangesNothing
<1> DEFINE Harmless == lastCall' = "error" => UNCHANGED builder
<1>1. ASSUME [ManNext]_manVars PROVE [Harmless]_manVars
  <2>1. CASE SetInput
    BY <2>1 DEF SetInput, Accepted
  <2>2. CASE SealSelected
    BY <2>2 DEF SealSelected, Refused, Accepted
  <2>3. CASE Finalize
    BY <2>3 DEF Finalize, Unswept, Refused, Accepted
  <2>4. ASSUME NEW f \in Items, RegisterSelected(f) PROVE Harmless
    BY <2>4 DEF RegisterSelected, Refused, Accepted
  <2>5. ASSUME NEW f \in Items, NEW to, NEW class, Transition(f, to, class)
        PROVE  Harmless
    BY <2>5 DEF Transition, Refused, Accepted
  <2>6. ASSUME NEW f \in Items,
               MarkCompleted(f) \/ MarkReused(f) \/ MarkFailed(f) \/ MarkWaived(f)
        PROVE  Harmless
    BY <2>5, <2>6 DEF MarkCompleted, MarkReused, MarkFailed, MarkWaived, Refused
  <2>7. ASSUME NEW class \in RunClasses, SetRunFailure(class) PROVE Harmless
    BY <2>7 DEF SetRunFailure, Refused, Accepted
  <2>8. ASSUME NEW class \in ItemClasses, SetPendingFailureCause(class) PROVE Harmless
    BY <2>8 DEF SetPendingFailureCause, Refused, Accepted
  <2> QED BY <1>1, <2>1, <2>2, <2>3, <2>4, <2>6, <2>7, <2>8 DEF ManNext
<1> QED BY <1>1, PTL DEF ManSpec, ErrorChangesNothing

\* ManifestBuilder implements module Coverage: its methods, called in any order
\* by any number of goroutines, register files only before the seal, decide a
\* selected file once, and freeze a manifest in which none is undecided.
THEOREM BuilderKeepsPromise == ManSpec => KeepsPromise
<1>1. ManInit => C!CovInit
  BY DEF ManInit, None, C!CovInit, C!Blank
<1>2. ManifestAssumption
  BY ManifestAssumption
<1>3. ManInv /\ [ManNext]_manVars => [C!CovNext]_C!covVars
  BY <1>2, NextStep
<1> QED BY <1>1, <1>3, ManInvariant, PTL DEF ManSpec, KeepsPromise, C!CovSpec

\* A file nobody reported on is failed, and blamed on what stopped the run
\* first, for any order of the calls.
THEOREM SilentBlamed == ManSpec => []SilenceIsBlamed
<1>1. ManifestAssumption
  BY ManifestAssumption
<1>2. ManInv /\ BlameInv /\ [ManNext]_manVars => BlameInv'
  BY <1>1, BlameNext
<1>3. ManInv /\ BlameInv => SilenceIsBlamed
  <2> SUFFICES ASSUME ManInv, BlameInv, frozen, NEW f \in Items,
                      manifest.coverage[f].state # "none",
                      \A o \in accepted : o.file # f
               PROVE  /\ manifest.coverage[f].state = "failed"
                      /\ stopCauses.run \in FailureClasses
                           => manifest.coverage[f].class = stopCauses.run
                      /\ stopCauses.run = Unset /\ stopCauses.pending # Unset
                           => manifest.coverage[f].class = stopCauses.pending
    BY DEF SilenceIsBlamed
  <2>1. manifest.coverage[f] = [state |-> "failed", class |-> SweepClass]
    BY DEF ManInv, ResultIsCopy, BlameInv, SilentAreSwept
  <2>2. stopCauses.run = runFailure /\ stopCauses.pending = pending
    BY DEF BlameInv, CausesAreFirst
  <2>3. runFailure \in FailureClasses => SweepClass = runFailure
    BY <1>1 DEF SweepClass, ItemFailureForRunClass, FailureClasses, ManifestAssumption
  <2>4. runFailure = Unset /\ pending # Unset => SweepClass = pending
    BY DEF SweepClass
  <2> QED BY <2>1, <2>2, <2>3, <2>4
<1> QED BY <1>2, <1>3, BlameInit, ManInvariant, PTL DEF ManSpec

\* The builder is well typed in every state its calls reach.
THEOREM ManTypeCorrect == ManSpec => []ManTypeOK
<1>1. ManInv => ManTypeOK
  BY DEF ManInv, EntriesOK, ManTypeOK
<1> QED BY <1>1, ManInvariant, PTL

\* No manifest that promises what module Coverage does leaves a selected file
\* without an outcome.
THEOREM FrozenDecided == C!CovSpec => []C!FrozenIsDecided
<1>1. C!CovInit => C!FrozenIsDecided
  BY DEF C!CovInit, C!FrozenIsDecided
<1>2. C!FrozenIsDecided /\ [C!CovNext]_C!covVars => C!FrozenIsDecided'
  BY DEF C!FrozenIsDecided, C!CovNext, C!covVars, C!Register, C!Seal, C!Decide,
         C!Freeze, C!NewRun
<1> QED BY <1>1, <1>2, PTL DEF C!CovSpec
=============================================================================
