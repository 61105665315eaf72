------------------------------ MODULE Settings ------------------------------
(***************************************************************************)
(* The configuration file: how a start of the service reads it, and how    *)
(* two administrators save sections of it from the console.                *)
(*                                                                         *)
(* A save reads the file, replaces one section, writes <file>.tmp and      *)
(* renames it.  Every save uses the same temporary name, and a writer's    *)
(* open file keeps its contents when the name is renamed under it.         *)
(***************************************************************************)
EXTENDS Naturals, FiniteSets

CONSTANTS
  Administrators,
  Torn,       \* the content of a file that was truncated and not yet written
  Nothing,    \* no such file, no save under way
  MaxSaves,   \* bound: saves
  MaxRestarts \* bound: restarts

\* Fields with one value each way: what Save and Load do to a field that the
\* file does not have differs by its tag and by Load's own defaults.
Fields == {"blocking_severities", "concurrency", "viewer_url", "auth_enabled",
           "token"}
SectionOf == [f \in Fields |->
  IF f = "auth_enabled" THEN "auth" ELSE IF f = "token" THEN "llm" ELSE "review"]
Sections == {SectionOf[f] : f \in Fields}

\* absent: not in the file; zero: "", 0, false or null; "default": the value of
\* Default(); "own": a value somebody chose.
Values == {"absent", "zero", "default", "own"}
Texts == [Fields -> Values]

ASSUME SettingsAssumption ==
  /\ Torn # Nothing /\ Torn \notin Texts /\ Nothing \notin Texts
  /\ Nothing \notin {"tmp", "file"} \union Values
  /\ MaxSaves \in Nat /\ MaxRestarts \in Nat

VARIABLES
  config,     \* the content of config.json
  tmp,      \* the content of config.json.tmp, Torn or Nothing too
  running,  \* what the running service loaded: a.cfg
  stepOf,   \* where each save is
  draft,    \* the configuration each save will write
  handleOf, \* which name the file a save writes to has now
  asked,    \* the section and value each save was asked for
  saves, restarts,
  overlapped, \* history: a save began while another was under way
  answered    \* history: the value of each section's last save that ended

setVars == <<config, tmp, running, stepOf, draft, handleOf, asked, saves,
             restarts, overlapped, answered>>

-----------------------------------------------------------------------------
(* Load, ReadPersisted and Save on one content. *)

DefaultOf(f) == IF f = "auth_enabled" THEN "zero" ELSE "default"

\* Fields tagged omitempty are left out when they have their zero value.
OmitsEmpty(f) == f = "viewer_url"

\* Fields that Load gives their default when they are zero.
RestoredByLoad(f) == f = "concurrency"

\* Load: absent fields keep Default's value; without an "auth" section the
\* accounts are enabled.
Loaded(text) ==
  [f \in Fields |->
     IF text[f] = "absent"
     THEN IF f = "auth_enabled" THEN "own" ELSE DefaultOf(f)
     ELSE IF text[f] = "zero" /\ RestoredByLoad(f) THEN DefaultOf(f)
     ELSE text[f]]

\* ReadPersisted: no defaults, so an absent field becomes its zero value.
Persisted(text) ==
  [f \in Fields |-> IF text[f] = "absent" THEN "zero" ELSE text[f]]

Written(cfg) ==
  [f \in Fields |-> IF cfg[f] = "zero" /\ OmitsEmpty(f) THEN "absent" ELSE cfg[f]]

\* mergeConfigSection, and the secret that a blank value keeps.
Merged(cfg, section, value) ==
  [f \in Fields |->
     IF SectionOf[f] # section THEN cfg[f]
     ELSE IF f = "token" /\ value = "zero" THEN cfg[f] ELSE value]

\* Validate, of the file with the running service's secrets.
Validates(cfg) == cfg["token"] # "zero" \/ running["token"] # "zero"

-----------------------------------------------------------------------------

SetInit ==
  /\ config \in {[f \in Fields |->
                  IF f = "token" THEN "own" ELSE IF f \in given THEN "own" ELSE "absent"] :
                 given \in SUBSET Fields}
  /\ tmp = Nothing /\ running = Loaded(config)
  /\ stepOf = [a \in Administrators |-> "idle"]
  /\ draft = [a \in Administrators |-> Nothing]
  /\ handleOf = [a \in Administrators |-> Nothing]
  /\ asked = [a \in Administrators |-> <<"review", "own">>]
  /\ saves = 0 /\ restarts = 0
  /\ overlapped = FALSE /\ answered = [s \in Sections |-> Nothing]

Busy == {a \in Administrators : stepOf[a] # "idle"}

Ends(a) ==
  /\ stepOf' = [stepOf EXCEPT ![a] = "idle"]
  /\ draft' = [draft EXCEPT ![a] = Nothing]
  /\ handleOf' = [handleOf EXCEPT ![a] = Nothing]

\* handleAdminConfig reads the file and not what the service runs with.
BaseOfSave == Persisted(config)

\* PUT: ReadPersisted, merge, Validate; a torn file is an error.
ReadForSave(a) ==
  /\ a \notin Busy /\ saves < MaxSaves /\ saves' = saves + 1
  /\ \E section \in Sections, value \in {"zero", "own"} :
       LET cfg == Merged(BaseOfSave, section, value)
       IN /\ asked' = [asked EXCEPT ![a] = <<section, value>>]
          /\ stepOf' = [stepOf EXCEPT ![a] =
               IF config # Torn /\ Validates(cfg) THEN "open" ELSE "idle"]
          /\ draft' = [draft EXCEPT ![a] =
               IF config # Torn /\ Validates(cfg) THEN cfg ELSE Nothing]
  /\ overlapped' = (overlapped \/ Busy # {})
  /\ UNCHANGED <<config, tmp, running, handleOf, restarts, answered>>

\* Mutant of Target: the file is written in place.
InPlace == "file"

\* Save writes beside the file, always under the same name.
Target == "tmp"

\* os.WriteFile: the name is created or truncated.
OpenTemporary(a) ==
  /\ stepOf[a] = "open" /\ stepOf' = [stepOf EXCEPT ![a] = "write"]
  /\ handleOf' = [handleOf EXCEPT ![a] = Target]
  /\ IF Target = "tmp" THEN tmp' = Torn /\ UNCHANGED config
                       ELSE config' = Torn /\ UNCHANGED tmp
  /\ UNCHANGED <<running, draft, asked, saves, restarts, overlapped, answered>>

\* os.WriteFile: the content goes to the file that was opened.
WriteContent(a) ==
  /\ stepOf[a] = "write" /\ stepOf' = [stepOf EXCEPT ![a] = "rename"]
  /\ tmp' = IF handleOf[a] = "tmp" THEN Written(draft[a]) ELSE tmp
  /\ config' = IF handleOf[a] = "file" THEN Written(draft[a]) ELSE config
  /\ UNCHANGED <<running, draft, handleOf, asked, saves, restarts, overlapped,
                 answered>>

\* os.Rename: the temporary file becomes the configuration; the one it
\* replaces has no name any more.  Without a temporary file it fails.
RenameTemporary(a) ==
  /\ stepOf[a] = "rename"
  /\ stepOf' = [stepOf EXCEPT ![a] = "idle"]
  /\ draft' = [draft EXCEPT ![a] = Nothing]
  /\ IF tmp = Nothing
     THEN /\ handleOf' = [handleOf EXCEPT ![a] = Nothing]
          /\ UNCHANGED <<config, tmp, answered>>
     ELSE /\ config' = tmp /\ tmp' = Nothing
          /\ handleOf' = [b \in Administrators |->
               IF b = a THEN Nothing
               ELSE CASE handleOf[b] = "tmp" -> "file"
                      [] handleOf[b] = "file" -> Nothing
                      [] OTHER -> handleOf[b]]
          /\ answered' = [answered EXCEPT ![asked[a][1]] = asked[a][2]]
  /\ UNCHANGED <<running, asked, saves, restarts, overlapped>>

\* A write or the rename fails: the answer is an error, the files stay.
SaveFails(a) ==
  /\ stepOf[a] \in {"open", "write"} /\ Ends(a)
  /\ UNCHANGED <<config, tmp, running, asked, saves, restarts, overlapped, answered>>

\* The service is stopped at any moment and started again; it does not start
\* with a file it cannot decode.
Restart ==
  /\ restarts < MaxRestarts /\ restarts' = restarts + 1
  /\ config # Torn /\ running' = Loaded(config)
  /\ stepOf' = [a \in Administrators |-> "idle"]
  /\ draft' = [a \in Administrators |-> Nothing]
  /\ handleOf' = [a \in Administrators |-> Nothing]
  /\ UNCHANGED <<config, tmp, asked, saves, overlapped, answered>>

SetNext ==
  \/ \E a \in Administrators :
       ReadForSave(a) \/ OpenTemporary(a) \/ WriteContent(a)
         \/ RenameTemporary(a) \/ SaveFails(a)
  \/ Restart

SetSpec == SetInit /\ [][SetNext]_setVars

-----------------------------------------------------------------------------
(* Properties. *)

\* Contents are well formed and a save writes only to a file it has opened.
SetTypeOK ==
  /\ config \in Texts \union {Torn} /\ tmp \in Texts \union {Torn, Nothing}
  /\ running \in [Fields -> Values \ {"absent"}]
  /\ \A a \in Administrators :
       /\ stepOf[a] \in {"idle", "open", "write", "rename"}
       /\ (handleOf[a] # Nothing => stepOf[a] \in {"write", "rename"})

\* The file the next start reads is complete at every moment, a kill in the
\* middle of a save included, as long as saves do not overlap.
ReadableUnlessOverlapping == ~overlapped => config # Torn

\* What the last save stored is still stored: a save of another section, from
\* a page opened before, does not take it back.
SavedSectionKept ==
  (config # Torn /\ ~overlapped) =>
    \A f \in Fields \ {"token"} :
      LET value == answered[SectionOf[f]]
      IN value # Nothing =>
           config[f] = IF value = "zero" /\ f = "viewer_url" THEN "absent" ELSE value

\* A save that leaves the secret blank never loses it.
SecretKept == config # Torn => config["token"] = "own"

\* A start always finds a usable number of workers: no save leaves zero.
WorkersConfigured == running["concurrency"] # "zero"

\* Saves that do not overlap keep the file whole, and each other's sections,
\* the secret and the workers of the next start whatever they overlap with.
SavesKeepTheRest ==
  SetTypeOK /\ ReadableUnlessOverlapping /\ SavedSectionKept /\ SecretKept
    /\ WorkersConfigured
=============================================================================
