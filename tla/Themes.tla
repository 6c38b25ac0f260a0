------------------------------- MODULE Themes -------------------------------
(***************************************************************************)
(* core/themes.py: load() reads themes.yml and replaces the three entries  *)
(* of _STATE under _LOCK, on behalf of a request of /api/themes/reload;    *)
(* the user edits the file meanwhile.                                      *)
(*                                                                         *)
(* The contents of the file are what load() can tell apart: there is none, *)
(* it cannot be read, is no YAML or no mapping, or its themes are none     *)
(* ("broken"), or it has themes in an order, some of them without the      *)
(* required keys, and a default.  Palettes are not modelled: the CSS is    *)
(* the list of its blocks.                                                 *)
(***************************************************************************)
EXTENDS HostClock, SequencesExt

CONSTANTS
  ThemeFiles,   \* contents that themes.yml can have
  Example,      \* those of themes.example.yml
  THEMES_LIMIT  \* THEMES_LIMIT, 0 for none

\* A file that was opened to be written: an empty one has no themes.
Truncated == [kind |-> "good", themes |-> <<>>, default |-> "dark"]

ASSUME ThemesAssumption ==
  /\ Example \in ThemeFiles /\ Truncated \in ThemeFiles
  /\ THEMES_LIMIT \in Nat
  /\ \A f \in ThemeFiles : /\ f.kind \in {"missing", "broken", "good"}
                            /\ f.themes \in Seq(ToSet(f.themes))

VARIABLES
  themesFile,  \* the contents of themes.yml
  themesState, \* _STATE
  holders,     \* the threads that hold _LOCK
  reload       \* per thread: the call of load(), with what it computed

themeVars == <<themesFile, themesState, holders, reload>>

\* The themes that _validate accepts among the first i of a file.
Kept(f) ==
  LET kept[i \in 0..Len(f.themes)] ==
        IF i = 0 THEN <<>>
        ELSE IF f.themes[i].whole THEN Append(kept[i - 1], f.themes[i].id)
        ELSE kept[i - 1]
  IN  kept

\* The themes of a file that are accepted, the first THEMES_LIMIT only.
Accepted(f) ==
  LET valid == Kept(f)[Len(f.themes)]
  IN  IF THEMES_LIMIT > 0 /\ Len(valid) > THEMES_LIMIT
        THEN SubSeq(valid, 1, THEMES_LIMIT) ELSE valid

\* The default of a file, or the first theme if that is not accepted.
DefaultOf(f) ==
  IF f.default \in ToSet(Accepted(f)) \/ Accepted(f) = <<>>
    THEN f.default ELSE Accepted(f)[1]

\* _to_css: a block of the default for :root, and one per theme.
ToCss(themes, default) ==
  IF themes = <<>> THEN <<>>
  ELSE <<IF default \in ToSet(themes) THEN default ELSE themes[1]>> \o themes

Nothing  == [themes |-> <<>>, default |-> "dark", css |-> <<>>]
Built(f) == IF f.kind = "missing" THEN Nothing
            ELSE [themes  |-> Accepted(f),
                  default |-> DefaultOf(f),
                  css     |-> ToCss(Accepted(f), DefaultOf(f))]

NotLoading == [step |-> "idle", new |-> Nothing]

\* The application was created and has loaded its themes; load() of the start
\* leaves the empty state if the file is broken.
ThemeInit ==
  /\ themesFile \in {IF f.kind = "missing" THEN Example ELSE f : f \in ThemeFiles}
  /\ themesState = IF themesFile.kind = "broken" THEN Nothing ELSE Built(themesFile)
  /\ holders = {}
  /\ reload = [t \in Threads |-> NotLoading]

\* The user writes themes.yml, or deletes it.
EditThemes ==
  /\ themesFile' \in ThemeFiles
  /\ UNCHANGED <<themesState, holders, reload>>

\* load() looks for the file and copies the example if there is none.  The
\* copy truncates what has come meanwhile, then writes, unless another file
\* was put in its place.
CopyExample(t) ==
  /\ \/ /\ reload[t].step = "idle"
        /\ reload' = [reload EXCEPT ![t].step =
                        IF themesFile.kind = "missing" THEN "open" ELSE "exists"]
        /\ UNCHANGED themesFile
     \/ /\ reload[t].step = "open"
        /\ reload' = [reload EXCEPT ![t].step = "copy"]
        /\ themesFile' = Truncated
     \/ /\ reload[t].step = "copy"
        /\ reload' = [reload EXCEPT ![t].step = "exists"]
        /\ themesFile' = IF themesFile = Truncated THEN Example ELSE themesFile
  /\ UNCHANGED <<themesState, holders>>

\* It looks again, for the case that there was no example, reads the file and
\* builds the new state from it; a broken file, or one that is gone by then,
\* ends it, with an exception or without.
ReadThemes(t) ==
  /\ \/ /\ reload[t].step = "exists"
        /\ reload' = [reload EXCEPT ![t] =
             IF themesFile.kind = "missing" THEN [step |-> "acquire", new |-> Nothing]
                                            ELSE [@ EXCEPT !.step = "read"]]
     \/ /\ reload[t].step = "read"
        /\ reload' = [reload EXCEPT ![t] =
             IF themesFile.kind = "good" THEN [step |-> "acquire", new |-> Built(themesFile)]
                                         ELSE NotLoading]
  /\ UNCHANGED <<themesFile, themesState, holders>>

AcquireAlways(t) == \* mutant: load() does not take the lock
  /\ reload[t].step = "acquire"
  /\ holders' = holders \cup {t}
  /\ reload' = [reload EXCEPT ![t].step = "themes"]
  /\ UNCHANGED <<themesFile, themesState>>

Acquire(t) ==
  /\ reload[t].step = "acquire"
  /\ holders = {}
  /\ holders' = {t}
  /\ reload' = [reload EXCEPT ![t].step = "themes"]
  /\ UNCHANGED <<themesFile, themesState>>

\* Under the lock the entries are replaced one after the other.
Replace(t) ==
  /\ \/ /\ reload[t].step = "themes"
        /\ themesState' = [themesState EXCEPT !.themes = reload[t].new.themes]
        /\ reload' = [reload EXCEPT ![t].step = "default"]
        /\ UNCHANGED holders
     \/ /\ reload[t].step = "default"
        /\ themesState' = [themesState EXCEPT !.default = reload[t].new.default]
        /\ reload' = [reload EXCEPT ![t].step = "css"]
        /\ UNCHANGED holders
     \/ /\ reload[t].step = "css"
        /\ themesState' = [themesState EXCEPT !.css = reload[t].new.css]
        /\ reload' = [reload EXCEPT ![t] = NotLoading]
        /\ holders' = holders \ {t}
  /\ UNCHANGED themesFile

ThemeNext ==
  \/ EditThemes
  \/ \E t \in Threads : CopyExample(t) \/ ReadThemes(t) \/ Acquire(t) \/ Replace(t)

-----------------------------------------------------------------------------
States == {Built(f) : f \in ThemeFiles} \cup {Nothing}

ThemeTypeOK ==
  /\ themesFile \in ThemeFiles
  /\ themesState \in [themes  : {s.themes : s \in States},
                     default : {s.default : s \in States},
                     css     : {s.css : s \in States}]
  /\ holders \subseteq Threads
  /\ reload \in [Threads ->
       [step : {"idle", "open", "copy", "exists", "read", "acquire", "themes", "default", "css"},
        new  : States]]

\* The three entries of _STATE are those of one and the same file.
OneFile == holders = {} => themesState \in States

(* "so reloads stay race-free" (core/themes.py:39), as far as it goes: who *)
(* takes the lock, as get_state and get_css do, finds the list, the        *)
(* default and the CSS of one and the same file, whatever reloads overlap  *)
(* and whatever the file was.  The default is in the list unless that is   *)
(* empty, the list is no longer than the limit, and the CSS has a block    *)
(* for each theme and one for the default.                                 *)
ThemesWhole ==
  holders = {} =>
    LET themes == themesState.themes IN
    /\ OneFile
    /\ themes = <<>> <=> themesState.css = <<>>
    /\ themes # <<>> =>
         /\ themesState.default \in ToSet(themes)
         /\ themesState.css = <<themesState.default>> \o themes
         /\ THEMES_LIMIT > 0 => Len(themes) <= THEMES_LIMIT
=============================================================================
