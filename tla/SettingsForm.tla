---------------------------- MODULE SettingsForm ----------------------------
(***************************************************************************)
(* The settings dialog and dd_ftp.toml: the dialog edits drafts, saving    *)
(* writes them and makes them live, and a start reads the file.  The file  *)
(* leaves out what is at its default, so that what is written and what is  *)
(* read differ in form; a setting the file lacks is None.                  *)
(***************************************************************************)
EXTENDS Integers

CONSTANTS
  None,         \* a setting that the file leaves out, or no file at all
  Torn,         \* a file that ends in the middle of a line, which is not TOML
  WORKER_MAX,   \* WORKER_MAX_CONCURRENCY_LIMIT
  Text,         \* what may be typed into a text field
  trim,         \* the text without the blanks around it
  Folder,       \* the texts that are existing folders
  Answers,      \* the policies that the user may choose for the rest of a batch
  MaxEdits      \* bound: changes of the drafts

(* The files that the dialog writes.                                       *)
Written == {trim[t] : t \in Text} \ {""}
File == [editor : {None} \cup Written, workers : {None} \cup 1..WORKER_MAX, hide : BOOLEAN,
         overwrite : {None, "skip_all", "overwrite_all"}, auto : BOOLEAN, last : {None} \cup Written]

ASSUME SettingsAssumption == /\ WORKER_MAX \in Nat \ {0, 1}
                             /\ trim \in [Text -> Text]
                             /\ \A t \in Text : trim[trim[t]] = trim[t]
                             /\ "" \in Text /\ trim[""] = ""
                             /\ Folder \subseteq {trim[t] : t \in Text} \ {""}
                             /\ "." \in Folder
                             /\ Answers \subseteq {"skip_all", "overwrite_all", "overwrite_newer", "skip_newer",
                                                  "rename_newer"}
                             /\ MaxEdits \in Nat
                             /\ None \notin Nat \cup {"skip_all", "overwrite_all"} \cup File

VARIABLES
  live,         \* the settings in force
  draft,        \* what the dialog shows
  form_field,   \* settings_field
  form_open,    \* show_settings
  edits,        \* changes made
  local_cwd,    \* the folder of the local pane
  config,       \* the file: its settings, None or Torn
  policies,     \* the runtime's default and current overwrite policy
  batch,        \* drain_busy: files wait for their overwrite check
  unsaved       \* the settings that the file was to hold, if a save failed that had begun it

settingsVars == <<live, draft, form_field, form_open, edits, local_cwd, config, policies, batch, unsaved>>

Fields == <<"Editor", "Workers", "HideDotfiles", "Overwrite", "AutoConnect", "LastLocalCwd">>
SettingsPolicy == <<"ask", "skip_all", "overwrite_all">>

(* The drafts of a closed dialog are not read: opening loads them again.   *)
NoDraft == [editor |-> "", workers |-> 2, hide |-> FALSE, overwrite |-> "ask", auto |-> FALSE, last |-> ""]

Closed == form_open' = FALSE /\ UNCHANGED edits /\ draft' = NoDraft /\ form_field' = "Editor"

Edited == form_open /\ edits < MaxEdits /\ edits' = edits + 1 /\ UNCHANGED form_open

clamp(n) == IF n < 1 THEN 1 ELSE IF n > WORKER_MAX THEN WORKER_MAX ELSE n

from_config(s) == CASE s \in {"skip_all", "skip"} -> "skip_all"
                    [] s \in {"overwrite_all", "overwrite"} -> "overwrite_all"
                    [] OTHER -> "ask"

(* The step-th of the n values after i, around the end.                    *)
Around(i, step, n) == ((i - 1 + step) % n) + 1

Index(seq, x) == CHOOSE i \in DOMAIN seq : seq[i] = x

settings_next(p, step) == SettingsPolicy[Around(Index(SettingsPolicy, p), step, 3)]

worker_max_or_default(cfg) == clamp(IF cfg.workers = None THEN 2 ELSE cfg.workers)

overwrite_policy_or_default(cfg) == IF cfg.overwrite = None THEN "ask" ELSE cfg.overwrite

editor_or_empty(cfg) == IF cfg.editor = None THEN "" ELSE cfg.editor

(* AppConfig::load_or_default: a file that is not TOML is an error.        *)
DefaultConfig == [editor |-> None, workers |-> None, hide |-> FALSE, overwrite |-> None,
                  auto |-> FALSE, last |-> None]

load_or_default(file) == IF file = None THEN DefaultConfig ELSE file

Settings(cfg) == [editor |-> editor_or_empty(cfg), workers |-> worker_max_or_default(cfg),
                  hide |-> cfg.hide, overwrite |-> from_config(overwrite_policy_or_default(cfg)),
                  auto |-> cfg.auto]

(* main reads the file; with an unreadable one AppState's defaults stay.   *)
Start(file) ==
  LET cfg == IF file = Torn THEN DefaultConfig ELSE load_or_default(file) IN
  /\ live' = Settings(cfg)
  /\ local_cwd' = IF cfg.last \in Folder THEN cfg.last ELSE "."
  /\ policies' = [default |-> live'.overwrite, current |-> live'.overwrite]

Restart == /\ Start(config)
           /\ Closed /\ batch' = FALSE /\ unsaved' = {}
           /\ UNCHANGED config

(* Any file a user may have written.                                       *)
FileOf(editor, workers, overwrite, last) ==
  [editor |-> editor, workers |-> workers, hide |-> FALSE, overwrite |-> overwrite, auto |-> TRUE,
   last |-> last]

SettingsInit ==
  /\ \/ config = None
     \/ \E w \in {None, 0, 99}, o \in {None, "skip", "odd"} : config = FileOf("", w, o, "gone")
  /\ live = Settings(load_or_default(config))
  /\ draft = NoDraft /\ form_field = "Editor" /\ form_open = FALSE /\ edits = 0
  /\ local_cwd = "."
  /\ policies = [default |-> live.overwrite, current |-> live.overwrite]
  /\ batch = FALSE /\ unsaved = {}

FormStays == UNCHANGED <<live, local_cwd, config, policies, batch, unsaved>>

-----------------------------------------------------------------------------
(* Opening loads every draft, whatever was typed and not saved before.     *)
OpenSettings ==
  /\ ~form_open
  /\ form_open' = TRUE /\ UNCHANGED edits
  /\ form_field' = "Editor"
  /\ draft' = [editor |-> live.editor, workers |-> clamp(live.workers), hide |-> live.hide,
               overwrite |-> live.overwrite, auto |-> live.auto, last |-> local_cwd]
  /\ FormStays

CancelSettings == form_open /\ Closed /\ FormStays

SelectField ==
  /\ form_open
  /\ \E step \in {1, -1} : form_field' = Fields[Around(Index(Fields, form_field), step, 6)]
  /\ UNCHANGED <<draft, form_open, edits>> /\ FormStays

Cycled(d, f, step) ==
  CASE f = "Workers" -> [d EXCEPT !.workers = clamp(Around(@, step, WORKER_MAX))]
    [] f = "HideDotfiles" -> [d EXCEPT !.hide = ~@]
    [] f = "Overwrite" -> [d EXCEPT !.overwrite = settings_next(@, step)]
    [] f = "AutoConnect" -> [d EXCEPT !.auto = ~@]
    [] OTHER -> d

CycleValue ==
  /\ Edited
  /\ \E step \in {1, -1} : draft' = Cycled(draft, form_field, step)
  /\ UNCHANGED form_field /\ FormStays

(* A click on a value selects its field and turns it.                      *)
ClickValue ==
  /\ Edited
  /\ form_field' \in {"Workers", "HideDotfiles", "Overwrite", "AutoConnect"}
  /\ draft' = Cycled(draft, form_field', 1)
  /\ FormStays

TypeText ==
  /\ Edited
  /\ \E t \in Text : \/ form_field = "Editor" /\ draft' = [draft EXCEPT !.editor = t]
                     \/ form_field = "LastLocalCwd" /\ draft' = [draft EXCEPT !.last = t]
  /\ UNCHANGED form_field /\ FormStays

-----------------------------------------------------------------------------
(* The file that the drafts make.                                          *)
Config(d) == [editor |-> IF trim[d.editor] = "" THEN None ELSE trim[d.editor],
              workers |-> d.workers,
              hide |-> d.hide,
              overwrite |-> IF d.overwrite = "ask" THEN None ELSE d.overwrite,
              auto |-> d.auto,
              last |-> IF trim[d.last] = "" THEN None ELSE trim[d.last]]

ApplySettings(d) == [editor |-> editor_or_empty(Config(d)), workers |-> clamp(d.workers), hide |-> d.hide,
                     overwrite |-> d.overwrite, auto |-> d.auto]

(* Mutant: the settings reach the batch that is running.                   *)
PolicyAtOnce(d) == [default |-> d.overwrite, current |-> d.overwrite]

PoliciesAfter(d) == [default |-> d.overwrite, current |-> IF batch THEN policies.current ELSE d.overwrite]

save_settings ==
  /\ form_open
  /\ config' = Config(draft) /\ unsaved' = {}
  /\ live' = ApplySettings(draft)
  /\ Closed
  /\ policies' = PoliciesAfter(draft)
  /\ local_cwd' = IF trim[draft.last] \in Folder THEN trim[draft.last] ELSE local_cwd
  /\ UNCHANGED batch

(* Mutant: the file is written over, not truncated, so that its old end    *)
(* stays behind what was written.                                          *)
OldEnd(c, n) ==
  LET old == IF config = Torn THEN DefaultConfig ELSE load_or_default(config)
  IN  [editor |-> IF n >= 1 THEN c.editor ELSE old.editor, workers |-> IF n >= 2 THEN c.workers ELSE old.workers,
       last |-> IF n >= 3 THEN c.last ELSE old.last, hide |-> IF n >= 4 THEN c.hide ELSE old.hide,
       overwrite |-> IF n >= 5 THEN c.overwrite ELSE old.overwrite, auto |-> IF n >= 6 THEN c.auto ELSE old.auto]

(* The file cut after the n-th of the lines that AppConfig may have.       *)
Lines(c, n) == [editor |-> IF n >= 1 THEN c.editor ELSE None, workers |-> IF n >= 2 THEN c.workers ELSE None,
                last |-> IF n >= 3 THEN c.last ELSE None, hide |-> n >= 4 /\ c.hide,
                overwrite |-> IF n >= 5 THEN c.overwrite ELSE None, auto |-> n >= 6 /\ c.auto]

(* write_private opens the file for truncation, writes it and sets its     *)
(* mode.  The first may fail and leave the file as it was; a write that    *)
(* fails leaves some of its lines, none for an empty file, or part of one; *)
(* and with its mode not set it is complete.  The dialog stays.            *)
SaveFails ==
  /\ form_open
  /\ \/ UNCHANGED <<config, unsaved>>
     \/ /\ config' \in {Torn} \cup {Lines(Config(draft), n) : n \in 0..6}
        /\ unsaved' = {Settings(Config(draft))}
  /\ UNCHANGED <<live, draft, form_field, form_open, edits, local_cwd, policies, batch>>

(* The rest of the program: `.' in the panes, and a batch of files.        *)
ToggleHideDotfiles == ~form_open /\ live' = [live EXCEPT !.hide = ~@]
                      /\ UNCHANGED <<draft, form_field, form_open, edits, local_cwd, config, policies, batch, unsaved>>

NavigateLocal == /\ local_cwd' \in Folder
                 /\ UNCHANGED <<live, draft, form_field, form_open, edits, config, policies, batch, unsaved>>

BatchStarts == ~batch /\ batch' = TRUE
               /\ UNCHANGED <<live, draft, form_field, form_open, edits, local_cwd, config, policies, unsaved>>

AnswerForRest == /\ batch
                 /\ \E p \in Answers : policies' = [policies EXCEPT !.current = p]
                 /\ UNCHANGED <<live, draft, form_field, form_open, edits, local_cwd, config, batch, unsaved>>

clear_scan_state == batch /\ batch' = FALSE /\ policies' = [policies EXCEPT !.current = policies.default]
                    /\ UNCHANGED <<live, draft, form_field, form_open, edits, local_cwd, config, unsaved>>

SettingsNext ==
  \/ Restart \/ OpenSettings \/ CancelSettings \/ SelectField \/ CycleValue \/ ClickValue \/ TypeText
  \/ save_settings \/ SaveFails
  \/ ToggleHideDotfiles \/ NavigateLocal \/ BatchStarts \/ AnswerForRest \/ clear_scan_state

SettingsSpec == SettingsInit /\ [][SettingsNext]_settingsVars

-----------------------------------------------------------------------------
(* What is in force is what the next start would read, as long as no save  *)
(* has failed with the file begun: nothing that is saved changes its       *)
(* meaning in the file, and nothing that is cancelled takes effect.        *)
(* Hiding of dotfiles is left out, as a key of the panes changes it for    *)
(* this run of the program only.                                           *)
LiveIsSaved ==
  config # Torn /\ unsaved = {} =>
    LET read == Settings(load_or_default(config))
    IN  [read EXCEPT !.hide = live.hide] = live /\ live.workers \in 1..WORKER_MAX

(* A save that failed with the file begun takes effect at the next start   *)
(* only, and then each setting is the one that was to be saved or is at    *)
(* its default: nothing is left of the file before, and nothing is new.    *)
FailureInventsNothing ==
  config # Torn =>
    \A tried \in unsaved, s \in {"editor", "workers", "hide", "overwrite", "auto"} :
      Settings(load_or_default(config))[s] \in {tried[s], Settings(DefaultConfig)[s]}

FailureIsNotLive == unsaved' # {} => [live' EXCEPT !.hide = live.hide] = live

(* Saving the settings does not change what was decided for the files that *)
(* are being asked about, and without such files the setting applies.      *)
BatchKeepsItsPolicy ==
  /\ batch /\ batch' /\ config' # config => policies'.current = policies.current
  /\ ~batch' => policies'.current = live'.overwrite

(* File, program and the batch being asked about take a save each in its   *)
(* own way, a cancelled one not at all, and a failed one at the next start *)
(* at most, as far as it got.                                              *)
SettingsTakeEffectOnce == /\ [](LiveIsSaved /\ FailureInventsNothing)
                          /\ [][BatchKeepsItsPolicy /\ FailureIsNotLive]_settingsVars
=============================================================================
