-------------------------------- MODULE Menu --------------------------------
(***************************************************************************)
(* The boot menu of a session: the boot password, the list with its         *)
(* countdown, the password of an image, the choice of an installation       *)
(* script and of a persistence backend, the boot attempt and the way back.  *)
(*                                                                          *)
(* Firmware may refuse a timer, and console output may fail at any time.    *)
(* Typed passwords and keys are inputs.                                     *)
(***************************************************************************)
EXTENDS VentoyConfig

CONSTANTS Lists,        \* the lists the scanner may return: [doc, path, type] each
          Typed,        \* what a user may enter as a password
          MaxTries,     \* passwords accepted at the boot gate: 3
          MaxAttempts   \* bound on boot attempts of a session

VARIABLES list,         \* what was found, in menu order
          images,       \* the entries of the menu
          pc,           \* "gate", "denied", "menu", "auth", "wrong", "choose",
                        \* "attempt", "returned" or "exit"
          tries,        \* wrong passwords at the gate
          first,        \* first_display
          selected,     \* position of the bar
          countdown,    \* active_timeout of the menu
          pick,         \* the selected image while it is prepared
          stage,        \* the plugin list being chosen from
          choice,       \* position of the bar in that list
          choiceTimeout,\* active_timeout of that list
          attempts,     \* boot attempts so far
          opened,       \* history: the boot password was verified or not asked for
          verified,     \* history: passwords verified since the image was selected
          touched,      \* history: the screens ("menu", "choose") a key was pressed at
          by,           \* history: "user" or "timer" selected the image
          timer         \* history: every timer asked for was granted

vars == <<list, images, pc, tries, first, selected, countdown, pick, stage, choice,
          choiceTimeout, attempts, opened, verified, touched, by, timer>>

Stages == <<"autoInstall", "persistence">>
Keys == {"up", "down", "home", "end", "enter", "m", "escape", "digit", "other"}

(***************************************************************************)
(* The entries, and where the menu opens.                                   *)
(***************************************************************************)
BuildImage(f) ==
  LET config == ParseConfig(f.doc)
  IN [path |-> f.path, boot |-> config.password.boot,
      password |-> ImagePasswordFor(config, f.path, f.type),
      default |-> DefaultImageMatches(config, f.path), timeout |-> config.timeout,
      plugin |-> ImagePluginFor(config, f.path)]

(* A rule with a list to choose from, as the configuration yields it: the   *)
(* list is not empty, numbers are unsigned.                                 *)
ChoiceRule == [paths : Seq(Seq(STRING)) \ {<<>>}, autosel : Nat \cup {None},
               timeout : Nat \cup {None}]

(* The plugin of an entry has such a rule, or none, for every list.         *)
Configured(plugin) ==
  plugin # None =>
    \A k \in DOMAIN Stages : plugin[Stages[k]] # None => plugin[Stages[k]] \in ChoiceRule

(* The session ends before the menu when nothing was found.                 *)
ASSUME ListsAssumption ==
  \A found \in Lists :
    /\ found \in Seq(Range(found)) /\ found # <<>>
    /\ \A i \in DOMAIN found : Configured(BuildImage(found[i]).plugin)

FirstOf(S) == CHOOSE i \in S : \A j \in S : i <= j

DefaultMenuSelection ==
  LET marked == {i \in DOMAIN images : images[i].default}
  IN IF marked = {} THEN 1 ELSE FirstOf(marked)

MenuTimeoutForSelection ==
  LET timed == {i \in DOMAIN images : images[i].timeout # None}
  IN IF images[DefaultMenuSelection].timeout # None THEN images[DefaultMenuSelection].timeout
     ELSE IF timed = {} THEN None ELSE images[FirstOf(timed)].timeout

BootPassword ==
  LET set == {i \in DOMAIN images : images[i].boot # None}
  IN IF set = {} THEN None ELSE images[FirstOf(set)].boot

(* The menu appears; only the first time does it count down.                *)
ShowMenu(isFirst) ==
  /\ pc' = "menu"
  /\ selected' = DefaultMenuSelection
  /\ countdown' = IF isFirst THEN MenuTimeoutForSelection ELSE None

Init ==
  /\ list \in Lists
  /\ images = [i \in DOMAIN list |-> BuildImage(list[i])]
  /\ pc = "gate"
  /\ tries = 0
  /\ first = TRUE
  /\ selected = 1
  /\ countdown = None
  /\ pick = None
  /\ stage = 0
  /\ choice = 0
  /\ choiceTimeout = None
  /\ attempts = 0
  /\ opened = FALSE
  /\ verified = {}
  /\ touched = {}
  /\ by = None
  /\ timer = TRUE

picking == <<pick, stage, choice, choiceTimeout>>
history == <<opened, verified, touched, by, timer>>

(***************************************************************************)
(* authorize_boot_password.                                                 *)
(***************************************************************************)
GateOpen ==
  /\ pc = "gate"
  /\ BootPassword = None
  /\ ShowMenu(TRUE)
  /\ opened' = TRUE
  /\ UNCHANGED <<list, images, tries, first, picking, attempts, verified, touched, by, timer>>

GatePassword(input) ==
  /\ pc = "gate"
  /\ BootPassword # None
  /\ IF Verify(BootPassword, input)
     THEN ShowMenu(TRUE) /\ opened' = TRUE /\ UNCHANGED tries
     ELSE /\ tries' = tries + 1
          /\ pc' = IF tries' < MaxTries THEN "gate" ELSE "denied"
          /\ UNCHANGED <<selected, countdown, opened>>
  /\ UNCHANGED <<list, images, first, picking, attempts, verified, touched, by, timer>>

DeniedKey ==
  /\ pc = "denied"
  /\ pc' = "exit"
  /\ UNCHANGED <<list, images, tries, first, selected, countdown, picking, attempts, history>>

(***************************************************************************)
(* Plugin choices of the image that was picked.                             *)
(***************************************************************************)
\* Mutant: a configured choice past the end of the list is taken.
ValidPluginChoiceUnchecked(autosel, count) == autosel

ValidPluginChoice(autosel, count) ==
  IF autosel # None /\ autosel <= count THEN autosel ELSE None

ShouldPrompt(rule) ==
  /\ rule.paths # <<>>
  /\ ~(ValidPluginChoice(rule.autosel, Len(rule.paths)) # None /\ rule.timeout = None)

DefaultPluginChoice(rule) ==
  LET valid == ValidPluginChoice(rule.autosel, Len(rule.paths))
  IN IF valid # None THEN valid ELSE 1

\* Mutant: the configured timeout of a prompt is ignored.
PluginChoiceNoTimeout(timeout) == None

PluginChoiceTimeout(timeout) == IF timeout # None /\ timeout > 0 THEN timeout ELSE None

(* The first list from position s on that the user must choose from.        *)
NextPrompt(p, s) ==
  LET asked == {k \in s..Len(Stages) : /\ p.plugin # None
                                       /\ p.plugin[Stages[k]] # None
                                       /\ ShouldPrompt(p.plugin[Stages[k]])}
  IN IF asked = {} THEN 0 ELSE FirstOf(asked)

(* force_ventoy_memdisk_mode, after every choice was made.                  *)
WithMemdisk(p) ==
  IF ~p.force THEN p
  ELSE [p EXCEPT !.plugin = [(IF @ = None THEN NoPlugin ELSE @) EXCEPT !.memdisk = TRUE]]

(* configure_ventoy_plugin_choices from list s on, then the boot attempt.   *)
ConfigureFrom(p, s) ==
  LET k == NextPrompt(p, s)
  IN IF k = 0
     THEN /\ pc' = "attempt"
          /\ pick' = WithMemdisk(p)
          /\ attempts' = attempts + 1
          /\ first' = FALSE
          /\ UNCHANGED <<stage, choice, choiceTimeout>>
     ELSE /\ pc' = "choose"
          /\ pick' = p
          /\ stage' = k
          /\ choice' = DefaultPluginChoice(p.plugin[Stages[k]])
          /\ choiceTimeout' = PluginChoiceTimeout(p.plugin[Stages[k]].timeout)
          /\ UNCHANGED <<attempts, first>>

(* prepare_selected_iso on a copy of the entry under the bar.               *)
Prepare(force, who) ==
  LET image == images[selected]
      copy == [path |-> image.path, at |-> selected, plugin |-> image.plugin,
               password |-> image.password, force |-> force]
  IN /\ attempts < MaxAttempts
     /\ verified' = {}
     /\ by' = who
     /\ countdown' = None
     /\ IF image.password = None THEN ConfigureFrom(copy, 1)
        ELSE /\ pc' = "auth"
             /\ pick' = copy
             /\ UNCHANGED <<stage, choice, choiceTimeout, attempts, first>>

(***************************************************************************)
(* The menu.                                                                *)
(***************************************************************************)
MenuMove(key) ==
  /\ selected' = CASE key = "up" /\ selected > 1 -> selected - 1
                   [] key = "down" /\ selected < Len(images) -> selected + 1
                   [] OTHER -> selected
  /\ UNCHANGED <<pc, picking, attempts, first, verified, by>>

\* Mutant: a key does not stop the countdown.
KeepCountdown == UNCHANGED countdown

StopCountdown == countdown' = None

MenuKey(key) ==
  /\ pc = "menu"
  /\ countdown # 0
  /\ touched' = touched \cup {"menu"}
  /\ CASE key = "enter" -> Prepare(FALSE, "user") /\ UNCHANGED selected
       [] key = "m" -> Prepare(TRUE, "user") /\ UNCHANGED selected
       [] key = "escape" ->
            /\ pc' = "exit"
            /\ StopCountdown
            /\ UNCHANGED <<selected, picking, attempts, first, verified, by>>
       [] OTHER -> MenuMove(key) /\ StopCountdown
  /\ UNCHANGED <<list, images, tries, opened, timer>>

(* wait_for_key_or_timeout returns without a key: at once for zero seconds. *)
MenuTimeout ==
  /\ pc = "menu"
  /\ countdown # None
  /\ Prepare(FALSE, "timer")
  /\ UNCHANGED <<list, images, tries, selected, opened, touched, timer>>

(* Without an event or a timer the countdown is a wait for a key.           *)
MenuTimerRefused ==
  /\ pc = "menu"
  /\ countdown \notin {None, 0}
  /\ countdown' = None
  /\ timer' = FALSE
  /\ UNCHANGED <<list, images, pc, tries, first, selected, picking, attempts, opened,
                 verified, touched, by>>

(***************************************************************************)
(* authorize_iso: one try, then a key and back to the menu.                 *)
(***************************************************************************)
AuthPassword(input) ==
  /\ pc = "auth"
  /\ IF Verify(pick.password, input)
     THEN /\ verified' = verified \cup {pick.password}
          /\ ConfigureFrom(pick, 1)
     ELSE /\ pc' = "wrong"
          /\ UNCHANGED <<picking, attempts, first, verified>>
  /\ UNCHANGED <<list, images, tries, selected, countdown, opened, touched, by, timer>>

WrongKey ==
  /\ pc = "wrong"
  /\ pc' = "menu"
  /\ pick' = None
  /\ UNCHANGED <<list, images, tries, first, selected, countdown, stage, choice, choiceTimeout,
                 attempts, history>>

(***************************************************************************)
(* choose_plugin_path.                                                      *)
(***************************************************************************)
Chosen(p, k, n) == [p EXCEPT !.plugin = [@ EXCEPT ![Stages[k]].autosel = n]]

ChoiceMove(key, digit) ==
  LET count == Len(pick.plugin[Stages[stage]].paths)
  IN /\ choice' = CASE key = "up" -> IF choice = 0 THEN count ELSE choice - 1
                    [] key = "down" -> (choice + 1) % (count + 1)
                    [] key = "home" -> 0
                    [] key = "end" -> count
                    [] key = "digit" /\ digit <= count -> digit
                    [] OTHER -> choice
     /\ choiceTimeout' = None
     /\ UNCHANGED <<pc, pick, stage, attempts, first>>

ChoiceKey(key, digit) ==
  /\ pc = "choose"
  /\ CASE key = "enter" -> ConfigureFrom(Chosen(pick, stage, choice), stage + 1)
       [] key = "escape" ->
            /\ pc' = "menu"
            /\ pick' = None
            /\ UNCHANGED <<stage, choice, choiceTimeout, attempts, first>>
       [] OTHER -> ChoiceMove(key, digit)
  /\ touched' = touched \cup {"choose"}
  /\ UNCHANGED <<list, images, tries, selected, countdown, opened, verified, by, timer>>

ChoiceExpires ==
  /\ pc = "choose"
  /\ choiceTimeout # None
  /\ ConfigureFrom(Chosen(pick, stage, choice), stage + 1)
  /\ UNCHANGED <<list, images, tries, selected, countdown, history>>

ChoiceTimerRefused ==
  /\ pc = "choose"
  /\ choiceTimeout # None
  /\ choiceTimeout' = None
  /\ timer' = FALSE
  /\ UNCHANGED <<list, images, pc, tries, first, selected, countdown, pick, stage, choice,
                 attempts, opened, verified, touched, by>>

(***************************************************************************)
(* The attempt and the way back; console errors.                            *)
(***************************************************************************)
AttemptReturns ==
  /\ pc = "attempt"
  /\ pc' = "returned"
  /\ UNCHANGED <<list, images, tries, first, selected, countdown, picking, attempts, history>>

ReturnKey(key) ==
  /\ pc = "returned"
  /\ IF key = "escape" THEN pc' = "exit" /\ UNCHANGED <<selected, countdown>> ELSE ShowMenu(first)
  /\ pick' = None
  /\ UNCHANGED <<list, images, tries, first, stage, choice, choiceTimeout, attempts, history>>

OutputFails ==
  /\ pc \in {"gate", "menu", "auth", "choose"}
  /\ pc' = "exit"
  /\ UNCHANGED <<list, images, tries, first, selected, countdown, picking, attempts, history>>

Left == pc = "exit" /\ UNCHANGED vars

Next ==
  \/ GateOpen \/ DeniedKey
  \/ \E input \in Typed : GatePassword(input) \/ AuthPassword(input)
  \/ \E key \in Keys : MenuKey(key) \/ ReturnKey(key)
  \/ \E key \in Keys, digit \in {0, 2, 9} : (key # "digit" => digit = 0) /\ ChoiceKey(key, digit)
  \/ MenuTimeout \/ MenuTimerRefused
  \/ WrongKey \/ ChoiceExpires \/ ChoiceTimerRefused
  \/ AttemptReturns \/ OutputFails \/ Left

(* Timers that were set expire, and the loader takes the steps that wait    *)
(* for nothing.                                                             *)
Fairness == WF_vars(GateOpen) /\ WF_vars(MenuTimeout) /\ WF_vars(ChoiceExpires)

Spec == Init /\ [][Next]_vars /\ Fairness

(***************************************************************************)
(* What a document demands, stated without its parser: the last platform    *)
(* section of passwords wins, the last plain one without any; in it a rule  *)
(* for the image, then for its directory, then its type.                    *)
(***************************************************************************)
LastWith(seq, Test(_)) ==
  LET hits == {i \in DOMAIN seq : Test(seq[i])}
  IN IF hits = {} THEN None ELSE seq[CHOOSE i \in hits : \A j \in hits : j <= i]

FirstWith(seq, Test(_)) ==
  LET hits == {i \in DOMAIN seq : Test(seq[i])}
  IN IF hits = {} THEN None ELSE seq[FirstOf(hits)]

(* pattern[1..i] covers path[1..j].                                         *)
Covers(pattern, path, crosses) ==
  LET covers[i \in 0..Len(pattern), j \in 0..Len(path)] ==
        IF i = 0 THEN j = 0
        ELSE IF pattern[i] = "*"
          THEN \E k \in 0..j : /\ covers[i - 1, k]
                               /\ crosses \/ \A l \in (k + 1)..j : path[l] # "/"
          ELSE j > 0 /\ Fold(pattern[i]) = Fold(path[j]) /\ covers[i - 1, j - 1]
  IN covers[Len(pattern), Len(path)]

PasswordSection(doc) ==
  LET platform == LastWith(doc.sections, LAMBDA s : ParsesPlatformPassword(s.key))
      plain == LastWith(doc.sections, LAMBDA s : s.key = "password")
  IN IF platform # None THEN platform.val ELSE IF plain # None THEN plain.val ELSE <<>>

FieldPassword(fields, key) ==
  LET field == LastWith(fields, LAMBDA f : f.key = key)
  IN IF field = None THEN None ELSE ParsePassword(field.val)

Protects(rule, path, kind) ==
  LET Usable(key) == LastWith(rule, LAMBDA f : f.key = key /\ IsString(f.val)
                                               /\ IsAbsoluteConfigPath(f.val.path))
      file == Usable("file")
      parent == FirstWith(rule, LAMBDA f : f.key = "parent" /\ IsString(f.val)
                                           /\ IsAbsoluteConfigPath(f.val.path))
  IN /\ FieldPassword(rule, "pwd") # None
     /\ CASE kind = "image" -> file # None /\ Covers(NormalizeConfigPath(file.val.path), path, TRUE)
          [] kind = "parent" -> /\ file = None
                                /\ parent # None
                                /\ Covers(NormalizeConfigPath(parent.val.path), ParentDir(path), FALSE)

DemandedPassword(f) ==
  LET section == PasswordSection(f.doc)
      menu == LastWith(section, LAMBDA x : x.key = "menupwd")
      rules == IF menu = None THEN <<>> ELSE menu.val.items
      image == FirstWith(rules, LAMBDA r : Protects(r, f.path, "image"))
      parent == FirstWith(rules, LAMBDA r : Protects(r, f.path, "parent"))
  IN IF ~ParseDocument(f.doc).ok THEN None
     ELSE IF image # None THEN FieldPassword(image, "pwd")
     ELSE IF parent # None THEN FieldPassword(parent, "pwd")
     ELSE FieldPassword(section, f.type)

(***************************************************************************)
(* Properties.                                                              *)
(***************************************************************************)
(* show_menu, authorize_boot_password and authorize_iso: whichever way an   *)
(* image leaves the menu (a key, the countdown, the memory-disk key, a      *)
(* second display after a failed attempt), the password its document        *)
(* demands was entered for this very selection, and a boot password before  *)
(* the first menu.                                                          *)
AuthorizedBoot ==
  pc = "attempt" =>
    /\ opened
    /\ LET demanded == DemandedPassword(list[pick.at])
       IN demanded # None => demanded \in verified

(* wait_for_key_or_timeout: the countdown starts an image only when nobody  *)
(* touched the menu, only before the first attempt, and only the default.   *)
UserStaysInControl ==
  pc = "attempt" /\ by = "timer" =>
    /\ "menu" \notin touched
    /\ attempts = 1
    /\ pick.at = DefaultMenuSelection

(* configure_ventoy_plugin_choices: an image leaves the menu with a script  *)
(* and a backend that exist, or with none; a configured choice beyond the   *)
(* list is asked for and never taken for a choice.                          *)
ChosenExists ==
  pc = "attempt" /\ pick.plugin # None =>
    \A k \in DOMAIN Stages :
      LET rule == pick.plugin[Stages[k]]
      IN rule # None => rule.autosel \in 0..Len(rule.paths)

(* The default image needs nobody: no password, and every choice is         *)
(* configured or counts down.                                               *)
Unattended ==
  /\ BootPassword = None
  /\ MenuTimeoutForSelection # None
  /\ images[DefaultMenuSelection].password = None
  /\ LET plugin == images[DefaultMenuSelection].plugin
     IN plugin # None =>
          \A k \in DOMAIN Stages :
            LET rule == plugin[Stages[k]]
            IN rule # None => \/ rule.timeout # None /\ rule.timeout > 0
                              \/ /\ rule.autosel # None
                                 /\ rule.autosel <= Len(rule.paths)
                                 /\ rule.timeout = None

(* A machine nobody attends boots its default image, through the menu's     *)
(* countdown and those of the choices, unless a timer is refused, a key is  *)
(* pressed or the console fails.                                            *)
UnattendedBoots ==
  (pc = "gate" /\ Unattended) ~> (pc = "attempt" \/ pc = "exit" \/ touched # {} \/ ~timer)
=============================================================================
