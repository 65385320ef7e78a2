----------------------------- MODULE MenuProofs -----------------------------
(***************************************************************************)
(* Proofs about Menu, for every list of images, every key press and         *)
(* password, any number of attempts and any failure of timers and console.  *)
(* They are about the session; what ParseConfig makes of a document enters  *)
(* through ListsAssumption only.                                            *)
(***************************************************************************)
EXTENDS Menu, WellFoundedInduction, TLAPS

---------------------------------------------------------------------------
(***************************************************************************)
(* The inductive invariant.  The properties speak of the moment an image    *)
(* leaves the menu; the invariant says of every screen on the way what is   *)
(* known about the image and who brought it there.                          *)
(***************************************************************************)
PickFields == {"path", "at", "plugin", "password", "force"}

\* The screens an image passes after it was selected.
Preparing == {"auth", "wrong", "choose", "attempt"}

EntriesInv ==
  /\ list \in Lists
  /\ images = [i \in DOMAIN list |-> BuildImage(list[i])]
  /\ selected \in DOMAIN images
  /\ attempts \in Nat

\* The copy that is prepared still is of the entry it was taken from.
PickInv ==
  pc \in Preparing =>
    /\ DOMAIN pick = PickFields
    /\ pick.at \in DOMAIN images
    /\ pick.password = images[pick.at].password

GateInv ==
  /\ pc = "gate" => attempts = 0 /\ touched = {}
  /\ pc \notin {"gate", "denied", "exit"} => opened

\* A countdown runs only on the first display, on the default, untouched.
CountdownInv ==
  /\ pc = "menu" /\ countdown # None =>
       attempts = 0 /\ "menu" \notin touched /\ selected = DefaultMenuSelection
  /\ pc \in {"auth", "wrong", "choose"} => countdown = None
  /\ pc \in {"attempt", "returned"} => ~first

TimerInv ==
  by = "timer" /\ pc \in Preparing =>
    /\ "menu" \notin touched
    /\ pick.at = DefaultMenuSelection
    /\ attempts = IF pc = "attempt" THEN 1 ELSE 0

PasswordInv ==
  pc \in {"choose", "attempt"} /\ pick.password # None => pick.password \in verified

PluginOK(plugin) ==
  plugin # None => DOMAIN plugin = DOMAIN NoPlugin /\ Configured(plugin)

\* The first n lists have a choice that exists, or none.
Settled(plugin, n) ==
  \A k \in 1 .. n :
    plugin # None /\ plugin[Stages[k]] # None =>
      plugin[Stages[k]].autosel \in 0 .. Len(plugin[Stages[k]].paths)

Choosing ==
  /\ stage \in 1 .. 2
  /\ pick.plugin # None /\ pick.plugin[Stages[stage]] # None
  /\ Settled(pick.plugin, stage - 1)
  /\ choice \in 0 .. Len(pick.plugin[Stages[stage]].paths)

ChoiceInv ==
  /\ pc \in {"auth", "choose"} => PluginOK(pick.plugin)
  /\ pc = "choose" => Choosing
  /\ pc = "attempt" => Settled(pick.plugin, 2)

MenuInv ==
  /\ EntriesInv /\ PickInv /\ GateInv /\ CountdownInv /\ TimerInv /\ PasswordInv /\ ChoiceInv

\* The password of the entry that leaves the menu was entered for this very
\* selection, and the boot password before the first menu.
EntryAuthorized ==
  pc = "attempt" =>
    /\ opened
    /\ images[pick.at].password # None => images[pick.at].password \in verified

\* The parser finds the password the document demands.
ParsedAsDemanded ==
  \A i \in DOMAIN list : images[i].password = DemandedPassword(list[i])
---------------------------------------------------------------------------
(***************************************************************************)
(* Helpers.                                                                *)
(***************************************************************************)
\* A non-empty set of positions has a first one.
LEMMA FirstOfSet ==
  ASSUME NEW S \in SUBSET Nat, S # {}
  PROVE  FirstOf(S) \in S /\ \A j \in S : FirstOf(S) <= j
<1> DEFINE R == OpToRel(<, Nat)
<1>1. IsWellFoundedOn(R, Nat)
  BY NatLessThanWellFounded
<1>2. \A a, b \in Nat : a < b => <<a, b>> \in R
  BY DEF OpToRel
<1> HIDE DEF R
<1>3. PICK x \in S : \A y \in S : ~ (<<y, x>> \in R)
  BY <1>1, WFMin
<1>4. \A y \in S : x <= y
  <2> SUFFICES ASSUME NEW y \in S PROVE x <= y
    OBVIOUS
  <2>1. x \in Nat /\ y \in Nat /\ ~(y < x)
    BY <1>2, <1>3
  <2> QED BY <2>1
<1> QED BY <1>3, <1>4 DEF FirstOf

\* The two plugin lists.
LEMMA StagesAre ==
  /\ Len(Stages) = 2 /\ DOMAIN Stages = 1 .. 2
  /\ Stages[1] = "autoInstall" /\ Stages[2] = "persistence"
  BY DEF Stages

\* The menu shows exactly what was found, and something was.
LEMMA EntriesAre ==
  ASSUME EntriesInv
  PROVE  /\ DOMAIN images = DOMAIN list /\ DOMAIN images = 1 .. Len(images)
         /\ Len(images) \in Nat \ {0}
         /\ \A i \in DOMAIN images : images[i] = BuildImage(list[i])
<1>1. list \in Seq(Range(list)) /\ list # <<>>
  BY ListsAssumption DEF EntriesInv
<1>2. DOMAIN list = 1 .. Len(list) /\ Len(list) \in Nat \ {0}
  BY <1>1
<1>3. images = [i \in 1 .. Len(list) |-> BuildImage(list[i])]
  BY <1>2 DEF EntriesInv
<1>4. Len(images) = Len(list)
  BY <1>2, <1>3
<1> QED BY <1>2, <1>3, <1>4

\* The bar opens on an entry of the menu.
LEMMA DefaultIsEntry ==
  ASSUME EntriesInv
  PROVE  DefaultMenuSelection \in DOMAIN images
<1> DEFINE marked == {i \in DOMAIN images : images[i].default}
<1>1. DOMAIN images = 1 .. Len(images) /\ Len(images) \in Nat \ {0}
  BY EntriesAre
<1>2. marked \in SUBSET Nat /\ marked \subseteq DOMAIN images
  BY <1>1
<1>3. CASE marked = {}
  BY <1>1, <1>3 DEF DefaultMenuSelection
<1>4. CASE marked # {}
  <2>1. DefaultMenuSelection = FirstOf(marked)
    BY <1>4 DEF DefaultMenuSelection
  <2> HIDE DEF marked
  <2>2. FirstOf(marked) \in marked
    BY <1>2, <1>4, FirstOfSet
  <2> QED BY <1>2, <2>1, <2>2
<1> QED BY <1>3, <1>4

\* Every entry's plugin is one of the configuration's.
LEMMA EntryPlugin ==
  ASSUME EntriesInv, NEW i \in DOMAIN images
  PROVE  PluginOK(images[i].plugin)
<1>1. i \in DOMAIN list /\ images[i] = BuildImage(list[i])
  BY EntriesAre
<1>2. Configured(images[i].plugin)
  BY <1>1, ListsAssumption DEF EntriesInv
<1>3. images[i].plugin = ImagePluginFor(ParseConfig(list[i].doc), list[i].path)
  BY <1>1 DEF BuildImage
<1>4. images[i].plugin # None => DOMAIN images[i].plugin = DOMAIN NoPlugin
  BY <1>3 DEF ImagePluginFor, NoPlugin
<1> QED BY <1>2, <1>4 DEF PluginOK

---------------------------------------------------------------------------
(***************************************************************************)
(* configure_ventoy_plugin_choices.                                        *)
(***************************************************************************)
\* A list that is not asked for has a choice, as its rule has paths.
LEMMA NotAsked ==
  ASSUME NEW rule \in ChoiceRule, ~ShouldPrompt(rule)
  PROVE  rule.autosel \in 0 .. Len(rule.paths)
<1>1. /\ rule.paths \in Seq(Seq(STRING)) /\ rule.paths # <<>>
      /\ rule.autosel \in Nat \cup {None}
  BY DEF ChoiceRule
<1>2. Len(rule.paths) \in Nat
  BY <1>1
<1>3. ValidPluginChoice(rule.autosel, Len(rule.paths)) # None
  BY <1>1 DEF ShouldPrompt
<1>4. rule.autosel # None /\ rule.autosel <= Len(rule.paths)
  BY <1>3 DEF ValidPluginChoice
<1> QED BY <1>1, <1>2, <1>4

\* The bar of a list opens on one of its paths.
LEMMA DefaultExists ==
  ASSUME NEW rule \in ChoiceRule
  PROVE  DefaultPluginChoice(rule) \in 0 .. Len(rule.paths)
<1>1. /\ rule.paths \in Seq(Seq(STRING)) /\ rule.paths # <<>>
      /\ rule.autosel \in Nat \cup {None}
  BY DEF ChoiceRule
<1>2. Len(rule.paths) \in Nat \ {0}
  BY <1>1
<1> DEFINE valid == ValidPluginChoice(rule.autosel, Len(rule.paths))
<1>3. valid # None => valid \in Nat /\ valid <= Len(rule.paths)
  BY <1>1 DEF ValidPluginChoice
<1>4. DefaultPluginChoice(rule) = IF valid # None THEN valid ELSE 1
  BY DEF DefaultPluginChoice
<1> HIDE DEF valid
<1> QED BY <1>2, <1>3, <1>4

\* What is known of an image before the lists from s on are looked at.
Ready(p, s) ==
  /\ DOMAIN p = PickFields
  /\ PluginOK(p.plugin)
  /\ s \in 1 .. 3
  /\ Settled(p.plugin, s - 1)

\* Lists that are skipped are settled.
LEMMA PromptSkips ==
  ASSUME NEW p, NEW s, Ready(p, s)
  PROVE  LET k == NextPrompt(p, s)
         IN /\ k = 0 => Settled(p.plugin, 2)
            /\ k # 0 => /\ k \in s .. 2 /\ Settled(p.plugin, k - 1)
                        /\ p.plugin # None /\ p.plugin[Stages[k]] # None
<1> DEFINE asked == {k \in s .. Len(Stages) : /\ p.plugin # None
                                             /\ p.plugin[Stages[k]] # None
                                             /\ ShouldPrompt(p.plugin[Stages[k]])}
           k == NextPrompt(p, s)
<1>1. s \in 1 .. 3 /\ Settled(p.plugin, s - 1) /\ PluginOK(p.plugin)
  BY DEF Ready
<1>2. asked \in SUBSET Nat /\ asked \subseteq s .. 2
  BY <1>1, StagesAre
<1>3. ASSUME NEW j \in s .. 2, j \notin asked,
             p.plugin # None, p.plugin[Stages[j]] # None
      PROVE  p.plugin[Stages[j]].autosel \in 0 .. Len(p.plugin[Stages[j]].paths)
  <2>1. j \in DOMAIN Stages
    BY <1>1, <1>3, StagesAre
  <2>2. p.plugin[Stages[j]] \in ChoiceRule
    BY <1>1, <1>3, <2>1 DEF PluginOK, Configured
  <2>3. ~ShouldPrompt(p.plugin[Stages[j]])
    BY <1>3, StagesAre
  <2> QED BY <2>2, <2>3, NotAsked
<1>4. k = IF asked = {} THEN 0 ELSE FirstOf(asked)
  BY DEF NextPrompt
<1>5. \A j \in asked : p.plugin # None /\ p.plugin[Stages[j]] # None
  OBVIOUS
<1> HIDE DEF asked, k
<1>6. CASE asked = {}
  <2>1. Settled(p.plugin, 2)
    BY <1>1, <1>3, <1>6 DEF Settled
  <2> QED BY <1>4, <1>6, <2>1 DEF k
<1>7. CASE asked # {}
  <2>1. k \in asked /\ \A j \in asked : k <= j
    BY <1>2, <1>4, <1>7, FirstOfSet
  <2>2. k \in s .. 2 /\ k \in Nat /\ k # 0
    BY <1>1, <1>2, <2>1
  <2>3. Settled(p.plugin, k - 1)
    <3> SUFFICES ASSUME NEW j \in 1 .. k - 1, p.plugin # None, p.plugin[Stages[j]] # None
                 PROVE  p.plugin[Stages[j]].autosel \in 0 .. Len(p.plugin[Stages[j]].paths)
      BY DEF Settled
    <3>1. CASE j <= s - 1
      BY <1>1, <3>1 DEF Settled
    <3>2. CASE j > s - 1
      <4>1. j \in s .. 2 /\ j \notin asked
        BY <1>1, <1>2, <2>1, <2>2, <3>2
      <4> QED BY <1>3, <4>1
    <3> QED BY <1>1, <2>2, <3>1, <3>2
  <2> QED BY <1>5, <2>1, <2>2, <2>3 DEF k
<1> QED BY <1>6, <1>7

\* The memory-disk key changes nothing else of an image.
LEMMA MemdiskKeeps ==
  ASSUME NEW p, DOMAIN p = PickFields, PluginOK(p.plugin), Settled(p.plugin, 2)
  PROVE  /\ DOMAIN WithMemdisk(p) = PickFields
         /\ WithMemdisk(p).at = p.at /\ WithMemdisk(p).password = p.password
         /\ Settled(WithMemdisk(p).plugin, 2)
<1> DEFINE base == IF p.plugin = None THEN NoPlugin ELSE p.plugin
           new == [base EXCEPT !.memdisk = TRUE]
<1>1. CASE ~p.force
  BY <1>1 DEF WithMemdisk
<1>2. CASE p.force
  <2>1. WithMemdisk(p) = [p EXCEPT !.plugin = new]
    BY <1>2 DEF WithMemdisk
  <2>2. DOMAIN base = DOMAIN NoPlugin
    BY DEF PluginOK
  <2>3. DOMAIN NoPlugin = {"autoInstall", "persistence", "injection", "dud", "confReplace",
                           "memdisk"}
    BY DEF NoPlugin
  <2> HIDE DEF base
  <2>4. new["autoInstall"] = base["autoInstall"] /\ new["persistence"] = base["persistence"]
    BY <2>2, <2>3
  <2> HIDE DEF new
  <2>5. /\ DOMAIN WithMemdisk(p) = PickFields /\ WithMemdisk(p).plugin = new
        /\ WithMemdisk(p).at = p.at /\ WithMemdisk(p).password = p.password
    BY <2>1 DEF PickFields
  <2>6. Settled(new, 2)
    <3> SUFFICES ASSUME NEW j \in 1 .. 2, new[Stages[j]] # None
                 PROVE  new[Stages[j]].autosel \in 0 .. Len(new[Stages[j]].paths)
      BY DEF Settled
    <3>1. new[Stages[j]] = base[Stages[j]]
      BY <2>4, StagesAre
    <3>2. p.plugin # None
      <4>1. NoPlugin["autoInstall"] = None /\ NoPlugin["persistence"] = None
        BY DEF NoPlugin
      <4>2. p.plugin = None => base[Stages[j]] = None
        BY <4>1, StagesAre DEF base
      <4> QED BY <3>1, <4>2
    <3>3. base = p.plugin
      BY <3>2 DEF base
    <3> QED BY <3>1, <3>2, <3>3 DEF Settled
  <2> QED BY <2>5, <2>6
<1> QED BY <1>1, <1>2

\* What configure_ventoy_plugin_choices leaves behind.
LEMMA ConfigureLeaves ==
  ASSUME NEW p, NEW s, Ready(p, s), ConfigureFrom(p, s), attempts \in Nat
  PROVE  /\ pc' \in {"choose", "attempt"}
         /\ DOMAIN pick' = PickFields /\ pick'.at = p.at /\ pick'.password = p.password
         /\ pc' = "choose" => /\ PluginOK(pick'.plugin) /\ Choosing'
                              /\ attempts' = attempts
         /\ pc' = "attempt" => /\ Settled(pick'.plugin, 2) /\ ~first'
                               /\ attempts' = attempts + 1
<1> DEFINE k == NextPrompt(p, s)
<1>1. DOMAIN p = PickFields /\ PluginOK(p.plugin) /\ s \in 1 .. 3
  BY DEF Ready
<1>2. CASE k = 0
  <2>1. /\ pc' = "attempt" /\ pick' = WithMemdisk(p) /\ attempts' = attempts + 1
        /\ first' = FALSE
    BY <1>2 DEF ConfigureFrom
  <2>2. Settled(p.plugin, 2)
    BY <1>2, PromptSkips
  <2> QED BY <1>1, <2>1, <2>2, MemdiskKeeps
<1>3. CASE k # 0
  <2>1. /\ pc' = "choose" /\ pick' = p /\ stage' = k /\ attempts' = attempts
        /\ choice' = DefaultPluginChoice(p.plugin[Stages[k]])
    BY <1>3 DEF ConfigureFrom
  <2>2. /\ k \in s .. 2 /\ Settled(p.plugin, k - 1)
        /\ p.plugin # None /\ p.plugin[Stages[k]] # None
    BY <1>3, PromptSkips
  <2> HIDE DEF k
  <2>3. k \in 1 .. 2
    BY <1>1, <2>2
  <2>4. p.plugin[Stages[k]] \in ChoiceRule
    BY <1>1, <2>2, <2>3, StagesAre DEF PluginOK, Configured
  <2>5. choice' \in 0 .. Len(p.plugin[Stages[k]].paths)
    BY <2>1, <2>4, DefaultExists
  <2>6. Choosing'
    BY <2>1, <2>2, <2>3, <2>5 DEF Choosing
  <2> QED BY <1>1, <2>1, <2>6
<1> QED BY <1>2, <1>3

\* Taking a path of the list makes the image ready for the next list.
LEMMA ChosenReady ==
  ASSUME DOMAIN pick = PickFields, PluginOK(pick.plugin), Choosing
  PROVE  /\ Ready(Chosen(pick, stage, choice), stage + 1)
         /\ Chosen(pick, stage, choice).at = pick.at
         /\ Chosen(pick, stage, choice).password = pick.password
<1> DEFINE plugin == pick.plugin
           key == Stages[stage]
           rule == plugin[key]
           newRule == [rule EXCEPT !.autosel = choice]
           new == [plugin EXCEPT ![key] = newRule]
           p == Chosen(pick, stage, choice)
<1>1. /\ stage \in 1 .. 2 /\ plugin # None /\ rule # None
      /\ Settled(plugin, stage - 1) /\ choice \in 0 .. Len(rule.paths)
  BY DEF Choosing
<1>2. DOMAIN plugin = DOMAIN NoPlugin /\ Configured(plugin)
  BY <1>1 DEF PluginOK
<1>3. rule \in ChoiceRule
  BY <1>1, <1>2, StagesAre DEF Configured
<1>4. rule.paths \in Seq(Seq(STRING)) /\ Len(rule.paths) \in Nat
  BY <1>3 DEF ChoiceRule
<1>5. choice \in Nat
  BY <1>1, <1>4
<1>6. /\ newRule \in ChoiceRule /\ newRule.autosel = choice /\ newRule.paths = rule.paths
  <2> HIDE DEF rule
  <2> QED BY <1>3, <1>5 DEF ChoiceRule
<1>7. p = [pick EXCEPT !.plugin = new]
  BY DEF Chosen
<1>8. key \in DOMAIN plugin
  <2>1. DOMAIN NoPlugin = {"autoInstall", "persistence", "injection", "dud", "confReplace",
                           "memdisk"}
    BY DEF NoPlugin
  <2> QED BY <1>1, <1>2, <2>1, StagesAre
<1>9. key = Stages[stage] /\ rule = plugin[key] /\ plugin = pick.plugin
  OBVIOUS
<1> HIDE DEF newRule, plugin, key, rule
<1>10. /\ DOMAIN new = DOMAIN NoPlugin /\ new[key] = newRule
       /\ \A x \in DOMAIN plugin : x # key => new[x] = plugin[x]
  BY <1>2, <1>8
<1> HIDE DEF new
<1>11. /\ DOMAIN p = PickFields /\ p.plugin = new
       /\ p.at = pick.at /\ p.password = pick.password
  <2> HIDE DEF p
  <2> QED BY <1>7 DEF PickFields
<1> HIDE DEF p
<1>12. ASSUME NEW j \in 1 .. 2
       PROVE  /\ Stages[j] \in DOMAIN plugin
              /\ j # stage => Stages[j] # key
  <2>1. DOMAIN NoPlugin = {"autoInstall", "persistence", "injection", "dud", "confReplace",
                           "memdisk"}
    BY DEF NoPlugin
  <2> QED BY <1>1, <1>2, <1>9, <2>1, StagesAre
<1>13. Configured(new)
  <2> SUFFICES ASSUME NEW j \in DOMAIN Stages, new[Stages[j]] # None
               PROVE  new[Stages[j]] \in ChoiceRule
    BY DEF Configured
  <2>1. CASE j = stage
    BY <1>6, <1>9, <1>10, <2>1
  <2>2. CASE j # stage
    <3>1. new[Stages[j]] = plugin[Stages[j]]
      BY <1>10, <1>12, <2>2, StagesAre
    <3> QED BY <1>1, <1>2, <3>1 DEF Configured
  <2> QED BY <2>1, <2>2
<1>14. Settled(new, stage)
  <2> SUFFICES ASSUME NEW j \in 1 .. stage, new[Stages[j]] # None
               PROVE  new[Stages[j]].autosel \in 0 .. Len(new[Stages[j]].paths)
    BY DEF Settled
  <2>1. CASE j = stage
    BY <1>1, <1>6, <1>9, <1>10, <2>1
  <2>2. CASE j # stage
    <3>1. j \in 1 .. stage - 1 /\ j \in 1 .. 2
      BY <1>1, <2>2
    <3>2. new[Stages[j]] = plugin[Stages[j]]
      BY <1>10, <1>12, <2>2, <3>1
    <3> QED BY <1>1, <3>1, <3>2 DEF Settled
  <2> QED BY <2>1, <2>2
<1>15. stage + 1 \in 1 .. 3 /\ (stage + 1) - 1 = stage
  BY <1>1
<1>16. Ready(p, stage + 1)
  BY <1>2, <1>10, <1>11, <1>13, <1>14, <1>15 DEF Ready, PluginOK
<1> QED BY <1>11, <1>16 DEF p
---------------------------------------------------------------------------
(***************************************************************************)
(* The invariant is inductive.                                             *)
(***************************************************************************)
\* The session starts at the gate with nothing selected.
LEMMA InitMenu == Init => MenuInv
<1> SUFFICES ASSUME Init PROVE MenuInv
  OBVIOUS
<1>1. /\ list \in Lists /\ images = [i \in DOMAIN list |-> BuildImage(list[i])]
      /\ pc = "gate" /\ selected = 1 /\ attempts = 0 /\ touched = {}
  BY DEF Init
<1>2. list \in Seq(Range(list)) /\ list # <<>>
  BY <1>1, ListsAssumption
<1>3. 1 \in DOMAIN list
  BY <1>2
<1>4. EntriesInv
  BY <1>1, <1>3 DEF EntriesInv
<1>5. PickInv /\ GateInv /\ CountdownInv /\ TimerInv /\ PasswordInv /\ ChoiceInv
  BY <1>1 DEF PickInv, GateInv, CountdownInv, TimerInv, PasswordInv, ChoiceInv, Preparing
<1> QED BY <1>4, <1>5 DEF MenuInv

\* The list is never changed, so the default stays the default.
LEMMA ListKept ==
  ASSUME [Next]_vars
  PROVE  /\ list' = list /\ images' = images
         /\ DefaultMenuSelection' = DefaultMenuSelection
<1>1. list' = list /\ images' = images
  BY DEF Next, GateOpen, DeniedKey, GatePassword, AuthPassword, MenuKey, ReturnKey, ChoiceKey,
     MenuTimeout, MenuTimerRefused, WrongKey, ChoiceExpires, ChoiceTimerRefused,
     AttemptReturns, OutputFails, Left, vars
<1> QED BY <1>1 DEF DefaultMenuSelection

\* Screens on which no image is being prepared and no countdown runs.
LEMMA IdleScreen ==
  ASSUME EntriesInv', opened' \/ pc' \in {"denied", "exit"},
         \/ pc' \in {"denied", "exit"}
         \/ pc' = "returned" /\ ~first'
         \/ pc' = "menu" /\ countdown' = None
  PROVE  MenuInv'
  BY DEF MenuInv, PickInv, GateInv, CountdownInv, TimerInv, PasswordInv, ChoiceInv, Preparing

\* The lists of an authorized image are looked at.
LEMMA ConfigureKeeps ==
  ASSUME MenuInv, EntriesInv', images' = images,
         DefaultMenuSelection' = DefaultMenuSelection,
         NEW p, NEW s, Ready(p, s), ConfigureFrom(p, s),
         p.at \in DOMAIN images, p.password = images[p.at].password,
         opened', countdown' = None,
         p.password # None => p.password \in verified',
         by' = "timer" =>
           "menu" \notin touched' /\ p.at = DefaultMenuSelection /\ attempts = 0
  PROVE  MenuInv'
<1>1. attempts \in Nat
  BY DEF MenuInv, EntriesInv
<1>2. /\ pc' \in {"choose", "attempt"}
      /\ DOMAIN pick' = PickFields /\ pick'.at = p.at /\ pick'.password = p.password
      /\ pc' = "choose" => PluginOK(pick'.plugin) /\ Choosing' /\ attempts' = attempts
      /\ pc' = "attempt" => Settled(pick'.plugin, 2) /\ ~first' /\ attempts' = attempts + 1
  BY <1>1, ConfigureLeaves
<1>3. PickInv'
  BY <1>2 DEF PickInv
<1>4. GateInv' /\ CountdownInv'
  BY <1>2 DEF GateInv, CountdownInv
<1>5. TimerInv'
  BY <1>2 DEF TimerInv
<1>6. PasswordInv'
  BY <1>2 DEF PasswordInv
<1>7. ChoiceInv'
  BY <1>2 DEF ChoiceInv
<1> QED BY <1>3, <1>4, <1>5, <1>6, <1>7 DEF MenuInv

\* An image is selected, by a key or by the countdown.
LEMMA PrepareKeeps ==
  ASSUME MenuInv, EntriesInv', images' = images,
         DefaultMenuSelection' = DefaultMenuSelection,
         NEW force, NEW who, Prepare(force, who), opened',
         who = "timer" =>
           "menu" \notin touched' /\ selected = DefaultMenuSelection /\ attempts = 0
  PROVE  MenuInv'
<1> DEFINE image == images[selected]
           copy == [path |-> image.path, at |-> selected, plugin |-> image.plugin,
                    password |-> image.password, force |-> force]
<1>1. EntriesInv /\ selected \in DOMAIN images /\ attempts \in Nat
  BY DEF MenuInv, EntriesInv
<1>2. /\ DOMAIN copy = PickFields /\ copy.at = selected
      /\ copy.password = image.password /\ copy.plugin = image.plugin
  BY DEF PickFields
<1>3. PluginOK(image.plugin)
  BY <1>1, EntryPlugin
<1>4. /\ verified' = {} /\ by' = who /\ countdown' = None
      /\ IF image.password = None THEN ConfigureFrom(copy, 1)
         ELSE /\ pc' = "auth"
              /\ pick' = copy
              /\ attempts' = attempts
  BY DEF Prepare
<1> HIDE DEF copy
<1>5. CASE image.password = None
  <2>1. ConfigureFrom(copy, 1)
    BY <1>4, <1>5
  <2>2. Settled(copy.plugin, 1 - 1)
    BY DEF Settled
  <2>3. Ready(copy, 1)
    BY <1>2, <1>3, <2>2 DEF Ready
  <2> QED BY <1>1, <1>2, <1>4, <1>5, <2>1, <2>3, ConfigureKeeps
<1>6. CASE image.password # None
  <2>1. pc' = "auth" /\ pick' = copy /\ attempts' = attempts
    BY <1>4, <1>6
  <2>2. PickInv'
    BY <1>1, <1>2, <2>1 DEF PickInv
  <2>3. GateInv' /\ CountdownInv' /\ PasswordInv'
    BY <1>4, <2>1 DEF GateInv, CountdownInv, PasswordInv
  <2>4. TimerInv'
    BY <1>2, <1>4, <2>1 DEF TimerInv
  <2>5. ChoiceInv'
    BY <1>2, <1>3, <2>1 DEF ChoiceInv
  <2> QED BY <2>2, <2>3, <2>4, <2>5 DEF MenuInv
<1> QED BY <1>5, <1>6

\* The menu opens for the first time.
LEMMA FirstDisplay ==
  ASSUME MenuInv, EntriesInv', pc = "gate", ShowMenu(TRUE), opened',
         DefaultMenuSelection' = DefaultMenuSelection,
         attempts' = attempts, touched' = touched
  PROVE  MenuInv'
<1>1. /\ pc' = "menu" /\ selected' = DefaultMenuSelection
      /\ attempts' = 0 /\ touched' = {}
  BY DEF ShowMenu, MenuInv, GateInv
<1>2. GateInv' /\ CountdownInv'
  BY <1>1 DEF GateInv, CountdownInv
<1>3. PickInv' /\ TimerInv' /\ PasswordInv' /\ ChoiceInv'
  BY <1>1 DEF PickInv, TimerInv, PasswordInv, ChoiceInv, Preparing
<1> QED BY <1>2, <1>3 DEF MenuInv

\* The bar stays on the list: no key takes it past either end.
LEMMA BarStaysOnList ==
  ASSUME EntriesInv, NEW key \in Keys, MenuMove(key)
  PROVE  selected' \in DOMAIN images
<1>1. /\ selected \in DOMAIN images /\ DOMAIN images = 1 .. Len(images)
      /\ Len(images) \in Nat \ {0}
  BY EntriesAre DEF EntriesInv
<1>2. \/ key = "up" /\ selected > 1 /\ selected' = selected - 1
      \/ key = "down" /\ selected < Len(images) /\ selected' = selected + 1
      \/ selected' = selected
  BY DEF MenuMove
<1> QED BY <1>1, <1>2

\* So does the bar of a plugin list.
LEMMA ChoiceStaysOnList ==
  ASSUME Choosing, PluginOK(pick.plugin), NEW key \in Keys, NEW digit \in Nat,
         ChoiceMove(key, digit)
  PROVE  Choosing'
<1> DEFINE count == Len(pick.plugin[Stages[stage]].paths)
<1>1. stage \in 1 .. 2 /\ pick.plugin # None /\ pick.plugin[Stages[stage]] # None
      /\ choice \in 0 .. count
  BY DEF Choosing
<1>2. pick.plugin[Stages[stage]] \in ChoiceRule
  BY <1>1, StagesAre DEF PluginOK, Configured
<1>3. pick.plugin[Stages[stage]].paths \in Seq(Seq(STRING))
  BY <1>2 DEF ChoiceRule
<1>4. count \in Nat
  BY <1>3
<1>5. \/ choice' \in {0, count, choice}
      \/ choice # 0 /\ choice' = choice - 1
      \/ choice' = (choice + 1) % (count + 1)
      \/ digit <= count /\ choice' = digit
  BY DEF ChoiceMove
<1>6. pick' = pick /\ stage' = stage
  BY DEF ChoiceMove
<1> HIDE DEF count
<1>7. choice' \in 0 .. count
  BY <1>1, <1>4, <1>5
<1> QED BY <1>1, <1>6, <1>7 DEF Choosing, count

\* Every step of the session preserves the invariant.
LEMMA NextMenu == MenuInv /\ [Next]_vars => MenuInv'
<1> SUFFICES ASSUME MenuInv, [Next]_vars PROVE MenuInv'
  OBVIOUS
<1>1. list' = list /\ images' = images /\ DefaultMenuSelection' = DefaultMenuSelection
  BY ListKept
<1>2. EntriesInv /\ PickInv /\ GateInv /\ CountdownInv /\ TimerInv /\ PasswordInv /\ ChoiceInv
  BY DEF MenuInv
<1>3. list \in Lists /\ images = [i \in DOMAIN list |-> BuildImage(list[i])]
      /\ selected \in DOMAIN images /\ attempts \in Nat
  BY <1>2 DEF EntriesInv
<1>4. ASSUME selected' \in DOMAIN images, attempts' \in Nat PROVE EntriesInv'
  BY <1>1, <1>3, <1>4 DEF EntriesInv
<1>5. ASSUME NEW p, NEW s, ConfigureFrom(p, s) PROVE attempts' \in Nat
  BY <1>3, <1>5 DEF ConfigureFrom
<1>6. ASSUME NEW force, NEW who, Prepare(force, who) PROVE attempts' \in Nat
  BY <1>3, <1>5, <1>6 DEF Prepare
<1>7. DefaultMenuSelection \in DOMAIN images
  BY <1>2, DefaultIsEntry
<1>8. CASE GateOpen
  <2>1. pc = "gate" /\ ShowMenu(TRUE) /\ opened' /\ attempts' = attempts /\ touched' = touched
    BY <1>8 DEF GateOpen
  <2>2. EntriesInv'
    BY <1>3, <1>4, <1>7, <2>1 DEF ShowMenu
  <2> QED BY <1>1, <2>1, <2>2, FirstDisplay
<1>9. ASSUME NEW input, GatePassword(input) PROVE MenuInv'
  <2>1. pc = "gate" /\ attempts' = attempts /\ touched' = touched
    BY <1>9 DEF GatePassword
  <2>2. CASE Verify(BootPassword, input)
    <3>1. ShowMenu(TRUE) /\ opened'
      BY <1>9, <2>2 DEF GatePassword
    <3>2. EntriesInv'
      BY <1>3, <1>4, <1>7, <2>1, <3>1 DEF ShowMenu
    <3> QED BY <1>1, <2>1, <3>1, <3>2, FirstDisplay
  <2>3. CASE ~Verify(BootPassword, input)
    <3>1. pc' \in {"gate", "denied"} /\ selected' = selected
      BY <1>9, <2>3 DEF GatePassword
    <3>2. EntriesInv'
      BY <1>3, <1>4, <2>1, <3>1
    <3>3. GateInv'
      BY <1>2, <2>1, <3>1 DEF GateInv
    <3>4. PickInv' /\ CountdownInv' /\ TimerInv' /\ PasswordInv' /\ ChoiceInv'
      BY <3>1 DEF PickInv, CountdownInv, TimerInv, PasswordInv, ChoiceInv, Preparing
    <3> QED BY <3>2, <3>3, <3>4 DEF MenuInv
  <2> QED BY <2>2, <2>3
<1>10. CASE DeniedKey \/ OutputFails \/ AttemptReturns
  <2>1. /\ selected' = selected /\ attempts' = attempts /\ opened' = opened /\ first' = first
        /\ pc' = "exit" \/ (pc = "attempt" /\ pc' = "returned")
    BY <1>10 DEF DeniedKey, OutputFails, AttemptReturns, history
  <2>2. EntriesInv'
    BY <1>3, <1>4, <2>1
  <2>3. pc = "attempt" => opened /\ ~first
    BY <1>2 DEF GateInv, CountdownInv
  <2> QED BY <2>1, <2>2, <2>3, IdleScreen
<1>11. ASSUME NEW input, AuthPassword(input) PROVE MenuInv'
  <2>1. /\ pc = "auth" /\ selected' = selected /\ countdown' = countdown
        /\ opened' = opened /\ touched' = touched /\ by' = by
    BY <1>11 DEF AuthPassword
  <2>2. /\ opened /\ countdown = None /\ DOMAIN pick = PickFields /\ pick.at \in DOMAIN images
        /\ pick.password = images[pick.at].password /\ PluginOK(pick.plugin)
    BY <1>2, <2>1 DEF GateInv, CountdownInv, PickInv, ChoiceInv, Preparing
  <2>3. by = "timer" => "menu" \notin touched /\ pick.at = DefaultMenuSelection /\ attempts = 0
    BY <1>2, <2>1 DEF TimerInv, Preparing
  <2>4. CASE Verify(pick.password, input)
    <3>1. pick.password \in verified' /\ ConfigureFrom(pick, 1)
      BY <1>11, <2>4 DEF AuthPassword
    <3>2. EntriesInv'
      BY <1>3, <1>4, <1>5, <2>1, <3>1
    <3>3. Settled(pick.plugin, 1 - 1)
      BY DEF Settled
    <3>4. Ready(pick, 1)
      BY <2>2, <3>3 DEF Ready
    <3>5. /\ opened' /\ countdown' = None
          /\ by' = "timer" =>
               "menu" \notin touched' /\ pick.at = DefaultMenuSelection /\ attempts = 0
      BY <2>1, <2>2, <2>3
    <3> QED BY <1>1, <2>2, <3>1, <3>2, <3>4, <3>5, ConfigureKeeps
  <2>5. CASE ~Verify(pick.password, input)
    <3>1. pc' = "wrong" /\ pick' = pick /\ attempts' = attempts
      BY <1>11, <2>5 DEF AuthPassword, picking
    <3>2. EntriesInv'
      BY <1>3, <1>4, <2>1, <3>1
    <3>3. PickInv' /\ GateInv' /\ CountdownInv'
      BY <1>1, <2>1, <2>2, <3>1 DEF PickInv, GateInv, CountdownInv
    <3>4. TimerInv'
      BY <1>1, <2>1, <2>3, <3>1 DEF TimerInv
    <3>5. PasswordInv' /\ ChoiceInv'
      BY <3>1 DEF PasswordInv, ChoiceInv
    <3> QED BY <3>2, <3>3, <3>4, <3>5 DEF MenuInv
  <2> QED BY <2>4, <2>5
<1>12. ASSUME NEW key \in Keys, MenuKey(key) PROVE MenuInv'
  <2>1. pc = "menu" /\ opened' = opened /\ opened
    BY <1>2, <1>12 DEF MenuKey, GateInv
  <2>2. CASE key = "enter"
    <3>1. Prepare(FALSE, "user") /\ selected' = selected
      BY <1>12, <2>2 DEF MenuKey
    <3>2. EntriesInv'
      BY <1>3, <1>4, <1>6, <3>1
    <3> QED BY <1>1, <2>1, <3>1, <3>2, PrepareKeeps
  <2>3. CASE key = "m"
    <3>1. Prepare(TRUE, "user") /\ selected' = selected
      BY <1>12, <2>3 DEF MenuKey
    <3>2. EntriesInv'
      BY <1>3, <1>4, <1>6, <3>1
    <3> QED BY <1>1, <2>1, <3>1, <3>2, PrepareKeeps
  <2>4. CASE key = "escape"
    <3>1. pc' = "exit" /\ selected' = selected /\ attempts' = attempts
      BY <1>12, <2>4 DEF MenuKey
    <3>2. EntriesInv'
      BY <1>3, <1>4, <3>1
    <3> QED BY <3>1, <3>2, IdleScreen
  <2>5. CASE key \notin {"enter", "m", "escape"}
    <3>1. MenuMove(key) /\ countdown' = None
      BY <1>12, <2>5 DEF MenuKey, StopCountdown
    <3>2. pc' = "menu" /\ attempts' = attempts
      BY <2>1, <3>1 DEF MenuMove
    <3>3. selected' \in DOMAIN images
      BY <1>2, <3>1, BarStaysOnList
    <3>4. EntriesInv'
      BY <1>3, <1>4, <3>2, <3>3
    <3> QED BY <2>1, <3>1, <3>2, <3>4, IdleScreen
  <2> QED BY <2>2, <2>3, <2>4, <2>5
<1>13. CASE MenuTimeout
  <2>1. /\ pc = "menu" /\ countdown # None /\ Prepare(FALSE, "timer")
        /\ selected' = selected /\ opened' = opened /\ touched' = touched
    BY <1>13 DEF MenuTimeout
  <2>2. /\ opened /\ attempts = 0 /\ "menu" \notin touched
        /\ selected = DefaultMenuSelection
    BY <1>2, <2>1 DEF GateInv, CountdownInv
  <2>3. EntriesInv'
    BY <1>3, <1>4, <1>6, <2>1
  <2> QED BY <1>1, <2>1, <2>2, <2>3, PrepareKeeps
<1>14. CASE MenuTimerRefused
  <2>1. /\ pc' = "menu" /\ pc = "menu" /\ countdown' = None /\ selected' = selected
        /\ attempts' = attempts /\ opened' = opened
    BY <1>14 DEF MenuTimerRefused
  <2>2. EntriesInv' /\ opened
    BY <1>2, <1>3, <1>4, <2>1 DEF GateInv
  <2> QED BY <2>1, <2>2, IdleScreen
<1>15. CASE WrongKey
  <2>1. /\ pc' = "menu" /\ pc = "wrong" /\ countdown' = countdown /\ selected' = selected
        /\ attempts' = attempts /\ opened' = opened
    BY <1>15 DEF WrongKey, history
  <2>2. EntriesInv' /\ opened /\ countdown = None
    BY <1>2, <1>3, <1>4, <2>1 DEF GateInv, CountdownInv
  <2> QED BY <2>1, <2>2, IdleScreen
\* A path of a list was taken, by the user or by the list's timer.
<1>16. ASSUME pc = "choose", ConfigureFrom(Chosen(pick, stage, choice), stage + 1),
              selected' = selected, countdown' = countdown, opened' = opened,
              verified' = verified, by' = by, "menu" \in touched' => "menu" \in touched
       PROVE  MenuInv'
  <2>1. /\ opened /\ countdown = None /\ DOMAIN pick = PickFields /\ pick.at \in DOMAIN images
        /\ pick.password = images[pick.at].password /\ PluginOK(pick.plugin) /\ Choosing
        /\ pick.password # None => pick.password \in verified
    BY <1>2, <1>16 DEF GateInv, CountdownInv, PickInv, ChoiceInv, PasswordInv, Preparing
  <2>2. by = "timer" => "menu" \notin touched /\ pick.at = DefaultMenuSelection /\ attempts = 0
    BY <1>2, <1>16 DEF TimerInv, Preparing
  <2> DEFINE p == Chosen(pick, stage, choice)
  <2>3. Ready(p, stage + 1) /\ p.at = pick.at /\ p.password = pick.password
    BY <2>1, ChosenReady
  <2>4. ConfigureFrom(p, stage + 1)
    BY <1>16
  <2> HIDE DEF p
  <2>5. EntriesInv'
    BY <1>3, <1>4, <1>5, <1>16, <2>4
  <2>6. /\ p.at \in DOMAIN images /\ p.password = images[p.at].password
        /\ opened' /\ countdown' = None
        /\ p.password # None => p.password \in verified'
    BY <1>16, <2>1, <2>3
  <2>7. by' = "timer" =>
          "menu" \notin touched' /\ p.at = DefaultMenuSelection /\ attempts = 0
    BY <1>16, <2>2, <2>3
  <2> QED BY <1>1, <2>3, <2>4, <2>5, <2>6, <2>7, ConfigureKeeps
\* The list stays on the screen.
<1>17. ASSUME pc = "choose", pc' = "choose", pick' = pick, Choosing', attempts' = attempts,
              selected' = selected, countdown' = countdown, opened' = opened,
              verified' = verified, by' = by, "menu" \in touched' => "menu" \in touched
       PROVE  MenuInv'
  <2>1. EntriesInv'
    BY <1>3, <1>4, <1>17
  <2>2. PickInv' /\ GateInv' /\ CountdownInv'
    BY <1>1, <1>2, <1>17 DEF PickInv, GateInv, CountdownInv, Preparing
  <2>3. TimerInv'
    BY <1>1, <1>2, <1>17 DEF TimerInv, Preparing
  <2>4. PasswordInv' /\ ChoiceInv'
    BY <1>2, <1>17 DEF PasswordInv, ChoiceInv
  <2> QED BY <2>1, <2>2, <2>3, <2>4 DEF MenuInv
<1>18. ASSUME NEW key \in Keys, NEW digit \in Nat, ChoiceKey(key, digit) PROVE MenuInv'
  <2>1. /\ pc = "choose" /\ selected' = selected /\ countdown' = countdown
        /\ opened' = opened /\ verified' = verified /\ by' = by
        /\ touched' = touched \cup {"choose"}
    BY <1>18 DEF ChoiceKey
  <2>2. "menu" \in touched' => "menu" \in touched
    BY <2>1
  <2>3. CASE key = "enter"
    <3>1. ConfigureFrom(Chosen(pick, stage, choice), stage + 1)
      BY <1>18, <2>3 DEF ChoiceKey
    <3> QED BY <1>16, <2>1, <2>2, <3>1
  <2>4. CASE key = "escape"
    <3>1. pc' = "menu" /\ attempts' = attempts
      BY <1>18, <2>4 DEF ChoiceKey
    <3>2. EntriesInv' /\ opened /\ countdown = None
      BY <1>2, <1>3, <1>4, <2>1, <3>1 DEF GateInv, CountdownInv
    <3> QED BY <2>1, <3>1, <3>2, IdleScreen
  <2>5. CASE key \notin {"enter", "escape"}
    <3>1. ChoiceMove(key, digit)
      BY <1>18, <2>5 DEF ChoiceKey
    <3>2. Choosing /\ PluginOK(pick.plugin)
      BY <1>2, <2>1 DEF ChoiceInv
    <3>3. Choosing'
      BY <1>18, <3>1, <3>2, ChoiceStaysOnList
    <3>4. pc' = "choose" /\ pick' = pick /\ attempts' = attempts
      BY <2>1, <3>1 DEF ChoiceMove
    <3> QED BY <1>17, <2>1, <2>2, <3>3, <3>4
  <2> QED BY <2>3, <2>4, <2>5
<1>19. CASE ChoiceExpires
  BY <1>16, <1>19 DEF ChoiceExpires, history
<1>20. CASE ChoiceTimerRefused
  <2>1. Choosing /\ stage' = stage /\ choice' = choice /\ pick' = pick
    BY <1>2, <1>20 DEF ChoiceInv, ChoiceTimerRefused
  <2>2. Choosing'
    BY <2>1 DEF Choosing
  <2> QED BY <1>17, <1>20, <2>2 DEF ChoiceTimerRefused
<1>21. ASSUME NEW key, ReturnKey(key) PROVE MenuInv'
  <2>1. pc = "returned" /\ attempts' = attempts /\ opened' = opened
    BY <1>21 DEF ReturnKey, history
  <2>2. opened /\ ~first
    BY <1>2, <2>1 DEF GateInv, CountdownInv
  <2>3. \/ pc' = "exit" /\ selected' = selected
        \/ pc' = "menu" /\ countdown' = None /\ selected' = DefaultMenuSelection
    BY <1>21, <2>2 DEF ReturnKey, ShowMenu
  <2>4. EntriesInv'
    BY <1>3, <1>4, <1>7, <2>1, <2>3
  <2> QED BY <2>1, <2>2, <2>3, <2>4, IdleScreen
<1>22. CASE Left \/ UNCHANGED vars
  <2>1. UNCHANGED vars
    BY <1>22 DEF Left
  <2>2. EntriesInv' /\ PickInv' /\ GateInv'
    BY <1>2, <2>1 DEF vars, EntriesInv, PickInv, GateInv
  <2>3. CountdownInv' /\ TimerInv'
    BY <1>1, <1>2, <2>1 DEF vars, CountdownInv, TimerInv
  <2>4. PasswordInv' /\ ChoiceInv'
    BY <1>2, <2>1 DEF vars, PasswordInv, ChoiceInv, Choosing
  <2> QED BY <2>2, <2>3, <2>4 DEF MenuInv
<1>23. {0, 2, 9} \subseteq Nat
  OBVIOUS
<1> QED BY <1>8, <1>9, <1>10, <1>11, <1>12, <1>13, <1>14, <1>15, <1>18, <1>19, <1>20,
           <1>21, <1>22, <1>23 DEF Next

---------------------------------------------------------------------------
(***************************************************************************)
(* What the invariant gives.                                               *)
(***************************************************************************)
\* On every screen the image being prepared, who selected it, its password and
\* its choices are what the session needs them to be.
THEOREM SessionKeepsTrack == Spec => []MenuInv
  BY InitMenu, NextMenu, PTL DEF Spec

\* The countdown starts an image only when nobody touched the menu, only as the
\* first attempt of the session, and only the default image, for every list.
THEOREM UserKeepsControl == Spec => []UserStaysInControl
<1>1. MenuInv => UserStaysInControl
  BY DEF MenuInv, TimerInv, UserStaysInControl, Preparing
<1> QED BY <1>1, SessionKeepsTrack, PTL

\* An image leaves the menu with a script and a backend that exist, or with none,
\* whatever the document configured and whatever keys were pressed.
THEOREM ChoicesExist == Spec => []ChosenExists
<1>1. MenuInv => ChosenExists
  BY StagesAre DEF MenuInv, ChoiceInv, Settled, ChosenExists
<1> QED BY <1>1, SessionKeepsTrack, PTL

\* Whichever way an entry leaves the menu, its password was entered for this very
\* selection and the boot password before the first menu.
THEOREM EntriesAuthorized == Spec => []EntryAuthorized
<1>1. MenuInv => EntryAuthorized
  BY DEF MenuInv, PickInv, GateInv, PasswordInv, EntryAuthorized, Preparing
<1> QED BY <1>1, SessionKeepsTrack, PTL

\* The password an image is protected by never changes during a session.
LEMMA DemandKept ==
  MenuInv /\ ParsedAsDemanded /\ [Next]_vars => ParsedAsDemanded'
<1> SUFFICES ASSUME ParsedAsDemanded, [Next]_vars PROVE ParsedAsDemanded'
  OBVIOUS
<1>1. list' = list /\ images' = images
  BY ListKept
<1> QED BY <1>1 DEF ParsedAsDemanded

\* With a parser that finds the password a document demands, no image leaves the
\* menu without it: the session adds no way around the configuration.
THEOREM DemandedIsEntered == Spec /\ ParsedAsDemanded => []AuthorizedBoot
<1>1. MenuInv /\ ParsedAsDemanded => AuthorizedBoot
  <2> SUFFICES ASSUME MenuInv, ParsedAsDemanded, pc = "attempt"
               PROVE  /\ opened
                      /\ DemandedPassword(list[pick.at]) # None =>
                           DemandedPassword(list[pick.at]) \in verified
    BY DEF AuthorizedBoot
  <2>1. /\ opened /\ pick.at \in DOMAIN images /\ pick.password = images[pick.at].password
        /\ pick.password # None => pick.password \in verified
    BY DEF MenuInv, PickInv, GateInv, PasswordInv, Preparing
  <2>2. DOMAIN images = DOMAIN list
    BY EntriesAre DEF MenuInv
  <2>3. images[pick.at].password = DemandedPassword(list[pick.at])
    BY <2>1, <2>2 DEF ParsedAsDemanded
  <2> QED BY <2>1, <2>3
<1> QED BY <1>1, SessionKeepsTrack, DemandKept, PTL DEF Spec
=============================================================================
