---------------------------- MODULE VentoyConfig ----------------------------
(***************************************************************************)
(* ventoy.json as the boot menu uses it: passwords, default image, menu     *)
(* countdown and the plugin rules of an image.                              *)
(*                                                                          *)
(* A document is a sequence of sections in the order of the file; a section *)
(* has a key and either a list of objects or one list of strings.  An       *)
(* object is a sequence of fields.  Values are strings (as a path, a number *)
(* or a password), numbers, lists, or something else.  A path is a sequence *)
(* of characters.                                                           *)
(***************************************************************************)
EXTENDS Integers, Sequences, SequencesExt

CONSTANTS None,               \* an absent option
          Fold(_),            \* a character with ASCII letters in lower case
          Platform,           \* the suffix of this build's platform: "uefi" or "aa64"
          MaxConfReplace,     \* VENTOY_MAX_CONF_REPLACE
          MaxInt              \* the largest i32

Text(path) == [is |-> "str", path |-> path, num |-> None, pwd |-> None]
Digits(n) == [is |-> "str", path |-> <<>>, num |-> n, pwd |-> None]
Secret(form, s) == [is |-> "str", path |-> <<>>, num |-> None, pwd |-> [form |-> form, secret |-> s]]
Num(n) == [is |-> "num", num |-> n]
List(items) == [is |-> "list", items |-> items]
Other == [is |-> "other"]

IsString(v) == v.is = "str"

(***************************************************************************)
(* Paths and patterns.                                                      *)
(***************************************************************************)
Slashes == {"/", "\\"}

IsAbsoluteConfigPath(p) == p # <<>> /\ Head(p) \in Slashes

NormalizeConfigPath(p) ==
  LET rooted == IF p = <<>> \/ IsAbsoluteConfigPath(p) THEN p ELSE <<"/">> \o p
  IN [i \in DOMAIN rooted |-> IF rooted[i] = "\\" THEN "/" ELSE rooted[i]]

CleanPluginPath(p) == IF IsAbsoluteConfigPath(p) THEN NormalizeConfigPath(p) ELSE None

CleanPluginPaths(vs) ==
  LET kept == SelectSeq(vs, LAMBDA v : IsAbsoluteConfigPath(v.path))
  IN [i \in DOMAIN kept |-> NormalizeConfigPath(kept[i].path)]

(* A default image may be written with the hot key of its menu in front.    *)
CleanDefaultImagePath(p) ==
  CleanPluginPath(IF p # <<>> /\ Head(p) = "F2>" THEN Tail(p) ELSE p)

(* The loop of glob_bytes_match: on a mismatch the last star takes one more *)
(* character, a separator only when crosses.                                *)
GlobBytesMatch(pattern, path, crosses) ==
  LET step[p \in 1..(Len(pattern) + 1), s \in 1..(Len(path) + 1),
           star \in 0..Len(pattern), mark \in 1..(Len(path) + 1)] ==
        IF s > Len(path) THEN \A i \in p..Len(pattern) : pattern[i] = "*"
        ELSE IF p <= Len(pattern) /\ pattern[p] = "*" THEN step[p + 1, s, p, s]
        ELSE IF p <= Len(pattern) /\ Fold(pattern[p]) = Fold(path[s])
          THEN step[p + 1, s + 1, star, mark]
        ELSE IF star = 0 \/ (~crosses /\ path[mark] = "/") THEN FALSE
        ELSE step[star + 1, mark + 1, star, mark + 1]
  IN step[1, 1, 0, 1]

PathPatternEq(pattern, path) ==
  GlobBytesMatch(NormalizeConfigPath(pattern), NormalizeConfigPath(path), TRUE)

(* None for the root itself.                                                *)
ParentDir(path) ==
  LET slashes == {i \in DOMAIN path : path[i] = "/"}
      last == CHOOSE i \in slashes : \A j \in slashes : j <= i
  IN IF slashes = {} \/ path = <<"/">> THEN None
     ELSE IF last = 1 THEN <<"/">> ELSE SubSeq(path, 1, last - 1)

PathParentMatches(parent, path) ==
  LET dir == ParentDir(NormalizeConfigPath(path))
  IN IF dir = None THEN FALSE
     ELSE IF parent = <<"/">> THEN dir = <<"/">>
     ELSE GlobBytesMatch(NormalizeConfigPath(parent), dir, FALSE)

TargetMatchesImage(target, path) ==
  IF target.kind = "image" THEN PathPatternEq(target.path, path)
                           ELSE PathParentMatches(target.path, path)

(* Rules for an image go before rules for its directory.                    *)
FindMatchingRule(rules, path) ==
  LET Hits(kind) == SelectSeq(rules, LAMBDA r : /\ r.target.kind = kind
                                                /\ TargetMatchesImage(r.target, path))
      all == Hits("image") \o Hits("parent")
  IN IF all = <<>> THEN None ELSE Head(all).value

(***************************************************************************)
(* Objects of a section.  A parser reads field after field; what a field    *)
(* of the wrong kind does differs from field to field.                      *)
(***************************************************************************)
ParsePassword(v) ==
  IF IsString(v) /\ v.pwd # None /\ v.pwd.form \in {"txt", "md5", "salted"} THEN v.pwd ELSE None

Verify(password, input) == password.secret = input

ParseTarget(v) == IF IsString(v) THEN CleanPluginPath(v.path) ELSE None

ParsePathListValue(v) ==
  CASE v.is = "str" -> <<v>> [] v.is = "list" -> v.items [] OTHER -> <<>>

ParseOptionalUnsigned(v) == IF v.is = "num" /\ v.num >= 0 THEN v.num ELSE None

(* A usable image path replaces any target, a parent only an absent one.    *)
ImageOrParent(imageKey, r, f) ==
  LET path == ParseTarget(f.val)
  IN CASE f.key = imageKey /\ path # None -> [r EXCEPT !.target = [kind |-> "image", path |-> path]]
       [] f.key = "parent" /\ r.target = None /\ path # None
            -> [r EXCEPT !.target = [kind |-> "parent", path |-> path]]
       [] OTHER -> r

(* The last image path counts, even when it is unusable.                    *)
LastImage(imageKey, r, f) ==
  LET path == ParseTarget(f.val)
  IN IF f.key # imageKey THEN r
     ELSE [r EXCEPT !.target = IF path = None THEN None ELSE [kind |-> "image", path |-> path]]

Rule(value) == [target |-> None, value |-> value]
NoChoice == [paths |-> <<>>, autosel |-> None, timeout |-> None]

ChoiceField(pathKey, r, f) ==
  CASE f.key = pathKey -> [r EXCEPT !.value.paths = CleanPluginPaths(ParsePathListValue(f.val))]
    [] f.key = "autosel" -> [r EXCEPT !.value.autosel = ParseOptionalUnsigned(f.val)]
    [] f.key = "timeout" -> [r EXCEPT !.value.timeout = ParseOptionalUnsigned(f.val)]
    [] OTHER -> r

ParseAutoInstall(fields) ==
  FoldLeft(LAMBDA r, f : ChoiceField("template", ImageOrParent("image", r, f), f),
           Rule(NoChoice), fields)

ParsePersistence(fields) ==
  FoldLeft(LAMBDA r, f : ChoiceField("backend", LastImage("image", r, f), f),
           Rule(NoChoice), fields)

ParseInjection(fields) ==
  FoldLeft(LAMBDA r, f : IF f.key = "archive" THEN [r EXCEPT !.value = CleanPluginPath(f.val.path)]
                         ELSE ImageOrParent("image", r, f), Rule(None), fields)

ParseDud(fields) ==
  FoldLeft(LAMBDA r, f : IF f.key = "dud"
                         THEN [r EXCEPT !.value = CleanPluginPaths(ParsePathListValue(f.val))]
                         ELSE LastImage("image", r, f), Rule(<<>>), fields)

ParseConfReplace(fields) ==
  FoldLeft(LAMBDA r, f :
             CASE f.key \in {"org", "new"} ->
                    [r EXCEPT !.value = [@ EXCEPT ![f.key] = CleanPluginPath(f.val.path)]]
               [] OTHER -> LastImage("iso", r, f),
           Rule([org |-> None, new |-> None]), fields)

ParsePasswordRule(fields) ==
  FoldLeft(LAMBDA r, f : IF f.key = "pwd" THEN [r EXCEPT !.value = ParsePassword(f.val)]
                         ELSE ImageOrParent("file", r, f), Rule(None), fields)

(* The rules an array of objects yields: incomplete ones are dropped.       *)
RulesOf(Parse(_), Complete(_), objects) ==
  LET parsed == [i \in DOMAIN objects |-> Parse(objects[i])]
  IN SelectSeq(parsed, LAMBDA r : r.target # None /\ Complete(r.value))

ImageTypes == {"iso", "wim", "efi", "img", "vhd", "vtoy"}
NoPassword == [boot |-> None, type |-> [t \in ImageTypes |-> None], menu |-> <<>>]

(* A section of passwords replaces all passwords read so far.               *)
ParsePasswordSection(fields) ==
  FoldLeft(LAMBDA p, f :
             CASE f.key = "boot" -> [p EXCEPT !.boot = ParsePassword(f.val)]
               [] f.key \in ImageTypes -> [p EXCEPT !.type[f.key] = ParsePassword(f.val)]
               [] f.key = "menupwd" ->
                    [p EXCEPT !.menu = RulesOf(ParsePasswordRule, LAMBDA v : v # None, f.val.items)]
               [] OTHER -> p,
           NoPassword, fields)

(* Non-string values of control are skipped; a string that is no number     *)
(* clears the option.                                                       *)
ParseControl(config, fields) ==
  FoldLeft(LAMBDA c, f :
             CASE ~IsString(f.val) -> c
               [] IsString(f.val) /\ f.key = "VTOY_MENU_TIMEOUT" -> [c EXCEPT !.timeout = f.val.num]
               [] IsString(f.val) /\ f.key = "VTOY_DEFAULT_IMAGE" ->
                    [c EXCEPT !.default = CleanDefaultImagePath(f.val.path)]
               [] OTHER -> c,
           config, fields)

(***************************************************************************)
(* The document.                                                            *)
(***************************************************************************)
NoConfig ==
  [timeout |-> None, default |-> None, password |-> NoPassword, autoInstall |-> <<>>,
   persistence |-> <<>>, injection |-> <<>>, dud |-> <<>>, confReplace |-> <<>>,
   autoMemdisk |-> <<>>]

(* What makes the parser give up: numbers past i32, lists with anything but *)
(* strings, and three fields whose other values are not skipped.            *)
FieldParses(section, f) ==
  /\ f.val.is = "num" /\ f.key \in {"autosel", "timeout"} => f.val.num <= MaxInt
  /\ f.val.is = "list" /\ f.key \in {"template", "backend", "dud"} =>
       \A i \in DOMAIN f.val.items : IsString(f.val.items[i])
  /\ section = "injection" /\ f.key = "archive" => IsString(f.val)
  /\ section = "conf_replace" /\ f.key \in {"org", "new"} => IsString(f.val)

ParsesPlatformPassword(key) == key \in {"password_uefi", "password_aa64"}

\* Mutant: the general key overrides that of the platform.
AcceptsAnyPassword(key, platform) == ParsesPlatformPassword(key) \/ key = "password"

AcceptsPassword(key, platform) ==
  ParsesPlatformPassword(key) \/ (key = "password" /\ "password" \notin platform)

AcceptsMemdisk(key, platform) ==
  \/ key = "auto_memdisk_" \o Platform
  \/ key = "auto_memdisk" /\ "auto_memdisk" \notin platform

SectionParses(s, platform) ==
  CASE s.key \in {"auto_install", "persistence", "injection", "dud", "conf_replace"} ->
         \A o \in DOMAIN s.val : \A i \in DOMAIN s.val[o] : FieldParses(s.key, s.val[o][i])
    [] AcceptsPassword(s.key, platform) ->
         \A i \in DOMAIN s.val : s.val[i].key = "menupwd" => s.val[i].val.is = "list"
    [] AcceptsMemdisk(s.key, platform) -> \A i \in DOMAIN s.val : IsString(s.val[i])
    [] OTHER -> TRUE

HasPaths(v) == v.paths # <<>>

ParseSection(c, s) ==
  IF ~c.ok \/ ~SectionParses(s, c.platform) THEN [c EXCEPT !.ok = FALSE]
  ELSE
  CASE s.key = "control" ->
         [c EXCEPT !.config = FoldLeft(LAMBDA a, o : ParseControl(a, o), @, s.val)]
    [] AcceptsPassword(s.key, c.platform) ->
         [c EXCEPT !.config.password = ParsePasswordSection(s.val),
                   !.platform = IF s.key = "password" THEN @ ELSE @ \cup {"password"}]
    [] s.key = "auto_install" ->
         [c EXCEPT !.config.autoInstall = @ \o RulesOf(ParseAutoInstall, HasPaths, s.val)]
    [] s.key = "persistence" ->
         [c EXCEPT !.config.persistence = @ \o RulesOf(ParsePersistence, HasPaths, s.val)]
    [] s.key = "injection" ->
         [c EXCEPT !.config.injection = @ \o RulesOf(ParseInjection, LAMBDA v : v # None, s.val)]
    [] s.key = "dud" ->
         [c EXCEPT !.config.dud = @ \o RulesOf(ParseDud, LAMBDA v : v # <<>>, s.val)]
    [] s.key = "conf_replace" ->
         [c EXCEPT !.config.confReplace =
            @ \o RulesOf(ParseConfReplace, LAMBDA v : v.org # None /\ v.new # None, s.val)]
    [] AcceptsMemdisk(s.key, c.platform) ->
         [c EXCEPT !.config.autoMemdisk = @ \o CleanPluginPaths(s.val),
                   !.platform = IF s.key = "auto_memdisk" THEN @ ELSE @ \cup {"auto_memdisk"}]
    [] OTHER -> c

(* The sections in the order of the file; ok says that all of them parsed.  *)
ParseDocument(doc) ==
  FoldLeft(ParseSection, [config |-> NoConfig, platform |-> {}, ok |-> doc.text], doc.sections)

(* VentoyConfig::parse; a document that does not parse leaves the defaults. *)
ParseConfig(doc) == IF ParseDocument(doc).ok THEN ParseDocument(doc).config ELSE NoConfig

(***************************************************************************)
(* What a configuration says of an image.                                   *)
(***************************************************************************)
DefaultImageMatches(config, path) ==
  config.default # None /\ PathPatternEq(config.default, path)

PasswordForImageType(config, type) ==
  IF type \in ImageTypes THEN config.password.type[type] ELSE None

ImagePasswordFor(config, path, type) ==
  LET ruled == FindMatchingRule(config.password.menu, path)
  IN IF ruled # None THEN ruled ELSE PasswordForImageType(config, type)

NoPlugin == [autoInstall |-> None, persistence |-> None, injection |-> None, dud |-> None,
             confReplace |-> <<>>, memdisk |-> FALSE]

ImagePluginFor(config, path) ==
  LET replaced == SelectSeq(config.confReplace, LAMBDA r : TargetMatchesImage(r.target, path))
      plugin == [autoInstall |-> FindMatchingRule(config.autoInstall, path),
                 persistence |-> FindMatchingRule(config.persistence, path),
                 injection |-> FindMatchingRule(config.injection, path),
                 dud |-> FindMatchingRule(config.dud, path),
                 confReplace |-> SubSeq(replaced, 1, IF Len(replaced) > MaxConfReplace
                                                     THEN MaxConfReplace ELSE Len(replaced)),
                 memdisk |-> \E i \in DOMAIN config.autoMemdisk :
                               PathPatternEq(config.autoMemdisk[i], path)]
  IN IF plugin = NoPlugin THEN None ELSE plugin
=============================================================================
