------------------------------- MODULE MCMenu -------------------------------
(* Lists of up to two images whose volumes carry documents of every shape:  *)
(* platform and plain sections in both orders, rules by image and by        *)
(* directory, unusable paths and passwords, choices out of range.           *)
EXTENDS Menu

MCFold(c) == CASE c = "A" -> "a" [] OTHER -> c

Field(key, val) == [key |-> key, val |-> val]
Section(key, val) == [key |-> key, val |-> val]
Doc(sections) == [text |-> TRUE, sections |-> sections]

A == <<"/", "A">>
B == <<"/", "d", "/", "b">>
Star == <<"/", "*">>
Below == <<"\\", "d", "\\", "*">>
Dir == <<"/", "d">>

Pwd(s) == Field("pwd", Secret("txt", s))
FileRule(p, s) == <<Field("file", Text(p)), Pwd(s)>>
ParentRule(p, s) == <<Field("parent", Text(p)), Pwd(s)>>
Passwords(key, rules) == Section(key, <<Field("menupwd", List(rules))>>)

Control(timeout, default) ==
  Section("control", <<<<Field("VTOY_MENU_TIMEOUT", timeout), Field("VTOY_DEFAULT_IMAGE", default)>>>>)

PasswordDocs ==
  {Doc(s) : s \in
     {<<>>,
      <<Passwords("password", <<FileRule(Star, "q")>>)>>,
      <<Passwords("password_uefi", <<FileRule(A, "p")>>), Passwords("password", <<>>)>>,
      <<Passwords("password", <<>>), Passwords("password_aa64", <<ParentRule(Dir, "q"), FileRule(B, "p")>>)>>,
      <<Section("password", <<Field("boot", Secret("md5", "p")), Field("iso", Secret("salted", "q")),
                              Field("menupwd", List(<<ParentRule(<<"/">>, "p")>>))>>)>>,
      <<Section("password", <<Field("iso", Secret("long", "q")),
                              Field("menupwd", List(<<FileRule(<<"A">>, "p"),
                                 <<Field("parent", Text(<<"/", "*">>)), Field("file", Text(<<"b">>)), Pwd("q")>>>>))>>)>>,
      <<Passwords("password", <<FileRule(A, "p")>>),
        Section("injection", <<<<Field("image", Text(A)), Field("archive", Num(1))>>>>)>>}}
  \cup {[text |-> FALSE, sections |-> <<>>]}

Asks(paths, autosel, timeout) ==
  <<Field("template", paths), Field("backend", paths), Field("autosel", autosel), Field("timeout", timeout)>>

Two == List(<<Text(<<"/", "x">>), Text(<<"y">>), Text(<<"/", "z">>)>>)

ChoiceDocs ==
  {Doc(<<Control(t, d),
         Section("auto_install", <<<<Field("parent", Text(<<"/">>)), Field("image", Text(A))>> \o c>>),
         Section("persistence", <<<<Field("image", Text(Star))>> \o e>>),
         Section("auto_memdisk", <<Text(Below)>>)>>) :
     t \in {Digits(0), Digits(5), Digits(None), Other}, d \in {Text(A), Text(<<"F2>">> \o Below), Text(<<"b">>)},
     c \in {Asks(Two, Num(2), Num(5)), Asks(Two, Num(6), Num(0)), Asks(Two, Num(0), Other), Asks(Two, Num(7), Other)},
     e \in {Asks(Text(<<"/", "x">>), Num(1), Num(3)), Asks(Text(<<"/", "x">>), Num(6), Text(<<>>)),
            Asks(Two, Num(-1), Num(3)), Asks(Other, Num(1), Num(3))}}

OtherDocs ==
  {Doc(<<Control(Digits(5), Text(B)),
         Section("dud", <<<<Field("image", Text(Below)), Field("dud", Text(A))>>>>),
         Section("injection", <<<<Field("parent", Text(Dir)), Field("archive", Text(A))>>>>),
         Section("conf_replace", <<r, r, r>>), Section("auto_memdisk_uefi", <<Text(<<"b">>)>>),
         Section("auto_memdisk", <<Text(A)>>), Section("theme", <<>>)>>) :
     r \in {<<Field("iso", Text(B)), Field("org", Text(A)), Field("new", Text(A))>>,
            <<Field("iso", Text(A)), Field("iso", Num(1)), Field("org", Text(A)), Field("new", Text(A))>>}}

File(doc, path, type) == [doc |-> doc, path |-> path, type |-> type]

MCLists ==
  {<<File(d, A, "iso"), File(d, B, t)>> : d \in PasswordDocs, t \in {"iso", "vhd"}}
  \cup {<<File(d, A, "iso"), File(e, B, "iso")>> : d, e \in PasswordDocs}
  \cup {<<File(d, A, "iso"), File(d, B, "iso")>> : d \in ChoiceDocs \cup OtherDocs}
=============================================================================
