---------------------------- MODULE MCImportRows ----------------------------
(* Instances of ImportRows for TLC: a sheet of users whose rows share every   *)
(* kind of key in every way, and a sheet of groups.                           *)
EXTENDS ImportRows

CONSTANT NoValue

MCColumns == {"Guid", "Sid", "Employee", "Mail", "Login", "Name", "Groups", "Boss",
              "Members", "Source", "DN"}
MCAlias(c) == CASE c = "Guid" -> "objectGUID" [] c = "Sid" -> "sid" [] c = "Employee" -> "employeeId"
                [] c = "Mail" -> "email" [] c = "Login" -> "username" [] c = "Name" -> "displayName"
                [] c = "Groups" -> "memberOf" [] c = "Boss" -> "manager"
                [] c = "DN" -> "distinguishedName" [] c = "Members" -> "members" [] c = "Source" -> "sourceSystem" [] OTHER -> NoValue

\* Spellings that differ in case only, an email that is also a login, lists of references.
MCLower(v) == CASE v = "E1" -> "e1" [] v = "Ann" -> "ann" [] v = "ANN@X" -> "ann@x" [] OTHER -> v
MCUpper(v) == CASE v = "ldap" -> "LDAP" [] v = "Active-Directory" -> "ACTIVE-DIRECTORY" [] OTHER -> v
MCUnderscored(v) == IF v = "ACTIVE-DIRECTORY" THEN "ACTIVE_DIRECTORY" ELSE v
MCUserPart(v) == CASE v = "corp\\ann" -> "ann" [] v \in {"ann@x", "ANN@X"} -> "ann" [] v = "@x" -> NoValue [] OTHER -> MCLower(v)
MCShortened(v) == IF v = "a long name" THEN "a long..." ELSE v
MCSpaced(v) == IF v = "cn=ann, ou=x" THEN "cn=ann,ou=x" ELSE v
MCTexts == {NoValue, "cn=ann, ou=x", "cn=ann,ou=x", "a long name", "a long...", "g1", "g2", "s1", "s2", "e1", "E1", "ann@x", "ANN@X", "bob@x", "corp\\ann", "bob", "@x",
            "ldap", "LDAP", "Active-Directory", "ACTIVE-DIRECTORY", "ACTIVE_DIRECTORY",
            "Ann", "ann", "staff", "admins", "staff;admins", "Ann;bob", "nobody", "none"}
MCParts(v) == CASE v = NoValue -> {} [] v = "staff;admins" -> {"staff", "admins"} [] v = "Ann;bob" -> {"Ann", "bob"}
                 [] OTHER -> {v}
MCConforms(f, v) == v \notin {"g1", "s2"}

Row(cells) == cells @@ Empty

Users == {
    Row("Guid" :> "g1" @@ "Sid" :> "s1" @@ "Name" :> "Ann"),
    Row("Guid" :> "g1" @@ "Employee" :> "e1" @@ "Name" :> "Ann" @@ "Groups" :> "staff"),
    Row("Guid" :> "g2" @@ "Employee" :> "e1" @@ "Mail" :> "ann@x" @@ "DN" :> "cn=ann,ou=x"),
    Row("Sid" :> "s1" @@ "Mail" :> "ANN@X" @@ "Groups" :> "staff;admins" @@ "Source" :> "ldap"),
    Row("Sid" :> "s2" @@ "Employee" :> "E1" @@ "Login" :> "corp\\ann"),
    Row("Employee" :> "e1" @@ "Mail" :> "bob@x" @@ "Boss" :> "Ann"),
    Row("Mail" :> "bob@x" @@ "Login" :> "bob" @@ "Boss" :> "e1"),
    Row("Login" :> "ann@x" @@ "Name" :> "Ann" @@ "Boss" :> "bob"),
    Row("Name" :> "staff" @@ "Login" :> "@x" @@ "Boss" :> "nobody" @@ "DN" :> "cn=ann, ou=x")}

File(type, format, rows) ==
    [type |-> type, format |-> format, place |-> 1, lines |-> [i \in DOMAIN rows |-> Line("row", rows[i])]]
Groups == File("Groups", "excel",
    <<Row("Name" :> "staff" @@ "Groups" :> "admins" @@ "Members" :> "Ann;bob"),
      Row("Name" :> "admins" @@ "Source" :> "Active-Directory")>>)
Others == File("Unknown", "csv", <<Row("Mail" :> "bob@x" @@ "Groups" :> "staff"), Row("Name" :> "none")>>)

\* Files around the limit of rows, with rows that are empty, blank or malformed.
Ann == Line("row", Row("Name" :> "Ann"))
Wide == Line("row", Row("Name" :> "a long name" @@ "Source" :> "ldap"))
Lines == UNION {[1..n -> {Ann, Line("row", Empty), Line("blank", Empty)}] : n \in 0..5}
         \cup UNION {[1..n -> {Ann, Wide, Line("row", Row("Source" :> "ldap"))}] : n \in 1..3}
JsonLines == UNION {[1..n -> {Ann, Line("malformed", Empty)}] : n \in 0..5}
MCFormats == {"csv", "csv in chunks", "excel"}

MCImports ==
    {<<File("Users", "csv", rows)>> : rows \in [1..3 -> Users]}
    \cup {<<File("Users", "csv", rows), Groups>> : rows \in [1..2 -> Users]}
    \cup {<<File("Users", "excel", rows), Others, Groups>> : rows \in [1..1 -> Users]}
    \cup {<<[type |-> "Users", format |-> f, place |-> 1, lines |-> lines]>> : f \in MCFormats, lines \in Lines}
    \cup {<<Groups, [Groups EXCEPT !.place = 2]>>}
    \cup {<<[type |-> "Users", format |-> "json", place |-> 1, lines |-> lines]>> : lines \in JsonLines}

WorkbookImports ==
    {<<[type |-> "Users", format |-> "excel in chunks", place |-> 1, lines |-> lines]>> : lines \in Lines}

Change(c, f, ignored) == c :> Target(f, ignored)
MCOverrides == {Change("Guid", "objectGUID", TRUE), Change("Login", "email", FALSE),
                Change("Employee", "id", FALSE), Change("Sid", "objectGUID", FALSE)}
=============================================================================
