--------------------------- MODULE MCDatabaseSync ----------------------------
(* TLC instances of DatabaseSync.                                            *)
EXTENDS DatabaseSync, TLC

CONSTANTS d1, d2, u1, u2, f1

OneDatabase  == {d1}
TwoDatabases == {d1, d2}
TwoAccounts  == {u1, u2}
OneSource    == {f1}
NoSource     == {}
TwoPasswords == {"p", "q"}

Of(name, role, password, from) ==
    [name |-> name, role |-> role, password |-> password, from |-> from]
OnServer(users) ==
    [server |-> TRUE, dsn |-> "none", type |-> "", listed |-> TRUE, users |-> users]

\* An admin whose password is in a secret, alone and after a second user; an
\* empty list of users, and none (the one that deploy/crd.yaml lets through, and
\* the one that README.md:185-186 tells of); no admin; a DSN instead of a server,
\* and one without a port; another type than the server's; neither server nor DSN.
Kept  == OnServer(<<Of(u1, "admin", "", f1)>>)
Both  == OnServer(<<Of(u2, "read", "q", NoObj), Of(u1, "admin", "", f1)>>)
Empty == OnServer(<<>>)
Bare  == [Empty EXCEPT !.listed = FALSE]
Reads == OnServer(<<Of(u1, "read", "p", NoObj)>>)
Given == [OnServer(<<Of(u1, "admin", "p", NoObj)>>)
             EXCEPT !.server = FALSE, !.dsn = "whole", !.type = "postgres"]
NoPort == [Given EXCEPT !.dsn = "bare"]
MySql == [OnServer(<<Of(u1, "admin", "p", NoObj)>>) EXCEPT !.type = "mysql"]
Lost  == [Given EXCEPT !.dsn = "none"]
AllSpecs   == {Kept, Both, Empty, Bare, Reads, Given, NoPort, MySql, Lost}
GivenSpecs == {Given}

\* Two Databases that share an account and disagree on its password.
TwoUsers    == OnServer(<<Of(u2, "read", "q", NoObj), Of(u1, "admin", "p", NoObj)>>)
OneUser     == OnServer(<<Of(u1, "admin", "q", NoObj)>>)
SharedSpecs == {TwoUsers, OneUser}
Symmetry    == Permutations(Databases)
=============================================================================
