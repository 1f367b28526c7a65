----------------------------- MODULE MCEndpoints -----------------------------
(* TLC instances of Endpoints.                                               *)
EXTENDS Endpoints, TLC

CONSTANTS a, b, f

TwoServers == {a, b}
OneSource  == {f}
TwoValues  == {"x", "y"}

Blank == [rds |-> None, mySQL |-> None, postgres |-> None, volumes |-> {}, dbHost |-> None,
          port |-> 5433, user |-> "x", userFrom |-> None, password |-> None, passwordFrom |-> f]
Image(name, port, tag) == [name |-> name, port |-> port, tag |-> tag]
Pod(image, version, data, conf) ==
    [image |-> image, version |-> version, dataVolume |-> data, configVolume |-> conf]

\* Pods with the password in a source or in the spec, with volumes, and with
\* what Kubernetes refuses; an external database; an engine that is none.
Postgres == [Blank EXCEPT !.postgres = Pod(Image(None, None, None), None, None, None)]
MySQL == [Blank EXCEPT !.mySQL = Pod(Image("custom", 5000, None), "v", "data", "conf"),
                       !.volumes = {"data", "conf"}, !.port = 3306, !.password = "y",
                       !.passwordFrom = None]
Unported  == [Postgres EXCEPT !.port = 0]
Unmounted == [MySQL EXCEPT !.volumes = {"data"}]
External  == [Blank EXCEPT !.rds = "postgres", !.dbHost = "elsewhere"]
Engine    == [External EXCEPT !.rds = "other"]
AllSpecs  == {Postgres, MySQL, Unported, Unmounted, External, Engine}

\* A user labels the server a with the name of b.
Mine == [k \in {"app", "databaseserver"} |-> IF k = "app" THEN "users" ELSE b]
TwoLabels == {None, Mine}
=============================================================================
