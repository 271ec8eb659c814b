------------------------------ MODULE MC_DataLoad ------------------------------
(* The calls and circumstances that TLC explores. *)
EXTENDS DataLoad

Plain == [names |-> <<"local">>, iter |-> FALSE, map |-> "none", flat |-> FALSE, where |-> FALSE,
          lazy |-> FALSE, confirm |-> FALSE, regex |-> FALSE, columns |-> FALSE]

Sql == [Plain EXCEPT !.names = <<"sql">>]

Streams == [names : {<<"sql">>, <<"sql", "sql">>}, iter : {TRUE}, map : {"none", "row", "batch"},
            flat : BOOLEAN, where : {FALSE}, lazy : BOOLEAN, confirm : {FALSE}, regex : {FALSE},
            columns : {FALSE}]

Buckets == [names : {<<"platform">>, <<"platform", "local">>}, iter : {FALSE}, map : {"none"},
            flat : {FALSE}, where : {FALSE}, lazy : {FALSE}, confirm : BOOLEAN, regex : BOOLEAN,
            columns : BOOLEAN]

Others == {Plain, Sql, [Plain EXCEPT !.where = TRUE], [Sql EXCEPT !.lazy = TRUE, !.where = TRUE],
           [Plain EXCEPT !.names = <<"sql", "local">>, !.iter = TRUE],
           [Plain EXCEPT !.names = <<"platform", "sql">>, !.lazy = TRUE],
           [Plain EXCEPT !.names = <<"store", "local">>]}

Calls == Streams \cup Buckets \cup Others

\* A laptop without a key, two machines whose layers leave different limits, one of
\* them below load_warn_bytes, and a URI without a table.
Layers(home, env, explicit) == [home |-> home, env |-> env, explicit |-> explicit]
Uri(fields, segments) == [fields |-> fields, segments |-> segments]

Machines == {[key |-> FALSE, warn |-> 1, layers |-> Layers(Unreadable, Absent, Absent),
              uri |-> Uri({"host", "user"}, 2), local |-> {"driver"}],
             [key |-> FALSE, warn |-> 1, layers |-> Layers(Absent, Absent, Absent),
              uri |-> Uri({"user"}, 0), local |-> {}],
             [key |-> TRUE, warn |-> 1, layers |-> Layers(1, 3, Absent),
              uri |-> Uri({"host", "user"}, 1), local |-> {"secret"}],
             [key |-> TRUE, warn |-> 3, layers |-> Layers(Malformed, Malformed, 2),
              uri |-> Uri({}, 3), local |-> {}]}
===============================================================================
