------------------------------ MODULE DataSources ------------------------------
(***************************************************************************)
(* What a load decides without changing any state: the limit that the      *)
(* configuration layers leave, whether a SQL URI names a table, the        *)
(* credentials that a SQL source ends up with, which objects a request's   *)
(* filters keep, and which files of a directory the local loader reads.    *)
(***************************************************************************)
EXTENDS Integers, Sequences, FiniteSets, SequencesExt

CONSTANTS Objects,     \* the objects of a bucket, one byte each
          Nested,      \* those under a prefix of their own
          Kept,        \* those whose name matches the regex of a request
          DefaultMax   \* DEFAULT_LOAD_MAX_BYTES

ASSUME SourcesAssumption == Nested \subseteq Objects /\ Kept \subseteq Objects /\ DefaultMax \in Nat

-------------------------------------------------------------------------------
(* Configuration: defaults, then config.toml, then the environment, then the constructor *)

Absent     == -1   \* not set in this layer
Malformed  == -2   \* set, and not a number
Unreadable == -3   \* config.toml is not there, or does not parse
Raw == Nat \cup {Absent, Malformed}

CoerceInt(raw) == IF raw = Malformed THEN Absent ELSE raw

ReadHomeConfig(raw) == IF raw = Unreadable THEN Absent ELSE CoerceInt(raw)

ReadEnvOverrides(raw) == CoerceInt(raw)

ResolveConfig(layers) ==
    FoldLeft(LAMBDA merged, value : IF value = Absent THEN merged ELSE value, DefaultMax,
             <<ReadHomeConfig(layers.home), ReadEnvOverrides(layers.env), layers.explicit>>)

-------------------------------------------------------------------------------
(* SQL: each field of a credential bundle comes from one place, or is missing *)

Fields  == {"host", "user", "password"}
Missing == "missing"

\* A path of one to three segments names a table, for every scheme.
NamesTable(segments) == segments \in 1..3

ParseUri(uri) == [f \in Fields |-> IF f \in uri.fields THEN "uri" ELSE Missing]

\* Without an API key nobody is asked; an error, a 404 or bad JSON is an empty answer.
TryPlatform(key, answer) ==
    [f \in Fields |-> IF key /\ f \in answer THEN "platform" ELSE Missing]

MergeInto(base, override) ==
    [f \in Fields |-> IF base[f] = Missing THEN override[f] ELSE base[f]]

\* A secret is looked up by the host of the URI; the driver's variable is the last resort.
TryEnvSecret(uri, local) == ("host" \in uri.fields /\ "secret" \in local) \/ "driver" \in local

ResolveCredentials(uri, key, answer, local) ==
    LET known == MergeInto(ParseUri(uri), TryPlatform(key, answer))
    IN  IF known["password"] = Missing /\ TryEnvSecret(uri, local)
        THEN [known EXCEPT !["password"] = "local"] ELSE known

RequireConnectable(creds) == \A f \in Fields : creds[f] # Missing

-------------------------------------------------------------------------------
(* Filters: a MatchConfig as the set of the filters that were asked for *)

FromAny(req) == {f \in {"regex", "columns"} : req[f]}

ApplyMatch(objects, match) == IF "regex" \in match THEN objects \cap Kept ELSE objects

\* The platform does not speak regular expressions.
HasPostFilter(match) == "regex" \in match

PostFilter(objects, match) == IF HasPostFilter(match) THEN ApplyMatch(objects, match) ELSE objects

\* What was filtered by the listing is not filtered again; a projection is kept.
RequestForLocal(match) == match \cap {"columns"}

\* With a match the directory is walked...
LoadFiltered(files, match) == ApplyMatch(files, match)

\* ... and without one it is only listed.
LoadDirectory(files) == files \ Nested

LocalLoad(files, match) == IF match # {} THEN LoadFiltered(files, match) ELSE LoadDirectory(files)
===============================================================================
