---------------------------- MODULE Configuration -----------------------------
(***************************************************************************)
(* config.New (internal/config/config.go): what the process is configured  *)
(* with, given the flags on the command line, the environment and the JSON *)
(* file. A source is a function from the fields it sets to their values.   *)
(***************************************************************************)
CONSTANTS Empty,   \* the empty string
          Bad,     \* a value that Validate or the environment's parser refuses
          NoFile,  \* no configuration file is named
          Broken   \* a file that cannot be read or is no JSON

Fields == {"address", "grpc", "base", "storage", "dsn", "https",
           "secret", "auditFile", "auditURL", "subnet"}

\* The secret key has no flag.
FlagFields == Fields \ {"secret"}

\* Values that flag.StringVar and flag.BoolVar leave where nothing is set.
Defaults == [f \in Fields |->
  IF f \in {"address", "grpc", "base", "storage", "https"} THEN "default" ELSE Empty]

\* The fields that a sets, and the others as b has them.
a ++ b == [f \in DOMAIN a \cup DOMAIN b |-> IF f \in DOMAIN a THEN a[f] ELSE b[f]]

\* The environment variable CONFIG wins over -c, unless it is empty.
Path(src) == IF src.envFile # NoFile THEN src.envFile ELSE src.flagFile

\* The fields a file names; null counts as absent.
File(src) == IF Path(src) \in {NoFile, Broken} THEN <<>> ELSE Path(src)

\* Mutant: a flag does not keep the file from being applied.
FileOverFlags(src) == DOMAIN File(src) \ DOMAIN src.env

\* Fields whose value is taken from the file: neither a flag nor a variable of
\* the environment is there, be it empty.
Applied(src) == DOMAIN File(src) \ (DOMAIN src.flags \cup DOMAIN src.env)

\* env.Parse leaves the field alone when its variable is empty.
Parsed(src) == {f \in DOMAIN src.env : src.env[f] # Empty}

WithFile(src) == [f \in Applied(src) |-> File(src)[f]] ++ src.flags ++ Defaults

WithEnv(src) == [f \in Parsed(src) |-> src.env[f]] ++ WithFile(src)

\* An empty secret key is replaced, so that Validate never misses one.
FillSecret(c) == [c EXCEPT !["secret"] = IF @ = Empty THEN "default" ELSE @]

Config(src) == FillSecret(WithEnv(src))

Validate(c) ==
  /\ \A f \in {"address", "grpc", "base"} : c[f] \notin {Empty, Bad}
  /\ c["subnet"] # Bad

\* New returns no error. What is no boolean is refused where a source is parsed,
\* used or not; every other value only when it is used.
Accepted(src) ==
  /\ Path(src) # Broken
  /\ \A s \in {src.flags, File(src)} :
       "https" \in DOMAIN s => s["https"] \notin {Empty, Bad}
  /\ "https" \in Parsed(src) => src.env["https"] # Bad
  /\ Validate(Config(src))

-----------------------------------------------------------------------------
\* The precedence of README.md:44-45, env > flags > config file > defaults,
\* with a variable counted as set when it is not empty.
Documented(src) ==
  [f \in Parsed(src) |-> src.env[f]] ++ src.flags ++ File(src) ++ Defaults

\* Fields where the code departs from it: the empty variable hides the file.
Shadowed(src) ==
  {f \in DOMAIN src.env \ DOMAIN src.flags : src.env[f] = Empty}
===============================================================================
