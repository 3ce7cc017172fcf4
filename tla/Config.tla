-------------------------------- MODULE Config --------------------------------
(***************************************************************************)
(* The configuration of store.c: command line, environment and config file *)
(* are read into one Map, from which confInit fills the struct of the      *)
(* mode.  Words are strings; a config file is the sequence of its lines    *)
(* [kind, key, value], where kind is "entry" ("key = value", with blanks   *)
(* as in homenet.conf), "section" ([key]) or "other" (a comment, a line    *)
(* without "="), and tells whether the last line ends with a newline.      *)
(***************************************************************************)
EXTENDS Containers

NULL == "NULL"

\* KEY, CLI KEY, CONFIG KEY, ENV KEY
mapping == <<
    <<"mode",        NULL,        "Mode",               "MODE">>,
    <<"config-file", "-config", NULL,                   "CONFIG_FILE">>,
    <<"use-env",     "-env",    "Use Env",            NULL>>,
    <<"url",         "-url",    "URL",                "URL">>,
    <<"key",         "-key",    "Key",                "KEY">>,
    <<"salt",        "-salt",   "Salt",               "SALT">>,
    <<"master-key",  NULL,        "Master Key",         "MASTER_KEY">>,
    <<"port",        "-p",      "Port",               "PORT">>,
    <<"name",        "-name",   "Name",               "NAME">>,
    <<"local-ip",    "-ip",     "Local IP",           "LOCAL_IP">>,
    <<"use-rl",      "-rl",     "Use RL",             "USE_RL">>,
    <<"data",        "-data",   "Data",               "DATA">>,
    <<"use-mdns",    "-mdns",   "Use Mdns",           "USE_MDNS">>,
    <<"conn-auth",   NULL,        "Connect Auth Level", "CONN_AUTH_LEVEL">>,
    <<"query-auth",  NULL,        "Query Auth",         "QUERY_AUTH">>,
    <<"rl-auth",     NULL,        "RL Auth",            "RL_AUTH">> >>

CLI == 2
FILE == 3
ENV == 4

Rows(word, column) ==
    {i \in DOMAIN mapping : mapping[i][column] = word /\ word # NULL}

getMappedKey(word, column) ==
    IF Rows(word, column) = {} THEN NULL
    ELSE mapping[Min(Rows(word, column))][1]

\* The first letter decides, in any casing.
mapMode(word) ==
    LET c == SubSeq(word, 1, 1)
    IN CASE c \in {"c", "C"} -> "CONNECT"
         [] c \in {"b", "B"} -> "BRIDGE"
         [] c \in {"l", "L"} -> "LISTEN"
         [] c \in {"r", "R"} -> "REVERSE_LISTEN"
         [] c \in {"q", "Q"} -> "QUERY"
         [] OTHER -> "none"

(***************************************************************************)
(* The three sources                                                       *)
(***************************************************************************)
\* env: a function from the names that are set.
getEnv(env, name) == IF name \in DOMAIN env THEN env[name] ELSE NULL

envToMap(m, env) ==
    FoldLeft(LAMBDA n, r : IF getEnv(env, r[ENV]) = NULL THEN n
                           ELSE map_set(n, r[1], getEnv(env, r[ENV])),
             m, mapping)

\* argv[1] is the program, argv[2] the mode whatever it is.  An option takes the
\* next word, even one that looks like an option; a word that is no option is
\* skipped alone.  The state of the walk: the Map and the option that waits (an
\* option that ends the line is no input: str_len(NULL) ends the program).
argsToMap(m, argv) ==
    FoldLeft(LAMBDA s, w :
               IF s.option # NULL
               THEN [map |-> map_set(s.map, s.option, w), option |-> NULL]
               ELSE [s EXCEPT !.option = getMappedKey(w, CLI)],
             [map |-> IF Len(argv) < 2 THEN m ELSE map_set(m, "mode", argv[2]),
              option |-> NULL],
             SubSeq(argv, 3, Len(argv))).map

(***************************************************************************)
(* readConfigFile: its static fp and sec                                   *)
(***************************************************************************)
Closed == [at |-> 0, sec |-> NULL]

NoSuchFile == [lines |-> << >>, newline |-> TRUE]

\* The line after the header "[sec]", the end when there is none.
Skip(file, from, sec) ==
    LET H == {i \in from .. Len(file.lines) :
                file.lines[i].kind = "section" /\ file.lines[i].key = sec}
    IN IF H = {} THEN Len(file.lines) + 1 ELSE Min(H) + 1

\* Mutation: the section stays set for the calls that follow.
readConfigFile_sticky(file, st, open, section) ==
    LET at   == IF open \/ section # NULL THEN 1 ELSE st.at
        sec  == IF section # NULL THEN section ELSE st.sec
        from == IF sec = NULL THEN at ELSE Skip(file, at, sec)
        L    == {i \in from .. Len(file.lines) : file.lines[i].kind # "other"}
        i    == IF L = {} THEN 0 ELSE Min(L)
    IN IF i = 0 \/ file.lines[i].kind = "section" THEN [at |-> 0, sec |-> sec, line |-> 0]
       ELSE [at |-> i + 1, sec |-> sec, line |-> i]

\* One call: the next entry of the section, or line 0, which closes the file.
\* Lines that are no entry are skipped by the call to itself at the end.
readConfigFile(file, st, open, section) ==
    LET at   == IF open \/ section # NULL THEN 1 ELSE st.at
        sec  == IF section # NULL THEN section ELSE st.sec
        from == IF sec = NULL THEN at ELSE Skip(file, at, sec)
        L    == {i \in from .. Len(file.lines) : file.lines[i].kind # "other"}
        i    == IF L = {} THEN 0 ELSE Min(L)
    IN IF i = 0 \/ file.lines[i].kind = "section" THEN [at |-> 0, sec |-> NULL, line |-> 0]
       ELSE [at |-> i + 1, sec |-> NULL, line |-> i]

\* The last byte of a line is taken for its newline.
Value(file, i) ==
    LET v == file.lines[i].value
    IN IF i = Len(file.lines) /\ ~file.newline THEN SubSeq(v, 1, Len(v) - 1) ELSE v

\* Options of the part above the first section are mapped, those of a section
\* are kept as they are.  The result tells the statics it leaves behind.
configFileToMap(m, st, file, section) ==
    LET Store(n, i) ==
          LET k == IF section # NULL THEN file.lines[i].key
                   ELSE getMappedKey(file.lines[i].key, FILE)
          IN IF k = NULL THEN n ELSE map_set(n, k, Value(file, i))
        \* the n-th call and the Map after it
        Call[n \in 1 .. Len(file.lines) + 1] ==
          IF n = 1 THEN LET r == readConfigFile(file, st, TRUE, section)
                        IN [r |-> r, map |-> IF r.line = 0 THEN m ELSE Store(m, r.line)]
          ELSE LET c == Call[n - 1]
               IN IF c.r.line = 0 THEN c
                  ELSE LET r == readConfigFile(file, c.r, FALSE, NULL)
                       IN [r |-> r, map |-> IF r.line = 0 THEN c.map
                                            ELSE Store(c.map, r.line)]
    IN Call[Len(file.lines) + 1]

(***************************************************************************)
(* The structs                                                             *)
(***************************************************************************)
getValue(args, key, default) == map_get(args, key, default)

\* atoi on the words of the model: what is no number is 0.
Numerals == <<"1", "2", "3">>

str_toInt(w) ==
    LET N == {n \in DOMAIN Numerals : Numerals[n] = w} IN IF N = {} THEN 0 ELSE Min(N)

getValueInt(args, key, default) ==
    LET w == getValue(args, key, NULL) IN IF w = NULL THEN default ELSE str_toInt(w)

getValueBool(args, key, default) ==
    LET w == getValue(args, key, NULL)
    IN CASE w = NULL -> default
         [] w = "true" -> 1
         [] w = "false" -> 0
         [] OTHER -> str_toInt(w)

\* The keys of BridgeContext; its other Maps are the state of Bridge and Mdns.
bridgeContextInit == [listenKeys |-> map_init, queryKeys |-> map_init]

\* The bridge's struct: rl-auth is stored where query-auth was.
bridgeMode(args, file) ==
    LET lk == configFileToMap(bridgeContextInit.listenKeys, Closed, file, "Listen Keys")
        qk == configFileToMap(bridgeContextInit.queryKeys, lk.r, file, "Query Keys")
        queryAuth == getValueBool(args, "query-auth", 1)
    IN [context |-> [listenKeys |-> lk.map, queryKeys |-> qk.map],
        port |-> getValueInt(args, "port", 0),
        rlId |-> getValue(args, "key", ""),
        rlUrl |-> IF getValueBool(args, "use-rl", 1) = 0 THEN "" ELSE getValue(args, "url", ""),
        rlPass |-> getValue(args, "salt", ""),
        masterKey |-> getValue(args, "master-key", ""),
        name |-> getValue(args, "name", ""),
        useMdns |-> getValueBool(args, "use-mdns", 1),
        requireQueryAuth |-> getValueBool(args, "rl-auth", queryAuth),
        requireRLAuth |-> 0,
        connectAuthLevel |-> getValueInt(args, "conn-auth", 0)]

\* conf: the mode and its struct; without a mode the program is a bridge.
parseArgs(args, file) ==
    LET mode == mapMode(getValue(args, "mode", "b"))
    IN [mode |-> mode,
        at |-> CASE mode = "BRIDGE" -> bridgeMode(args, file)
                 [] mode = "LISTEN" ->
                      [port |-> getValueInt(args, "port", 0),
                       connectUrl |-> getValue(args, "url", "")]
                 [] mode = "REVERSE_LISTEN" ->
                      [rlUrl |-> getValue(args, "url", ""), rlId |-> getValue(args, "key", ""),
                       rlPass |-> getValue(args, "salt", ""),
                       localIp |-> getValue(args, "local-ip", "")]
                 [] mode = "CONNECT" ->
                      [connectUrl |-> getValue(args, "url", ""),
                       payload |-> getValue(args, "data", "")]
                 [] mode = "QUERY" ->
                      [bridgeUrl |-> getValue(args, "url", ""), name |-> getValue(args, "name", ""),
                       key |-> getValue(args, "key", ""), salt |-> getValue(args, "salt", "")]
                 [] OTHER -> << >>]

\* The first pass, for the name of the config file: -env with a word that is no
\* number switches the environment off here, and only here.
FirstPass(argv, env) ==
    LET args == argsToMap(map_init, argv)
    IN IF str_toInt(getValue(args, "use-env", "1")) = 0 THEN args ELSE envToMap(args, env)

\* Mutation: the environment is applied last.
SecondPass_env(m, argv, env, file) ==
    envToMap(argsToMap(configFileToMap(m, Closed, file, NULL).map, argv), env)

\* File, environment and command line, each over the one before.
SecondPass(m, argv, env, file) ==
    argsToMap(envToMap(configFileToMap(m, Closed, file, NULL).map, env), argv)

\* files: a function from the paths that exist.
FileOf(argv, env, files) ==
    LET path == getValue(FirstPass(argv, env), "config-file", "homenet.conf")
    IN IF path \in DOMAIN files THEN files[path] ELSE NoSuchFile

Collect(argv, env, files) ==
    SecondPass(FirstPass(argv, env), argv, env, FileOf(argv, env, files))

confInit(argv, env, files) ==
    parseArgs(Collect(argv, env, files), FileOf(argv, env, files))

\* The salt LISTEN_NOTIFY authenticates a listener with, NULL for none.
getSaltForListenId(id, context, env) ==
    map_get(context.listenKeys, id, getEnv(env, "L-" \o id))

\* The salt verifyAuthRespFromMap checks the answer to a challenge with; CONNECT
\* and QUERY give it context.queryKeys.
verifyAuthRespFromMap(keyStore, id) == map_get(keyStore, id, NULL)

(***************************************************************************)
(* Properties of one start of the program.  A command line is the mode     *)
(* (NULL: none) and a sequence of items, <<option, value>> or <<word>>.    *)
(***************************************************************************)
Argv(mode, items) ==
    <<"homenet">> \o (IF mode = NULL THEN << >> ELSE <<mode>> \o FlattenSeq(items))

LastOf(S, f(_)) == IF S = {} THEN NULL ELSE f(Max(S))

FromArgs(mode, items, key) ==
    IF key = "mode" THEN mode
    ELSE IF mode = NULL THEN NULL
    ELSE LastOf({i \in DOMAIN items : Len(items[i]) = 2
                                       /\ getMappedKey(items[i][1], CLI) = key},
                LAMBDA i : items[i][2])

\* The entries under the first header of this name (NULL: above any header).
InSection(file, section) ==
    LET H == {i \in DOMAIN file.lines : file.lines[i].kind = "section"}
        M == {h \in H : file.lines[h].key = section}
    IN {i \in DOMAIN file.lines :
          /\ file.lines[i].kind = "entry"
          /\ IF section = NULL THEN \A h \in H : i < h
             ELSE M # {} /\ Min(M) < i /\ \A h \in H : h <= Min(M) \/ i < h}

\* The lines of a section, and of the part above any, that set a key.
KeyLines(file, section, id) == {i \in InSection(file, section) : file.lines[i].key = id}

OptionLines(file, key) ==
    {i \in InSection(file, NULL) : getMappedKey(file.lines[i].key, FILE) = key}

\* What is written on the last of the lines S, NULL if there is none.  The program
\* reads it so when that line ends with a newline (see Value).
Written(file, S) == LastOf(S, LAMBDA i : file.lines[i].value)

Whole(file, S) == S # {} => Max(S) < Len(file.lines) \/ file.newline

First(words) ==
    LET P == {i \in DOMAIN words : words[i] # NULL}
    IN IF P = {} THEN NULL ELSE words[Min(P)]

EnvKey(key) == mapping[CHOOSE i \in DOMAIN mapping : mapping[i][1] = key][ENV]

\* Every option has the value of the command line; one that is not there has a
\* value that the environment or the config file gives it, its last one in the
\* file, and none if neither has one, whatever came before, was passed over or was
\* read in the first pass.  Which of the two is taken if both have one is left
\* open: the code takes the environment, homenet.conf says the file.
Resolution(mode, items, env, files) ==
    LET argv == Argv(mode, items)
        file == FileOf(argv, env, files)
        all  == Collect(argv, env, files)
    IN \A i \in DOMAIN mapping :
         LET key  == mapping[i][1]
             arg  == FromArgs(mode, items, key)
             S    == OptionLines(file, key)
             rest == {getEnv(env, EnvKey(key)), Written(file, S)} \ {NULL}
         IN /\ arg # NULL => getValue(all, key, NULL) = arg
            /\ arg = NULL /\ Whole(file, S) =>
                 getValue(all, key, NULL) \in IF rest = {} THEN {NULL} ELSE rest

\* A bridge accepts the listen keys of their section and of the variables "L-...",
\* and the query keys of their section, with the salts written there, and no
\* others: not the options above, not a key of the other kind, although three
\* walks share one static file position and section name.
OwnKeys(mode, items, env, files) ==
    LET argv == Argv(mode, items)
        conf == confInit(argv, env, files)
        file == FileOf(argv, env, files)
    IN conf.mode = "BRIDGE" =>
         \A id \in {file.lines[i].key : i \in DOMAIN file.lines} \cup {"k"} :
           LET L == KeyLines(file, "Listen Keys", id)
               Q == KeyLines(file, "Query Keys", id)
           IN /\ Whole(file, L) =>
                   getSaltForListenId(id, conf.at.context, env)
                     = First(<<Written(file, L), getEnv(env, "L-" \o id)>>)
              /\ Whole(file, Q) =>
                   verifyAuthRespFromMap(conf.at.context.queryKeys, id) = Written(file, Q)

===============================================================================
