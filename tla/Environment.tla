---------------------------- MODULE Environment -----------------------------
(***************************************************************************)
(* core/Config.cpp, core/Log.cpp and config.py: the gateway and the ingest *)
(* read one environment, each with a reader of its own.                    *)
(*                                                                         *)
(* An environment maps each variable to a set of at most one value, {} for *)
(* a variable that is not set; a value is a sequence, so <<>> is a variable*)
(* set to nothing.  The values Postgres is given are cut where libpq may   *)
(* cut them, those of the other variables are of one piece or two.         *)
(* POSTGRES_HOST's value is cut at its first colon, and what follows that  *)
(* is a number or not.                                                     *)
(***************************************************************************)
EXTENDS Integers, Sequences

Required == {"CLIENT_ID", "CLIENT_SECRET", "POSTGRES_HOST",
             "POSTGRES_DATABASE", "POSTGRES_USER", "POSTGRES_PASSWORD"}

DefaultPort == 5432
MaxPort == 65535        \* of the 16 bits the port is read into

(* The fields of Config that have a value before the environment is read.  *)
Defaults == [DERIBIT_WS_HOST |-> <<"www.deribit.com">>,
             DERIBIT_WS_PORT |-> <<"443">>,
             DERIBIT_TICKER_INTERVAL |-> <<"100ms">>,
             QUANT_LOG_LEVEL |-> <<"info">>]

(* The text after the colon: blank or sign before the digits, the number   *)
(* they make, and what comes behind them.                                  *)
PortTexts(Numbers) ==
    [lead : {"", "blank", "plus", "minus"},
     number : {{}} \cup {{n} : n \in Numbers},
     trail : {"", "blank", "letters", "colon"}]
NoText == [lead |-> "", number |-> {}, trail |-> ""]

HostSpecs(Hosts, Numbers) ==
    [host : Hosts, colon : {FALSE}, port : {NoText}]
    \cup [host : Hosts, colon : {TRUE}, port : PortTexts(Numbers)]
NoSpec == [host |-> <<>>, colon |-> FALSE, port |-> NoText]
-----------------------------------------------------------------------------
(* C++ *)

Nothing(name) == IF name = "POSTGRES_HOST" THEN NoSpec ELSE <<>>

(* Mutant of ReadEnv: a variable set to nothing counts as set. *)
ReadEnvAsIs(env, name) == env[name]

(* read_env: a variable set to nothing is a variable that is not set. *)
ReadEnv(env, name) == env[name] \ {Nothing(name)}

ReadEnvOr(env, name, fallback) ==
    IF ReadEnv(env, name) = {} THEN fallback
    ELSE CHOOSE v \in ReadEnv(env, name) : TRUE

Missing(env) == {name \in Required : ReadEnv(env, name) = {}}

(* Mutant of FromChars16: what is left behind the digits is not looked at. *)
FromCharsPrefix(text) ==
    IF text.lead = "" THEN {n \in text.number : n \in 1..MaxPort} ELSE {}

(* from_chars into 16 bits, to the last character, and not 0: digits only. *)
FromChars16(text) ==
    IF text.lead = "" /\ text.trail = ""
    THEN {n \in text.number : n \in 1..MaxPort}
    ELSE {}

(* The port from_env takes from a host specification, or {} where it throws.*)
PortOf(spec) == IF spec.colon THEN FromChars16(spec.port) ELSE {DefaultPort}

PostgresOf(env, spec, port) ==
    [host |-> spec.host, port |-> port,
     dbname |-> ReadEnvOr(env, "POSTGRES_DATABASE", <<>>),
     user |-> ReadEnvOr(env, "POSTGRES_USER", <<>>),
     password |-> ReadEnvOr(env, "POSTGRES_PASSWORD", <<>>)]

(* Config::from_env: the configuration, or the variables its error names.  *)
(* A port that does not parse is thrown before the missing are counted.    *)
FromEnv(env) ==
    LET spec == ReadEnvOr(env, "POSTGRES_HOST", NoSpec)
        refuse(names) == [config |-> {}, names |-> names]
    IN  CASE PortOf(spec) = {} -> refuse({"POSTGRES_HOST"})
          [] PortOf(spec) # {} /\ Missing(env) # {} -> refuse(Missing(env))
          [] OTHER ->
                 [config |-> {PostgresOf(env, spec, p) : p \in PortOf(spec)},
                  names |-> {}]

OptionalsOf(env) ==
    [name \in DOMAIN Defaults |-> ReadEnvOr(env, name, Defaults[name])]

(* What conninfo strings are made of: the characters libpq looks for, the  *)
(* text "name=" of one of its options, and text with none of these in it.  *)
(* "other" stands for every option but the five.                           *)
ConnOptions == {"host", "port", "dbname", "user", "password", "other"}

Blank == [kind |-> "blank"]
Backslash == [kind |-> "backslash"]
Quote == [kind |-> "quote"]
NameOf(option) == [kind |-> "name", name |-> option]
Digits(n) == [kind |-> "digits", number |-> n]
Plain(w) == [kind |-> "text", text |-> w]

ConnPieces ==
    {Blank, Backslash, Quote}
    \cup [kind : {"name"}, name : ConnOptions]
    \cup [kind : {"digits"}, number : Nat]
    \cup [kind : {"text"}, text : STRING]

Setting(option, value) == <<NameOf(option)>> \o value

(* Mutant of Conninfo: the port is forgotten. *)
ConninfoWithoutPort(c) ==
    Setting("host", c.host) \o <<Blank>> \o Setting("dbname", c.dbname)
        \o <<Blank>> \o Setting("user", c.user)
        \o <<Blank>> \o Setting("password", c.password)

(* postgres_conninfo: name=value with blanks between, nothing quoted. *)
Conninfo(c) ==
    Setting("host", c.host) \o <<Blank>>
        \o Setting("port", <<Digits(c.port)>>) \o <<Blank>>
        \o Setting("dbname", c.dbname) \o <<Blank>>
        \o Setting("user", c.user) \o <<Blank>>
        \o Setting("password", c.password)

(* init_logging: a level spdlog does not know is info, not silence. *)
SpdlogLevels ==
    {"trace", "debug", "info", "warning", "error", "critical", "off"}

LevelFromStr(level) ==
    CASE level \in SpdlogLevels -> level
      [] level = "warn" -> "warning"
      [] level = "err" -> "error"
      [] OTHER -> "off"

LoggerLevel(level) ==
    IF LevelFromStr(level) = "off" /\ level # "off" THEN "info"
    ELSE LevelFromStr(level)
-----------------------------------------------------------------------------
(* libpq and Python *)

(* libpq's conninfo_parse, piece by piece.  Blanks part the settings and   *)
(* are skipped before a name and after its "="; a backslash takes the next *)
(* piece as it is, in a value and in a quoted one; a quote opens a quoted  *)
(* value only where the value begins.  What stands where a name should and *)
(* is none is an error.  (A blank before the "=" of a name is allowed too, *)
(* and is not here.)                                                       *)
NothingRead == [mode |-> "name", open |-> {}, value |-> <<>>,
                set |-> [option \in ConnOptions |-> {}]]

(* The value goes to its option, over an earlier one. *)
Stored(r) ==
    [mode |-> "name", open |-> {}, value |-> <<>>,
     set |-> [option \in ConnOptions |->
                 IF option \in r.open THEN {r.value} ELSE r.set[option]]]

Goes(r, mode) == [r EXCEPT !.mode = mode]
Takes(r, piece, mode) == [r EXCEPT !.mode = mode, !.value = Append(@, piece)]

ReadPiece(r, piece) ==
    LET is(kind) == piece.kind = kind
    IN  CASE r.mode = "error" -> r
          [] r.mode \in {"name", "start"} /\ is("blank") -> r
          [] r.mode = "name" /\ is("name") ->
                 [r EXCEPT !.mode = "start", !.open = {piece.name}]
          [] r.mode = "name" /\ ~is("name") /\ ~is("blank") -> Goes(r, "error")
          [] r.mode = "start" /\ is("quote") -> Goes(r, "quoted")
          [] r.mode \in {"start", "value"} /\ is("backslash") ->
                 Goes(r, "escape")
          [] r.mode = "value" /\ is("blank") -> Stored(r)
          [] r.mode = "quoted" /\ is("quote") -> Stored(r)
          [] r.mode = "quoted" /\ is("backslash") -> Goes(r, "quotedEscape")
          [] r.mode \in {"quoted", "quotedEscape"} -> Takes(r, piece, "quoted")
          [] OTHER -> Takes(r, piece, "value")

(* What is set at the end of the text; nothing where a quote is left open. *)
Settings(r) ==
    CASE r.mode = "name" -> {r.set}
      [] r.mode \in {"start", "value", "escape"} -> {Stored(r).set}
      [] OTHER -> {}

LibpqReads(text) ==
    LET read[n \in 0..Len(text)] ==
            IF n = 0 THEN NothingRead ELSE ReadPiece(read[n - 1], text[n])
    IN  Settings(read[Len(text)])

(* int(): blanks around and a sign are taken, and so is any size. *)
PyInt(text) ==
    IF text.trail \in {"", "blank"}
    THEN {IF text.lead = "minus" THEN 0 - n ELSE n : n \in text.number}
    ELSE {}

PyPort(spec) == IF spec.port = NoText THEN {DefaultPort} ELSE PyInt(spec.port)

(* Settings.from_env: absent is an error, empty is a value. *)
PyFromEnv(env) ==
    [host : {s.host : s \in env["POSTGRES_HOST"]},
     port : UNION {PyPort(s) : s \in env["POSTGRES_HOST"]},
     dbname : env["POSTGRES_DATABASE"],
     user : env["POSTGRES_USER"],
     password : env["POSTGRES_PASSWORD"]]

=============================================================================
