------------------------------ MODULE KeySetup ------------------------------
(***************************************************************************)
(* Configuration over several starts of the program: the environment, the  *)
(* .env file (src/core/config.cpp) and the key wizard (src/main.cpp), which *)
(* appends the key the user types to that file.                            *)
(*                                                                         *)
(* A line of the file is the name and the value that parse_env_line gives  *)
(* for it; lines without effect (blank, comment, no "=", unknown name) have *)
(* the name "other".  The parser takes a pair of quotes off a value, so a   *)
(* key that is typed in quotes is written with and read back without them. *)
(* The last line may lack its newline, and what is appended continues it.  *)
(* GROQ_API_URL and DB_PATH are read like MODEL_NAME and left out.         *)
(***************************************************************************)
EXTENDS Integers, Sequences, SequencesExt, FiniteSetsExt

CONSTANTS Typed,      \* keys a user may type
          Unquoted,   \* what parse_env_line makes of each, written as a value
          Numbers,    \* values that parse_size_t accepts
          FirstFiles, \* the lines of the file before the first start
          UserLines,  \* lines the user may append
          MaxLines    \* bound: lines of the file

KeyNames == {"GROQ_API_KEY", "OPENAI_API_KEY"}
Names == KeyNames \cup {"MODEL_NAME", "MAX_L1_TOKENS"}
EnvLine == [name : STRING, value : STRING]

(* What the program, the user and the environment put in besides keys and    *)
(* numbers; that they are strings is no news, but the provers ask for it.   *)
Words == Names \cup {"", "other", "part", "glued", "default", "e1", "cli"}

ASSUME KeyAssumption ==
    /\ Typed \cup Numbers \cup Words \subseteq STRING /\ "" \notin Typed \cup Numbers
    /\ Unquoted \in [Typed -> STRING]
    /\ FirstFiles \subseteq Seq(EnvLine) /\ UserLines \subseteq EnvLine
    /\ MaxLines \in Nat

VARIABLES
    lines, ended,   \* the file's lines; whether the last one has its newline
    env,            \* the environment of this start
    model_override, \* --model: <<>>, or the name given, which may be empty
    cfg,            \* the configuration in use
    stage,          \* "off", "wizard", "saved" (it has saved a key), "ready"
    saved,          \* history: the last key the wizard reported as saved
    clean           \* history: it was saved after a complete line

vars == <<lines, ended, env, model_override, cfg, stage, saved, clean>>

fileVars == <<lines, ended>>
Line(name, value) == [name |-> name, value |-> value]

NoEnv == [n \in Names |-> ""]
Default == [key |-> "", source |-> "", model |-> "default", tokens |-> "default"]

Config == [key : STRING, source : STRING, model : STRING, tokens : STRING]

TypeOK ==
    /\ lines \in Seq(EnvLine) /\ ended \in BOOLEAN
    /\ env \in [Names -> STRING] /\ model_override \in Seq(STRING)
    /\ cfg \in Config /\ stage \in {"off", "wizard", "saved", "ready"}
    /\ saved \in STRING /\ clean \in BOOLEAN

-----------------------------------------------------------------------------
discover_api_key(e) ==
    IF e["GROQ_API_KEY"] # "" THEN <<"GROQ_API_KEY", e["GROQ_API_KEY"]>>
    ELSE IF e["OPENAI_API_KEY"] # "" THEN <<"OPENAI_API_KEY", e["OPENAI_API_KEY"]>>
    ELSE <<"", "">>

parse_size_t(s, default_val) == IF s \in Numbers THEN s ELSE default_val

FromEnv(e) ==
    LET found == discover_api_key(e)
    IN  [key    |-> found[2],
         source |-> found[1],
         model  |-> IF e["MODEL_NAME"] # "" THEN e["MODEL_NAME"] ELSE Default.model,
         tokens |-> parse_size_t(e["MAX_L1_TOKENS"], Default.tokens)]

ReadAnyway(e, c, l) ==
    CASE l.name \in KeyNames /\ c.key = "" -> [c EXCEPT !.key = l.value, !.source = l.name]
      [] l.name = "MODEL_NAME" -> [c EXCEPT !.model = l.value]
      [] l.name = "MAX_L1_TOKENS" -> [c EXCEPT !.tokens = parse_size_t(l.value, c.tokens)]
      [] OTHER -> c

(* One line of the file: the first key counts, the last of the others, and   *)
(* nothing that the environment e has.                                     *)
ReadLine(e, c, l) ==
    IF l.value = "" THEN c
    ELSE CASE l.name \in KeyNames /\ c.key = "" ->
                [c EXCEPT !.key = l.value, !.source = l.name]
           [] l.name = "MODEL_NAME" /\ e["MODEL_NAME"] = "" -> [c EXCEPT !.model = l.value]
           [] l.name = "MAX_L1_TOKENS" /\ e["MAX_L1_TOKENS"] = "" ->
                [c EXCEPT !.tokens = parse_size_t(l.value, c.tokens)]
           [] OTHER -> c

(* The configuration from environment e and a file of lines w. *)
load_from_env(e, w) ==
    LET upTo[n \in 0..Len(w)] ==
            IF n = 0 THEN FromEnv(e) ELSE ReadLine(e, upTo[n - 1], w[n])
    IN  upTo[Len(w)]

-----------------------------------------------------------------------------
(* What a line without newline becomes when l is appended to it, where       *)
(* "other" is not blank, so that its name stays unknown.  A number           *)
(* followed by letters is still read as that number; any other value comes  *)
(* out as neither of the two.                                              *)
Continued(old, l) ==
    CASE old.name = "other" -> old
      [] old.name = "MAX_L1_TOKENS" /\ old.value \in Numbers -> old
      [] OTHER -> Line(old.name, "glued")

(* The bound on what is appended in the model. *)
InBound == Len(lines) < MaxLines

(* The file with l appended, with or without the newline of l. *)
AppendLine(l, newline) ==
    /\ ended' = newline
    /\ lines' = IF ended THEN Append(lines, l)
                ELSE Append(Front(lines), Continued(Last(lines), l))

Init ==
    /\ lines \in FirstFiles
    /\ ended \in BOOLEAN /\ (lines = <<>> => ended)
    /\ env = NoEnv /\ model_override = <<>>
    /\ cfg = Default /\ stage = "off"
    /\ saved = "" /\ clean = FALSE

(* The user appends a line that is no key, perhaps without a newline. *)
UserAppends ==
    /\ stage = "off" /\ InBound
    /\ \E l \in UserLines, newline \in BOOLEAN : AppendLine(l, newline)
    /\ UNCHANGED <<env, model_override, cfg, stage, saved, clean>>

(* main: the configuration is read, and the wizard asks for a missing key.   *)
Start ==
    /\ stage = "off"
    /\ UNCHANGED <<lines, ended, saved, clean>>
    /\ \E e \in [Names -> {"", "e1"}], t \in {"", "e1"} \cup Numbers :
         env' = [e EXCEPT !["MAX_L1_TOKENS"] = t]
    /\ model_override' \in {<<>>, <<"">>, <<"cli">>}
    /\ LET c == load_from_env(env', lines)
       IN  /\ cfg' = IF model_override' = <<>> THEN c
                     ELSE [c EXCEPT !.model = model_override'[1]]
           /\ stage' = IF c.key = "" THEN "wizard" ELSE "ready"

(* The line that is written for a key, as the next start reads it. *)
KeyLine(key) == Line("GROQ_API_KEY", Unquoted[key])

(* The line as far as it was written: a part of the name, of the value, or   *)
(* everything but the newline.                                             *)
Written(key) ==
    {Line("other", ""), Line("GROQ_API_KEY", ""), Line("GROQ_API_KEY", "part"), KeyLine(key)}

ShortWriteReported == {FALSE, TRUE}

(* What write_env_file returns after a write that stopped in the line: it    *)
(* goes on until the line is complete or a write fails.                    *)
PartialResult == {FALSE}

(* write_env_file(key) with all it may leave behind. *)
WriteEnvFile(key, ok) ==
    \/ ok = TRUE /\ AppendLine(KeyLine(key), TRUE)
    \/ ok \in PartialResult /\ \E l \in Written(key) : AppendLine(l, FALSE)
    \/ ok = FALSE /\ UNCHANGED fileVars

ProcessEnds ==
    stage' = "off" /\ cfg' = Default /\ env' = NoEnv /\ model_override' = <<>>

(* The wizard; its session goes on with the key as it was typed.  A start    *)
(* that is not interactive, a blank entry and a failed write end the        *)
(* program.                                                                *)
Wizard ==
    /\ stage = "wizard"
    /\ \/ InBound /\ \E key \in Typed, ok \in BOOLEAN :
            /\ WriteEnvFile(key, ok)
            /\ IF ok
               THEN /\ cfg' = [cfg EXCEPT !.key = key, !.source = "GROQ_API_KEY"]
                    /\ stage' = "saved" /\ saved' = key /\ clean' = ended
                    /\ UNCHANGED <<env, model_override>>
               ELSE ProcessEnds /\ UNCHANGED <<saved, clean>>
       \/ ProcessEnds /\ UNCHANGED <<fileVars, saved, clean>>

(* The session ends. *)
End == stage \in {"saved", "ready"} /\ ProcessEnds /\ UNCHANGED <<fileVars, saved, clean>>

Next == UserAppends \/ Start \/ Wizard \/ End

Spec == Init /\ [][Next]_vars

-----------------------------------------------------------------------------
NoKeyInEnv == \A n \in KeyNames : env[n] = ""

(* A key that the wizard reported as saved after a complete line is used,    *)
(* without the quotes around it, by every later start without a key in the  *)
(* environment: the user is not asked again, whatever an earlier wizard     *)
(* left behind and the user added.  The exception is a key typed as nothing *)
(* but two quotes, of which nothing is read back.                          *)
WizardAsksOnce ==
    clean /\ Unquoted[saved] # "" =>
        /\ stage # "wizard"
        /\ stage = "ready" /\ NoKeyInEnv => cfg.key = Unquoted[saved]

GivesKey(l) == l.name \in KeyNames /\ l.value # ""

(* A key saved after a complete line, unless it is two quotes, is the file's *)
(* first key, and nothing will be glued to it.                             *)
SavedKeyFirst ==
    clean =>
        /\ saved \in Typed
        /\ Unquoted[saved] # "" => \E p \in DOMAIN lines :
             /\ lines[p] = KeyLine(saved)
             /\ \A i \in 1..(p - 1) : ~ GivesKey(lines[i])
             /\ p = Len(lines) => ended

(* The wizard runs only where no source has a key. *)
NoKeyToBeFound ==
    stage = "wizard" => NoKeyInEnv /\ \A i \in DOMAIN lines : ~ GivesKey(lines[i])

(* What every step keeps. *)
IInv ==
    /\ TypeOK /\ (lines = <<>> => ended)
    /\ SavedKeyFirst /\ NoKeyToBeFound /\ WizardAsksOnce

LastOf(S, default) == IF S = {} THEN default ELSE lines[Max(S)].value

KeyGivers == {i \in DOMAIN lines : GivesKey(lines[i])}

KeyMatches ==
    <<cfg.source, cfg.key>> =
        IF env["GROQ_API_KEY"] # "" THEN <<"GROQ_API_KEY", env["GROQ_API_KEY"]>>
        ELSE IF env["OPENAI_API_KEY"] # "" THEN <<"OPENAI_API_KEY", env["OPENAI_API_KEY"]>>
        ELSE IF KeyGivers = {} THEN <<"", "">>
        ELSE <<lines[Min(KeyGivers)].name, lines[Min(KeyGivers)].value>>

SettingsMatch ==
    /\ KeyMatches
    /\ cfg.model =
         IF model_override # <<>> THEN model_override[1]
         ELSE IF env["MODEL_NAME"] # "" THEN env["MODEL_NAME"]
         ELSE LastOf({i \in DOMAIN lines :
                        lines[i].name = "MODEL_NAME" /\ lines[i].value # ""}, "default")
    /\ cfg.tokens =
         IF env["MAX_L1_TOKENS"] # "" THEN parse_size_t(env["MAX_L1_TOKENS"], "default")
         ELSE LastOf({i \in DOMAIN lines :
                        lines[i].name = "MAX_L1_TOKENS" /\ lines[i].value \in Numbers},
                     "default")

(* At every start each setting comes from the strongest source that has it.  *)
(* The key: GROQ_API_KEY, then OPENAI_API_KEY of the environment, then the  *)
(* first line of the file that gives one of the two.  The model and the     *)
(* token limit: the option, the environment, the last line of the file that *)
(* gives a usable value.  An empty --model counts as an option, and a       *)
(* number that cannot be read in the environment hides the file's.         *)
SettingsFollowSources == [][stage = "off" /\ stage' # "off" => SettingsMatch']_vars

(* What the wizard prints ("Saved to"): the key is in the file, and the next *)
(* start that needs it finds it.                                           *)
SavedKeyFound ==
    saved # "" /\ stage = "ready" /\ NoKeyInEnv => cfg.key = saved
=============================================================================
