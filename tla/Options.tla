------------------------------- MODULE Options -------------------------------
(***************************************************************************)
(* The client's command line (clients/mac/Options.h): the constructor that *)
(* parses it, one argument to a step, and the queries main() asks.         *)
(*                                                                         *)
(* An argument is a record: all of it (text), how many dashes it starts    *)
(* with, the characters after them and before the first '=' (name),        *)
(* whether there is an '=' (eq), and what stands after it (value); one     *)
(* without dashes is a word, of which only the text matters.  A value is   *)
(* a pair of its type and itself, as in a std::variant.                    *)
(***************************************************************************)
EXTENDS Integers, Sequences

CONSTANTS
  Integral,      \* the texts strtoll takes to their end, and their numbers
  Fractional     \* the other texts strtod does, and theirs

ASSUME NumbersAssumption == \A text \in DOMAIN Integral : Integral[text] \in Int

\* A name is the sequence of its characters.
Argument == [text : STRING, dashes : Nat, name : Seq(STRING), eq : BOOLEAN,
             value : STRING]

VARIABLES
  argv,          \* the command line without the program's name
  i,             \* the argument to be parsed next
  dashdash,      \* "--" was seen
  hadopt,        \* the option that may get a value from a word, or <<>>
  values,
  standalones

parseVars == <<argv, i, dashdash, hadopt, values, standalones>>

Empty == [name \in {} |-> <<>>]

InitOptions(line) ==
  /\ argv = line /\ i = 1
  /\ dashdash = FALSE /\ hadopt = <<>>
  /\ values = Empty /\ standalones = <<>>

-----------------------------------------------------------------------------
(* Faulty variants of definitions of this module, each a plausible mistake *)
(* in the code; no specification uses them.                                *)

\* a new option drops the one before it that has no value
FlushForgets(v) == v
\* the short option wins over the long one
FindShortFirst(long, short) ==
  IF short \in DOMAIN values THEN values[short]
  ELSE IF long \in DOMAIN values THEN values[long] ELSE <<"none">>

-----------------------------------------------------------------------------
makeValue(text) ==
  IF text \in {"", "true", "yes", "on"} THEN <<"bool", TRUE>>
  ELSE IF text \in {"false", "no", "off"} THEN <<"bool", FALSE>>
  ELSE IF text \in DOMAIN Integral THEN <<"int", Integral[text]>>
  ELSE IF text \in DOMAIN Fractional THEN <<"double", Fractional[text]>>
  ELSE <<"string", text>>

SetAll(v, names, value) ==
  [n \in names \cup DOMAIN v |-> IF n \in names THEN value ELSE v[n]]
Set(v, name, value) == SetAll(v, {name}, value)

\* What an option without a value gets.
Flush(v) == IF hadopt = <<>> THEN v ELSE Set(v, hadopt, <<"bool", TRUE>>)

No == <<"n", "o", "-">>
Negated(name) == Len(name) >= 3 /\ SubSeq(name, 1, 3) = No
Positive(name) == SubSeq(name, 4, Len(name))

-----------------------------------------------------------------------------
Arg == argv[i]
IsWord(arg) == arg.dashes = 0
IsDashDash(arg) == arg.dashes = 2 /\ arg.name = <<>> /\ ~arg.eq

Parsing == i <= Len(argv)
NextArg == i' = i + 1 /\ UNCHANGED argv

\* A word that no option waits for, and anything after "--".
Standalone == /\ Parsing
              /\ dashdash \/ (IsWord(Arg) /\ hadopt = <<>>)
              /\ standalones' = Append(standalones, makeValue(Arg.text))
              /\ UNCHANGED <<dashdash, hadopt, values>>
              /\ NextArg

ValueOfOption == /\ Parsing
                 /\ ~dashdash /\ IsWord(Arg) /\ hadopt # <<>>
                 /\ values' = Set(values, hadopt, makeValue(Arg.text))
                 /\ hadopt' = <<>>
                 /\ UNCHANGED <<dashdash, standalones>>
                 /\ NextArg

\* "--", and options without a name, which are skipped.
NoOption == /\ Parsing
            /\ ~dashdash /\ ~IsWord(Arg) /\ Arg.name = <<>>
            /\ dashdash' = IsDashDash(Arg)
            /\ values' = Flush(values)
            /\ hadopt' = <<>>
            /\ UNCHANGED standalones
            /\ NextArg

\* handleOption for one option, v being the values when it is called and
\* hadopt already empty: what the values become.
WithValue(v, name, value) ==
  IF ~Negated(name) THEN Set(v, name, value)
  ELSE IF value[1] # "bool" THEN v
  ELSE Set(v, Positive(name), <<"bool", ~value[2]>>)

\* "--name=value", and "-n=value", which sets the option n only; "--no-name"
\* needs no value.
OptionWithValue ==
  /\ Parsing
  /\ ~dashdash /\ ~IsWord(Arg) /\ Arg.name # <<>>
  /\ LET name == IF Arg.dashes = 1 THEN <<Head(Arg.name)>> ELSE Arg.name
     IN  /\ Arg.eq \/ Negated(name)
         /\ values' = WithValue(Flush(values), name,
                        makeValue(IF Arg.eq THEN Arg.value ELSE ""))
  /\ hadopt' = <<>>
  /\ UNCHANGED <<dashdash, standalones>>
  /\ NextArg

\* "--name", which may get a value from the next word; of the options of
\* "-abc" only the last may.
OptionAlone ==
  /\ Parsing
  /\ ~dashdash /\ ~IsWord(Arg) /\ Arg.name # <<>> /\ ~Arg.eq
  /\ \/ /\ Arg.dashes = 1
        /\ LET flags == {<<Arg.name[k]>> : k \in 1 .. Len(Arg.name) - 1}
           IN  values' = SetAll(Flush(values), flags, <<"bool", TRUE>>)
        /\ hadopt' = <<Arg.name[Len(Arg.name)]>>
     \/ /\ Arg.dashes > 1 /\ ~Negated(Arg.name)
        /\ values' = Flush(values)
        /\ hadopt' = Arg.name
  /\ UNCHANGED <<dashdash, standalones>>
  /\ NextArg

Parse == \/ Standalone \/ ValueOfOption \/ NoOption
         \/ OptionWithValue \/ OptionAlone

\* The option the command line ends with.
EndOfLine == /\ i = Len(argv) + 1
             /\ i' = i + 1
             /\ values' = Flush(values)
             /\ hadopt' = <<>>
             /\ UNCHANGED <<argv, dashdash, standalones>>

Parsed == i > Len(argv) + 1

-----------------------------------------------------------------------------
(* The queries, for an option with a long and a short name.                *)

find(long, short) ==
  IF long \in DOMAIN values THEN values[long]
  ELSE IF short \in DOMAIN values THEN values[short] ELSE <<"none">>

get(type, long, short, default) ==
  LET found == find(long, short)
  IN  IF found[1] = type THEN found[2] ELSE default

enabled(long, short) == get("bool", long, short, FALSE)
=============================================================================
