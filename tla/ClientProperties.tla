-------------------------- MODULE ClientProperties --------------------------
(* What must hold of the client from its command line on.                  *)
EXTENDS Client, VideoOutputProperties, SequencesExt

-----------------------------------------------------------------------------
(* What a command line says, read as a whole and not argument by argument: *)
(* the seven rules of the comment in Options.h, with the two special cases *)
(* that comments in its code name and the rules do not, "-ab=c" (just take *)
(* the first option, line 206) and "--no-name" (disabled, line 153, and so *)
(* never given a word).  There the code departs from rules 2 and 5 as they *)
(* are worded, and what is stated is not the rules.                        *)

\* Rules 1 and 7: option arguments, up to "--".
AfterDashDash(k) == \E j \in 1 .. k - 1 : IsDashDash(argv[j])
IsOption(k) == ~IsWord(argv[k]) /\ argv[k].name # <<>> /\ ~AfterDashDash(k)

\* The options an argument holds: rule 2, but for "-ab=c".
NamesOf(k) == LET arg == argv[k]
              IN  IF arg.dashes > 1 THEN <<arg.name>>
                  ELSE IF arg.eq THEN <<<<Head(arg.name)>>>>
                  ELSE [n \in 1 .. Len(arg.name) |-> <<arg.name[n]>>]

\* The last of an argument's options takes a word that follows: rules 4 and 5,
\* but for "--no-name".
Waits(k) == /\ k \in 1 .. Len(argv) /\ IsOption(k)
            /\ ~argv[k].eq /\ ~Negated(Last(NamesOf(k)))
TakesNext(k) == Waits(k) /\ k < Len(argv) /\ IsWord(argv[k + 1])

\* Rules 3 and 5: the value of the last option of argument k; the others are
\* set.
ValueOf(k) == IF argv[k].eq THEN makeValue(argv[k].value)
              ELSE IF TakesNext(k) THEN makeValue(argv[k + 1].text)
              ELSE <<"bool", TRUE>>

\* What argument k says of options.  no-name says the opposite about name,
\* when its value is a truth value, and nothing otherwise.
SaidBy(k) ==
  LET last == Last(NamesOf(k))
      value == ValueOf(k)
  IN  IF ~IsOption(k) THEN Empty
      ELSE IF ~Negated(last)
        THEN Set(SetAll(Empty, Range(NamesOf(k)), <<"bool", TRUE>>), last, value)
      ELSE IF value[1] = "bool"
        THEN Set(Empty, Positive(last), <<"bool", ~value[2]>>)
      ELSE Empty

\* The last of the first n arguments that says anything of an option counts.
SayersOf(name, n) == {k \in 1 .. n : name \in DOMAIN SaidBy(k)}
SaidUpTo(n) == [name \in UNION {DOMAIN SaidBy(k) : k \in 1 .. n} |->
                  SaidBy(Max(SayersOf(name, n)))[name]]
ReferenceValues == SaidUpTo(Len(argv))

\* Rules 6 and 7: every argument but options, their words, and what "--" and
\* bad options are.
IsAlone(k) == AfterDashDash(k) \/ (IsWord(argv[k]) /\ ~TakesNext(k - 1))
AloneUpTo(n) == FlattenSeq([k \in 1 .. n |->
                  IF IsAlone(k) THEN <<makeValue(argv[k].text)>> ELSE <<>>])
ReferenceStandalones == AloneUpTo(Len(argv))

\* The parser, which sees one argument after another and remembers only the
\* option that waits for a value, finds what the whole line says, with the
\* special cases above.
LineReadAsAWhole ==
  phase = "main" /\ Parsed =>
    /\ values = ReferenceValues
    /\ standalones = ReferenceStandalones

-----------------------------------------------------------------------------
\* What the line says of an option, under its long name or else the short.
Given(long, short) ==
  LET said(name) == SaidBy(Max(SayersOf(name, Len(argv))))[name]
  IN  IF SayersOf(long, Len(argv)) # {} THEN said(long)
      ELSE IF SayersOf(short, Len(argv)) # {} THEN said(short)
      ELSE <<"none">>

HostGiven == Given(<<"h", "o", "s", "t">>, <<"h">>)
PortGiven == Given(<<"p", "o", "r", "t">>, <<"p">>)

\* The numbers uint16_t holds.
Ports == 0 .. 65535

\* main() starts the client exactly when the line names a host that is
\* neither a number nor a truth value, under --host or else under -h, and
\* connects to it.  The port is the one the line gives, under --port or else
\* under -p, when that is a number that fits in 16 bits, and 5198 when the line
\* gives no number.  A number that does not fit is narrowed to some port; to
\* which one is not said.
StartsWithWhatWasGiven ==
  /\ phase = "exit" => HostGiven[1] # "string"
  /\ phase = "start" =>
       /\ HostGiven = <<"string", settings.host>>
       /\ settings.port \in Ports
       /\ IF PortGiven[1] = "int"
            THEN PortGiven[2] \in Ports => settings.port = PortGiven[2]
            ELSE settings.port = 5198
=============================================================================
