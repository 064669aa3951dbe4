------------------------------ MODULE MCClient ------------------------------
(* Instances of Client: every command line of a few arguments of each      *)
(* shape the parser tells apart.                                           *)
EXTENDS ClientProperties

CONSTANT MaxArgs     \* bound: arguments on a command line

MCIntegral == ("5000" :> 5000) @@ ("70000" :> 70000)
MCFractional == [text \in {} |-> 0]

Word(text) == [text |-> text, dashes |-> 0,
               name |-> <<>>, eq |-> FALSE, value |-> ""]
Alone(text, dashes, name) ==
  [Word(text) EXCEPT !.dashes = dashes, !.name = name]
WithEq(text, dashes, name, value) ==
  [Alone(text, dashes, name) EXCEPT !.eq = TRUE, !.value = value]

Host == <<"h", "o", "s", "t">>
Port == <<"p", "o", "r", "t">>

Arguments ==
  { Word("hd60"), Word("5000"), Word("off"),
    Alone("-", 1, <<>>), Alone("--", 2, <<>>),
    Alone("--host", 2, Host), Alone("--port", 2, Port),
    Alone("-ph", 1, <<"p", "h">>),
    Alone("--no-v", 2, No \o <<"v">>),
    WithEq("-hp=mac", 1, <<"h", "p">>, "mac"),
    WithEq("--port=70000", 2, Port, "70000"),
    WithEq("--no-h=no", 2, No \o <<"h">>, "no"),
    WithEq("--no-port=5000", 2, No \o Port, "5000") }

MCLines == BoundedSeq(Arguments, MaxArgs)
=============================================================================
