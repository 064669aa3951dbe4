------------------------------- MODULE Client -------------------------------
(***************************************************************************)
(* The client's main() (clients/mac/main.cpp): it parses the command line, *)
(* gives up when no host is named, and otherwise makes the renderer and    *)
(* the view and starts the threads of VideoOutput.  What it has parsed is  *)
(* read once, before they start.                                           *)
(***************************************************************************)
EXTENDS VideoOutput, Options

CONSTANT Lines     \* the command lines it is started with

ASSUME LinesAssumption == Lines \subseteq Seq(Argument)

VARIABLES
  phase,         \* "main", "start", "run", or "exit" after return 1
  settings       \* renderOptions and verbose; empty when the threads run

mainVars == <<phase, settings>>
clientVars == <<videoVars, parseVars, mainVars>>

DefaultPort == 5198
NoSettings == <<>>

Init == /\ \E line \in Lines : InitOptions(line)
        /\ InitVideo
        /\ phase = "main"
        /\ settings = NoSettings

\* int to uint16_t
Narrow(port) == port % 65536

HostName == find(<<"h", "o", "s", "t">>, <<"h">>)

ParseLine == /\ phase = "main"
             /\ Parse \/ EndOfLine
             /\ UNCHANGED <<videoVars, mainVars>>

\* No host, or one that is a number or a truth value.
NeedHost == /\ phase = "main" /\ Parsed
            /\ HostName[1] # "string"
            /\ phase' = "exit"
            /\ UNCHANGED <<videoVars, parseVars, settings>>

ReadOptions ==
  /\ phase = "main" /\ Parsed
  /\ HostName[1] = "string"
  /\ phase' = "start"
  /\ settings' =
       [host |-> HostName[2],
        port |-> Narrow(get("int", <<"p", "o", "r", "t">>, <<"p">>,
                            DefaultPort)),
        verbose |-> enabled(<<"v", "e", "r", "b", "o", "s", "e">>, <<"v">>)]
  /\ UNCHANGED <<videoVars, parseVars>>

\* Renderer, View and the renderer's thread; the command line and settings
\* are not looked at again and leave the model.
StartThreads == /\ phase = "start"
                /\ phase' = "run"
                /\ settings' = NoSettings
                /\ argv' = <<>> /\ i' = 1
                /\ dashdash' = FALSE /\ hadopt' = <<>>
                /\ values' = Empty /\ standalones' = <<>>
                /\ UNCHANGED videoVars

Run(step) == phase = "run" /\ step /\ UNCHANGED <<parseVars, mainVars>>

Main == ParseLine \/ NeedHost \/ ReadOptions \/ StartThreads

Next == Main \/ Run(NextVideo)

Spec == Init /\ [][Next]_clientVars

\* main() goes on, the renderer returns from what it has begun, the decoder
\* calls back for what it was given, and the main thread runs each of the two
\* blocks that may be waiting for it, as its queue is first in, first out.
FairSpec == /\ Spec
            /\ WF_clientVars(Main)
            /\ WF_clientVars(Run(RendererThread))
            /\ WF_clientVars(Run(DecoderThread))
            /\ WF_clientVars(Run(CreateView))
            /\ WF_clientVars(Run(ImageBlock))
=============================================================================
