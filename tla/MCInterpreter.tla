------------------------- MODULE MCInterpreter --------------------------
(* Scripts for Interpreter.                                                *)
EXTENDS Interpreter, TLC

Cmd(o)     == [op |-> o, arg |-> 0]
CmdOn(o, a) == [op |-> o, arg |-> a]

(* A page that calls a common event, which asks for a picture, and perhaps *)
(* itself, until the stack is full; and a page that never ends.            *)
Scripts ==
  [talk  |-> <<CmdOn("wait", 2), Cmd("say"), CmdOn("call", "help"),
               Cmd("menu"), CmdOn("if", 7), CmdOn("call", "talk")>>,
   spin  |-> <<Cmd("yield"), Cmd("plain"), CmdOn("jump", 2)>>,
   help  |-> <<Cmd("fetch"), CmdOn("call", "aside"), Cmd("flip")>>,
   aside |-> <<Cmd("flip"), Cmd("end"), Cmd("plain")>>]

ScriptPages == (FALSE :> "talk") @@ (TRUE :> "spin")

(* A page that asks for a picture and calls itself.                        *)
Fetching ==
  [ask |-> <<Cmd("fetch"), Cmd("say"), CmdOn("call", "ask"), Cmd("plain")>>]

FetchPages == [b \in BOOLEAN |-> "ask"]
=============================================================================
