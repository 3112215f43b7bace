------------------------------ MODULE MCTerminal ------------------------------
(***************************************************************************)
(* Commands of one letter: c takes an argument, r runs a program, w clears *)
(* the screen, l lists.  The first key ends the welcome screen.            *)
(***************************************************************************)
EXTENDS Terminal

MCWord == [root |-> <<"h">>, ls |-> <<"l">>, cd |-> <<"c">>, cls |-> <<"w">>,
           open |-> <<"o">>, run |-> <<"r">>]
MCTitle == <<"T", "0">>
MCListing == <<"f", NL>>
MCProgram == <<[fn |-> "draw"], [fn |-> "disp", text |-> <<"a", NL, BS>>]>>
MCClear == <<[fn |-> "clear"]>>

MCKeys == <<{"x"}, {"c", "l", "w", "r", "DOWN", "ALT"}, {SPACE, NL, BS, "LEFT", "UP"},
            {"c", NL, BS, "RIGHT"}, {"c", NL, "LEFT"}, {NL, BS, "RIGHT"}, {}>>
=============================================================================
