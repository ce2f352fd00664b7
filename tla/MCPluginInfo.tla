---------------------------- MODULE MCPluginInfo ----------------------------
EXTENDS PluginInfo, TLC

(* Values of the kinds a script may put anywhere.                          *)
Whole(n) == [kind |-> "int", value |-> n]
Fraction == [kind |-> "number", value |-> "0.5"]
Text(t) == [kind |-> "string", value |-> t]

(* Pieces of a version that are not just a number: "3beta" and "x".        *)
Beta == [number |-> 3, rest |-> "beta"]
Word == [number |-> NoNumber, rest |-> "x"]

(* A script without methods.                                               *)
Silent == [text \in {} |-> Empty]

Plain ==
    [name |-> "Synth", version |-> <<Piece(1), Piece(2), Piece(255)>>,
     unique_id |-> <<"a", "b", "c">>,
     parameters |-> <<[name |-> "Volume", default_value |-> 5, short_name |-> "V",
                       enumeration_values |-> [low |-> Whole(0), high |-> Whole(5)]],
                      [symbol |-> "P"]>>,
     input_ports |-> <<[name |-> "Left", group_id |-> 2], [symbol |-> "in_2"]>>,
     output_ports |-> <<[name |-> "Out", hints |-> 1]>>,
     state_values |-> ("k" :> "v" @@ "e" :> Empty @@ Empty :> "v"),
     programs |-> <<Text("one"), Text("two")>>]

(* Arrays with items that are none, or no arrays; a version of two parts.  *)
Odd ==
    [version |-> <<Piece(1), Word>>, unique_id |-> <<"a", "b", "c", "d", "e">>,
     parameters |-> <<Invalid, [name |-> "Pan", midi_cc |-> 10]>>,
     input_ports |-> NotAnArray,
     output_ports |-> <<Invalid>>]

(* "1.300.3beta." is read, but not as it is written.                       *)
OddVersion == [version |-> <<Piece(1), Piece(300), Beta, Piece(NoNumber)>>]

BadEnumeration ==
    [parameters |-> <<[enumeration_values |-> [no |-> Whole(0), half |-> Fraction]]>>]
BadProgram == [programs |-> <<Text("one"), Whole(1)>>]
BadVersion == [version |-> <<Piece(1), Piece(0), Word>>]

MCScripts ==
    {Silent, Plain, Odd, OddVersion, BadEnumeration, BadProgram, BadVersion}
=============================================================================
