---------------------------- MODULE MCModuleHost -----------------------------
(***************************************************************************)
(* Integers of 8 bits.  The schemes of the sample have the smallest number *)
(* in both notations, 80 in hexadecimal and -128, and an argument that is  *)
(* not an option; those of the plug-in its filters, one of them unknown.   *)
(***************************************************************************)
EXTENDS ModuleHost

Hex80    == [neg |-> FALSE, hex |-> TRUE, digits |-> <<8, 0>>]
Minus128 == [neg |-> TRUE, hex |-> FALSE, digits |-> <<1, 2, 8>>]
Seven    == [neg |-> FALSE, hex |-> FALSE, digits |-> <<7>>]

Setting(str, bool, int) ==
    [name |-> "Main settings", cnt |-> 3,
     params |-> <<Pair("str", str), Pair("bool", bool), Pair("int", int)>>]
Option(name, str, bool, int) ==
    [name |-> name, cnt |-> 3,
     params |-> <<Pair("str option", str), Pair("bool option", bool), Pair("int option", int)>>]
Row(str, bool, int) == [str |-> str, bool |-> bool, int |-> int]

Plug(filter, coordinates) ==
    [name |-> "NMEA decoder settings", cnt |-> 2,
     params |-> <<Pair("message_type", filter), Pair("coordinates_only", coordinates)>>]

MCSchemes ==
    [sample |->
        {[sets |-> Setting("a", "true", Hex80),
          opts |-> [cnt |-> 2, args |-> <<Option("Filter", "o", "false", Minus128),
                                          Option("Other", "p", "true", Seven)>>],
          means |-> Row("a", TRUE, -128), rows |-> <<Row("o", FALSE, -128)>>],
         [sets |-> Setting("a", "no", Minus128), opts |-> NoOptions,
          means |-> Row("a", FALSE, -128), rows |-> << >>]},
     decoder |->
        {[sets |-> Plug("ais", "1"), opts |-> NoOptions,
          means |-> [filter |-> "ais", coordinatesOnly |-> TRUE], rows |-> << >>],
         [sets |-> Plug("other", "no"), opts |-> NoOptions,
          means |-> AllSentences, rows |-> << >>]}]
MCEdits == {Row("b", TRUE, 7)}
==============================================================================
