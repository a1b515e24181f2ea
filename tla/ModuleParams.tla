---------------------------- MODULE ModuleParams -----------------------------
(***************************************************************************)
(* src/DHF/_example/include/ModuleParamMethods.h: settings as text.        *)
(*                                                                         *)
(* A parameter is [name, value].  A text is itself, but for that of a      *)
(* number, which is [neg, hex, digits]: a minus, "0x", and its digits up   *)
(* to the first character that is none.                                    *)
(***************************************************************************)
EXTENDS ConfigXML

CONSTANT INT_MAX   \* the largest int; there is one more below zero than above

ASSUME IntAssumption == INT_MAX \in Nat

Smallest == -INT_MAX - 1
Ints == Smallest .. INT_MAX

\* More than an int holds is undefined in C++; the compilers of the builds wrap.
Wrap(n) == ((n - Smallest) % (2 * (INT_MAX + 1))) + Smallest

\* Seeded fault: a number that is wider than the int is cut to its largest value.
GetIntValueClipped(text) ==
    LET value == FoldLeft(LAMBDA r, digit : r * (IF text.hex THEN 16 ELSE 10) + digit,
                          0, text.digits)
    IN  Min({IF text.neg THEN -value ELSE value, INT_MAX})

NumberOf(base, digits) == FoldLeft(LAMBDA r, digit : Wrap(r * base + digit), 0, digits)

\* Behind a minus, "0x" is the digit 0 and the end.  defaultValue is never
\* returned: line 115 tests the pointer, not what it points to.
getIntValue(text) ==
    IF text.hex THEN IF text.neg THEN 0 ELSE NumberOf(16, text.digits)
    ELSE LET number == NumberOf(10, text.digits)
         IN  Wrap(IF text.neg THEN -number ELSE number)

getStrIntValue(value) ==
    LET digits[n \in 0 .. -Smallest] ==
          IF n < 10 THEN <<n>> ELSE Append(digits[n \div 10], n % 10)
    IN  [neg |-> value < 0, hex |-> FALSE, digits |-> digits[IF value < 0 THEN -value ELSE value]]

getBoolValue(text) == text = "true"
getStrBoolValue(value) == IF value THEN "true" ELSE "false"

\* From 1; one more than there are, if there is none of that name.
getSettingIndex(name, defSets) ==
    LET hit == SelectInSeq(defSets, LAMBDA p : p.name = name)
    IN  IF hit = 0 THEN Len(defSets) + 1 ELSE hit

\* The other form takes two lists of defaults: defSets is the one and the other.
\* Whatever the structure pointed to before is not freed.
getDefaultModuleSettings(name, defSets) ==
    [name |-> name, cnt |-> Len(defSets), params |-> defSets]

\* setStrValue, setDefaultValue and, with the text of a value, the others.
SetText(params, index, text, defSets) ==
    IF params = << >> THEN params
    ELSE [params EXCEPT ![index] = [name |-> defSets[index].name, value |-> text]]
setBoolValue(params, index, value, defSets) ==
    SetText(params, index, getStrBoolValue(value), defSets)
setIntValue(params, index, value, defSets) ==
    SetText(params, index, getStrIntValue(value), defSets)
==============================================================================
