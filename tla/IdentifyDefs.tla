---------------------------- MODULE IdentifyDefs -----------------------------
(***************************************************************************)
(* The tables of src/DHF/_example/include/IdentifyDefs.h: the types of     *)
(* identifiers, which C type holds the value of each and how long it is.   *)
(***************************************************************************)
EXTENDS Integers

AID_DATA == 0
AID_MODULE == 1
AID_MODULE_AND_SCHEME == 2
AID_HARDWARE_CHANNEL == 118

\* The constants AID_... .
Identifiers == {AID_DATA, AID_MODULE, AID_MODULE_AND_SCHEME} \cup 10 .. AID_HARDWARE_CHANNEL

IsModule(type) == type \in {AID_MODULE, AID_MODULE_AND_SCHEME}

\* sizeof: "#pragma push(1, pack)" packs nothing, and Type512Int8 has 256 bytes.
ModuleSize == [TModuleAID |-> 2, TModuleSchemeAID |-> 3]
NumberSize ==
    [TypeInt32 |-> 4, TypeInt64 |-> 8, TypeUInt8 |-> 1, TypeUInt16 |-> 2,
     TypeUInt32 |-> 4, TypeUInt64 |-> 8]
TextSize ==
    [Type8Int8 |-> 8, Type16Int8 |-> 16, Type32Int8 |-> 32, Type128Int8 |-> 128,
     Type256Int8 |-> 256, Type512Int8 |-> 256, Type1024Int8 |-> 1024,
     Type2x1024Int8 |-> 2048]
RecordSize ==
    [TypeFloat |-> 8, Type4UInt8 |-> 4, Type6UInt8 |-> 6, Type16UInt8 |-> 16,
     TypeFileOperation |-> 24, TypeSessionParams |-> 12, TypeLgnLcnX25 |-> 2]

\* The cases of getIdentifySize, by the C type whose size they return.
HeldIn ==
    [TModuleAID |-> {AID_MODULE}, TModuleSchemeAID |-> {AID_MODULE_AND_SCHEME},
     TypeInt32 |-> {51, 52} \cup 58 .. 62,
     TypeInt64 |-> 10 .. 13 \cup {15, 111, 116},
     TypeUInt8 |-> {24, 44, 45, 48, 53, 90},
     TypeUInt16 |-> 21 .. 23 \cup 31 .. 39 \cup {84, 102} \cup 92 .. 99,
     TypeUInt32 |-> {43, 55, 91},
     TypeUInt64 |-> {14, 41, 54, AID_HARDWARE_CHANNEL},
     Type8Int8 |-> {78, 79, 106, 107, 110},
     Type16Int8 |-> {19, 63, 74, 75, 108, 109},
     Type32Int8 |-> {18, 20, 42, 46, 47, 49, 50, 56, 57} \cup 64 .. 67 \cup
                    {70, 71, 76, 77, 80, 81, 103, 104} \cup 112 .. 115,
     Type128Int8 |-> {72, 73, 83, 85, 86}, Type256Int8 |-> {69},
     Type512Int8 |-> {16}, Type1024Int8 |-> {68, 82, 89, 105},
     Type2x1024Int8 |-> {117},
     TypeFloat |-> {87, 88}, Type4UInt8 |-> {27, 28}, Type6UInt8 |-> {17, 25, 26},
     Type16UInt8 |-> {29, 30}, TypeFileOperation |-> {40},
     TypeSessionParams |-> {100}, TypeLgnLcnX25 |-> {101}]

SizeOf(ctype) ==
    IF ctype \in DOMAIN ModuleSize THEN ModuleSize[ctype]
    ELSE IF ctype \in DOMAIN NumberSize THEN NumberSize[ctype]
    ELSE IF ctype \in DOMAIN TextSize THEN TextSize[ctype] ELSE RecordSize[ctype]

\* A type without a case, AID_DATA among them, has the size 0.
getIdentifySize ==
    [type \in 0 .. 255 |->
        IF \E c \in DOMAIN HeldIn : type \in HeldIn[c]
        THEN SizeOf(CHOOSE c \in DOMAIN HeldIn : type \in HeldIn[c]) ELSE 0]

\* The types for which getIdentifyName has a name.
IdentifyNames == {AID_MODULE, AID_MODULE_AND_SCHEME} \cup 10 .. AID_HARDWARE_CHANNEL

\* strFileFormat and indexFileFormat, whose defaults are "bin" and 0.
FileFormats == <<"bit", "sig", "lsig", "pcap", "sig channel", "lsig channel", "lsig dhf">>
strFileFormat(index) == IF index \in 0 .. 6 THEN FileFormats[index + 1] ELSE "bin"
indexFileFormat(str) ==
    IF \E i \in 0 .. 6 : FileFormats[i + 1] = str
    THEN CHOOSE i \in 0 .. 6 : FileFormats[i + 1] = str ELSE 0
==============================================================================
