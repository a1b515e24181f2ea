--------------------------------- MODULE Sdk ---------------------------------
(***************************************************************************)
(* The helpers in the headers of src/DHF/_example/include, called as a     *)
(* module and as the host would: by one that looks for identifiers, one    *)
(* that looks for offsets, one that takes all identifiers, one that        *)
(* compares schemes and one that turns numbers into names and back.        *)
(*                                                                         *)
(* What a client keeps from one call to the next, lists, offsets and       *)
(* blocks, may be left over from an array before: a value is therefore     *)
(* <<received, at>>, the one at offset at of the array of that number.     *)
(***************************************************************************)
EXTENDS IdentifyMethods, ProtocolInfo, ConfigXML

CONSTANTS
    Arrays,      \* [bytes, wrote]: an array and the identifiers written into it
    Wanted,      \* types that are looked for one by one
    List1, List2,   \* and in lists
    SchemeLists, \* lists of modules that are compared
    LinkLists,   \* lists of links that are compared
    MaxArrays

\* An array holds what was written into it, one identifier behind the other, each
\* with its type in front; of the last, some of its value may be missing.
IsWritten(a) ==
    LET End(i) == a.wrote[i].at + getIdentifySize[a.wrote[i].type]
        k == Len(a.wrote)
    IN  /\ a.bytes \in Seq(0 .. 255) /\ a.wrote \in Seq([type : 0 .. 255, at : Nat])
        /\ \A i \in 1 .. k : /\ a.wrote[i].at = IF i = 1 THEN 1 ELSE End(i - 1) + 1
                            /\ a.wrote[i].at <= Len(a.bytes)
                            /\ a.bytes[a.wrote[i].at] = a.wrote[i].type
        /\ Len(a.bytes) <= IF k = 0 THEN 0 ELSE End(k)

\* What is looked for: values, each once.
IsSearched(list) ==
    /\ list \in Seq(0 .. 255) /\ IsInjective(list)
    /\ \A k \in DOMAIN list : ~ IsModule(list[k]) /\ getIdentifySize[list[k]] > 0

ASSUME SdkAssumption ==
    /\ \A a \in Arrays : IsWritten(a)
    /\ IsSearched(List1) /\ IsSearched(List2) /\ \A t \in Wanted : IsSearched(<<t>>)
    /\ \A ms \in SchemeLists : IsScheme(ms)
    /\ \A ls \in LinkLists : ls \in Seq(Range(ls))
    /\ MaxArrays \in Nat \ {0}

VARIABLES
    client,
    array, received,   \* the array at hand and how many there have been
    search1, search2,  \* SSpecIdentsVec of a client that searches
    offs1, offs2,      \* SOffIdentsVec
    info,              \* SOffInfo
    idents, live,      \* SSpecIdentsVec of all identifiers, blocks not freed
    dropped,           \* history: an identifier ahead of a module was dropped
    result             \* of the last call

sdkVars == <<client, array, received, search1, search2, offs1, offs2, info, idents, live,
             dropped, result>>
kept == <<search1, search2, offs1, offs2, info, idents, live, dropped>>

Clients == {"searches", "offsets", "takes all", "compares", "names"}
NoArray == [bytes |-> << >>, wrote |-> << >>]
NoCall == [call |-> "none"]
NoValue == <<0, 0>>
NoOffset == <<0, -1>>
NoId == <<0, 0>>

SdkInit ==
    /\ client \in Clients
    /\ array = NoArray /\ received = 0
    /\ search1 = [k \in DOMAIN List1 |-> [type |-> List1[k], ident |-> NoValue]]
    /\ search2 = [k \in DOMAIN List2 |-> [type |-> List2[k], ident |-> NoValue]]
    /\ offs1 = SearchOffs(List1, NoOffset) /\ offs2 = SearchOffs(List2, NoOffset)
    /\ info = << >> /\ idents = << >> /\ live = 0 /\ dropped = FALSE
    /\ result = NoCall

Value == [at \in 0 .. Len(array.bytes) |-> <<received, at>>]
bytes == array.bytes

\* The next array.
Receive(a) ==
    /\ client \in {"searches", "offsets", "takes all"} /\ received < MaxArrays
    /\ array' = a /\ received' = received + 1 /\ result' = NoCall
    /\ UNCHANGED <<client, kept>>

\* One call for each array.
Calls(c) == client = c /\ received > 0 /\ result = NoCall /\ UNCHANGED <<client, array, received>>
------------------------------------------------------------------------------
Find(t) ==
    /\ Calls("searches")
    /\ result' = [call |-> "first", type |-> t, r |-> ParseIdentify(bytes, t, NoValue, Value),
                  last |-> ParseLast(bytes, t, NoValue, Value)]
    /\ UNCHANGED kept

FindList ==
    /\ Calls("searches")
    /\ LET r == ParseLastList(bytes, search1, Value)
       IN  /\ search1' = r.idents
           /\ result' = [call |-> "list", found |-> r.found]
    /\ UNCHANGED <<search2, offs1, offs2, info, idents, live, dropped>>

FindLists ==
    /\ Calls("searches")
    /\ LET r == ParseLastLists(bytes, search1, search2, Value)
       IN  /\ search1' = r.idents1 /\ search2' = r.idents2
           /\ result' = [call |-> "lists", found |-> r.found]
    /\ UNCHANGED <<offs1, offs2, info, idents, live, dropped>>

SeqOne ==
    /\ Calls("offsets")
    /\ LET r == ParseOffSeq(bytes, offs1, Value)
       IN  /\ offs1' = r.idents
           /\ result' = [call |-> "seq", res |-> r.res]
    /\ UNCHANGED <<search1, search2, offs2, info, idents, live, dropped>>

SeqTwo ==
    /\ Calls("offsets")
    /\ LET r == ParseOffSeqs(bytes, offs1, offs2, Value)
       IN  /\ offs1' = r.one.idents /\ offs2' = r.two.idents
           /\ result' = [call |-> "seq", res |-> r.res]
    /\ UNCHANGED <<search1, search2, info, idents, live, dropped>>

\* A client keeps an SOffInfo for one array; the sample has one for each call.
AllOff(t) ==
    /\ Calls("offsets")
    /\ info' = ParseAllOff(bytes, << >>, Value)
    /\ result' = [call |-> "all", type |-> t, id |-> ModuleId(bytes, NoId, Value),
                  past |-> ReadsPast(bytes),
                  first |-> GetOffIdent(info', t, NoOffset),
                  last |-> GetOffLastIdent(info', t, NoOffset),
                  off |-> ParseOffIdentify(bytes, t, NoOffset, Value)]
    /\ UNCHANGED <<search1, search2, offs1, offs2, idents, live, dropped>>
------------------------------------------------------------------------------
\* Identifiers of the list or of the array are ahead of a module.
DropsSome(a) ==
    \E j \in DOMAIN a.wrote :
        /\ IsModule(a.wrote[j].type)
        /\ idents # << >> \/ \E i \in 1 .. j : ~ IsModule(a.wrote[i].type)

\* What points into an array is of no use for the next one.
TakesMore(put) ==
    /\ Calls("takes all")
    /\ idents # << >> => put /\ Head(idents).own

TakeLast(put) ==
    /\ TakesMore(put)
    /\ LET r == ParseAllLast(bytes, idents, put, Value)
       IN idents' = r.idents /\ live' = live + r.made
    /\ dropped' = (dropped \/ (put /\ DropsSome(array)))
    /\ result' = [call |-> "take", put |-> put]
    /\ UNCHANGED <<search1, search2, offs1, offs2, info>>

TakeAll ==
    /\ TakesMore(TRUE)
    /\ LET r == ParseAllIdentifys(bytes, idents, Value)
       IN idents' = r.idents /\ live' = live + r.made
    /\ result' = [call |-> "take", put |-> TRUE]
    /\ UNCHANGED <<search1, search2, offs1, offs2, info, dropped>>

\* What points into the array is not for delete[]: its list is just cleared.
Clear ==
    /\ client = "takes all" /\ idents # << >>
    /\ live' = live - (IF Head(idents).own THEN ClearAllIdentifys(idents) ELSE 0)
    /\ idents' = << >> /\ result' = [call |-> "clear"]
    /\ UNCHANGED <<client, array, received, search1, search2, offs1, offs2, info, dropped>>
------------------------------------------------------------------------------
CompareModules(ms1, ms2) ==
    /\ client = "compares" /\ result = NoCall
    /\ result' = [call |-> "modules", a |-> ms1, b |-> ms2,
                  change |-> compareModules(ms1, ms2)]
    /\ UNCHANGED <<client, array, received, kept>>

CompareLinks(ls1, ls2) ==
    /\ client = "compares" /\ result = NoCall
    /\ result' = [call |-> "links", a |-> ls1, b |-> ls2, change |-> compareLinks(ls1, ls2)]
    /\ UNCHANGED <<client, array, received, kept>>

\* The tables of names: the numbers that have one, and the function.
Tables ==
    [channel |-> ChannelProtocols, network |-> NetworkProtocols,
     trans |-> TransProtocols, application |-> Protocols, format |-> 0 .. 7]

NameIn(table, p) ==
    CASE table = "channel"     -> get_name_channel_protocol(p)
      [] table = "network"     -> get_name_network_protocol(p)
      [] table = "trans"       -> get_name_trans_protocol(p)
      [] table = "application" -> get_name_protocol(p)
      [] table = "format"      -> strFileFormat(p)

Name(table, p) ==
    /\ client = "names" /\ result = NoCall
    /\ result' = [call |-> "name", table |-> table, p |-> p, name |-> NameIn(table, p)]
    /\ UNCHANGED <<client, array, received, kept>>

\* A name that was written down is read again.
Number ==
    /\ client = "names" /\ result.call = "name"
    /\ result.table \in {"application", "format"}
    /\ result' = [call |-> "number", table |-> result.table, p |-> result.p,
                  number |-> IF result.table = "format" THEN indexFileFormat(result.name)
                                                        ELSE get_protocol(result.name)]
    /\ UNCHANGED <<client, array, received, kept>>

SdkNext ==
    \/ \E a \in Arrays : Receive(a)
    \/ \E t \in Wanted : Find(t) \/ AllOff(t)
    \/ FindList \/ FindLists \/ SeqOne \/ SeqTwo
    \/ \E put \in BOOLEAN : TakeLast(put)
    \/ TakeAll \/ Clear
    \/ \E ms1, ms2 \in SchemeLists : CompareModules(ms1, ms2)
    \/ \E ls1, ls2 \in LinkLists : CompareLinks(ls1, ls2)
    \/ \E table \in DOMAIN Tables : \E p \in Tables[table] : Name(table, p)
    \/ Number

SdkSpec == SdkInit /\ [][SdkNext]_sdkVars
------------------------------------------------------------------------------
\* The identifiers that are in the array as a whole.
Whole == {i \in DOMAIN array.wrote :
            array.wrote[i].at + getIdentifySize[array.wrote[i].type] <= Len(bytes)}
TypeAt(i) == array.wrote[i].type
Of(t) == {i \in Whole : TypeAt(i) = t}
BehindLast == {i \in Whole : \A j \in Whole : IsModule(TypeAt(j)) => j < i}
IsValueOf(v, i) == v = <<received, array.wrote[i].at>>

\* v is the last value of type t that the last module has written.
IsLastValue(v, t) ==
    /\ Of(t) \cap BehindLast # {}
    /\ IsValueOf(v, Max(Of(t) \cap BehindLast))

Gathered(list) == \A k \in DOMAIN list : IsLastValue(list[k].ident, list[k].type)
InLast(list) == \A k \in DOMAIN list : Of(list[k].type) \cap BehindLast # {}

\* The searches of the last module find what that module wrote, all of it or
\* nothing, and no value of an earlier module or an earlier array stays in a list
\* that is reported as found.  ParseIdentify, whose comment (line 107) promises
\* the identifier of the last module, finds it if that module wrote it, and gives
\* one of its values if no earlier module wrote one; of an identifier that an
\* earlier module wrote, which it takes as well, only that much is claimed.
FoundInLastModule ==
    CASE result.call = "first" ->
           LET t == result.type
           IN  /\ result.last.found <=> Of(t) \cap BehindLast # {}
               /\ result.last.found => IsLastValue(result.last.ident, t)
               /\ Of(t) \cap BehindLast # {} => result.r.found
               /\ Of(t) \subseteq BehindLast /\ result.r.found =>
                    \E i \in Of(t) : IsValueOf(result.r.ident, i)
      [] result.call = "list" ->
           /\ result.found <=> InLast(search1)
           /\ result.found => Gathered(search1)
      [] result.call = "lists" ->
           /\ result.found = 1 <=> InLast(search1)
           /\ result.found = 2 <=> (~ InLast(search1) /\ InLast(search2))
           /\ result.found = 1 => Gathered(search1)
           /\ result.found = 2 => Gathered(search2)
      [] OTHER -> TRUE

\* The list is filled with offsets of this array, each behind the one before
\* and at an identifier of its type.
InOrder(list) ==
    \A k \in DOMAIN list :
        /\ \E i \in Of(list[k].type) : IsValueOf(list[k].off, i)
        /\ k > 1 => list[k - 1].off[2] < list[k].off[2]

\* A sequence that is reported has the offsets of one pass through it, none of
\* an earlier array or of a later pass that was cut off.  The two ways to ask for
\* one offset agree with each other and with the array.  Nothing is found behind
\* the array, although its loops test l, which they never change: h[l], one byte
\* behind the array, is read at most when the array ends with a whole identifier.
OffsetsHold ==
    CASE result.call = "seq" ->
           /\ result.res = 1 => InOrder(offs1)
           /\ result.res = 2 => InOrder(offs2)
      [] result.call = "all" ->
           LET t == result.type
               modules == {i \in Whole : IsModule(TypeAt(i))}
           IN  /\ result.first = result.off
               /\ Of(t) = {} => {result.first, result.last} = {NoOffset}
               /\ Of(t) # {} => /\ IsValueOf(result.first, Min(Of(t)))
                                /\ IsValueOf(result.last, Max(Of(t)))
               /\ modules = {} <=> result.id = NoId
               /\ result.past => Whole = DOMAIN array.wrote
      [] OTHER -> TRUE

\* Each block is in the list or freed, but for those of identifiers ahead of a
\* module, which ParseAllIdentifyFromLastModule forgets (line 329).
BlocksFreed ==
    LET listed == Cardinality({k \in DOMAIN idents : idents[k].own})
    IN  live >= listed /\ (~ dropped => live = listed)

\* The modules of a scheme, whatever they are called.
Nameless(ms) == {[uid |-> m.uid, position |-> m.position, settings |-> m.settings,
                  options |-> m.options] : m \in Range(ms)}

\* A change of anything but the name of a module is noticed, in whatever order the
\* modules are.  As long as they are in the same order, or all have the same name
\* (line 172 compares the names of others), a scheme is reported as changed if and
\* only if it has changed, and so are links, as long as none comes twice.
ChangeNoticed ==
    LET a == result.a  b == result.b
        sameOrder == Len(a) = Len(b) => \A i \in DOMAIN a : a[i].uid = b[i].uid
        oneName   == \A m1, m2 \in Range(a) \cup Range(b) : m1.name = m2.name
    IN  CASE result.call = "modules" ->
               /\ Nameless(a) # Nameless(b) => result.change
               /\ (sameOrder \/ oneName) => (result.change <=> Range(a) # Range(b))
          [] result.call = "links" ->
               (IsInjective(a) /\ IsInjective(b)) =>
                   (result.change <=> Range(a) # Range(b))
          [] OTHER -> TRUE

\* No two protocols of a layer have the same name, none that has a number is
\* without one, and a name that is read again gives the number back, but for H323
\* and SKINNY, which get_protocol does not know by the names they are given, and
\* for format 7: that is FILE_TYPE_FORMAT_COUNT, the number of the file formats, whose
\* name is the default, "bin", which indexFileFormat does not know.
\* An identifier has a name if and only if it has a size.
NamesRoundTrip ==
    CASE result.call = "name" ->
           /\ \A q \in Tables[result.table] :
                NameIn(result.table, q) = result.name => q = result.p
           /\ {t \in Identifiers : getIdentifySize[t] # 0} = IdentifyNames
      [] result.call = "number" ->
           \/ result.number = result.p
           \/ result.table = "application" /\ result.p \in {20, 25}
           \/ result.table = "format" /\ result.p = 7
      [] OTHER -> TRUE
==============================================================================
