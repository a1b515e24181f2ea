----------------------------- MODULE ModuleHost ------------------------------
(***************************************************************************)
(* The interface IModuleExt of src/DHF/_example/include/IfaceModuleExt.h   *)
(* and its two implementations, the sample CIModuleExt of src/DHF/_example *)
(* and the plug-in NmeaDecoder of src/nmea_decoder.cpp, as a host sees     *)
(* them: their settings, which go from the form to structures of the host, *)
(* as text, and from there to the processing or back; their form; their    *)
(* counters.  What the plug-in does with its data is DhfModule's.          *)
(*                                                                         *)
(* The host makes one call at a time.  A careful host empties a structure  *)
(* before a module fills it (removeModuleParams..., or NULL for a new      *)
(* one).  Calls about data and calls about settings touch nothing in       *)
(* common but the form and bStateProc: a host makes either.                *)
(***************************************************************************)
EXTENDS ModuleParams

CONSTANTS
    Texts,      \* that settings may be
    Schemes,    \* module -> {[sets, opts, means, rows]}: text, and what it means
    Edits,      \* module -> what a user may enter in the form
    Lengths,    \* of pieces of data
    MaxData     \* pieces of data between two resets of the counters

\* The structures a host fills: what counts nothing points to nothing.
IsFilledSettings(s) ==
    /\ s = [name |-> s.name, cnt |-> s.cnt, params |-> s.params]
    /\ s.cnt = 0 => s.params = << >>
IsFilledOptions(o) ==
    /\ o = [cnt |-> o.cnt, args |-> o.args]
    /\ o.cnt = 0 => o.args = << >>

------------------------------------------------------------------------------
(***************************************************************************)
(* Texts and values.                                                       *)
(***************************************************************************)
Zero == [neg |-> FALSE, hex |-> FALSE, digits |-> <<0>>]
Pair(name, value) == [name |-> name, value |-> value]

defaultSetting == <<Pair("str", "Line"), Pair("bool", "false"), Pair("int", Zero)>>
defaultOption  == <<Pair("str option", "Line"), Pair("bool option", "true"), Pair("int option", Zero)>>
DEFAULT_NAME_OPTION == "Filter"

\* The sample's form as it is drawn in SettingsForm.dfm.
Designed == [str |-> "StrEdit", bool |-> FALSE, int |-> 0]

\* A row of the sample's list; the parameters that are not in params stay.
PutParam(v, p, defs) ==
    LET index == getSettingIndex(p.name, defs)
    IN  CASE index = 1 -> [v EXCEPT !.str = p.value]
          [] index = 2 -> [v EXCEPT !.bool = getBoolValue(p.value)]
          [] index = 3 -> [v EXCEPT !.int = getIntValue(p.value)]
          [] OTHER -> v
Filled(value, params, defs) == FoldLeft(LAMBDA v, p : PutParam(v, p, defs), value, params)

\* Nothing is read of a new SDynParam that params does not have.
NewRow == [str |-> "", bool |-> FALSE, int |-> 0]
AddRow(rs, a) == IF a.name = DEFAULT_NAME_OPTION
                 THEN Append(rs, Filled(NewRow, a.params, defaultOption)) ELSE rs
RowsOf(args) == FoldLeft(AddRow, << >>, args)

\* The plug-in: ApplySettings.
ApplyParam(v, p) ==
    CASE p.name = "message_type" ->
           [v EXCEPT !.filter = IF p.value \in {"nmea", "ais"} THEN p.value ELSE "all"]
      [] p.name = "coordinates_only" ->
           [v EXCEPT !.coordinatesOnly = p.value \in {"true", "1"}]
      [] OTHER -> v
Applied(value, params) == FoldLeft(ApplyParam, value, params)

Printed(v) ==
    [name |-> "NMEA decoder settings", cnt |-> 2,
     params |-> <<Pair("message_type", v.filter),
                  Pair("coordinates_only", getStrBoolValue(v.coordinatesOnly))>>]
AllSentences == [filter |-> "all", coordinatesOnly |-> FALSE]
------------------------------------------------------------------------------
(***************************************************************************)
(* What a scheme says.  It was saved from structures a module had filled:  *)
(* it has all parameters, whoever has changed their values since.  Of a    *)
(* number an int keeps what is less than the count of all ints.            *)
(***************************************************************************)
Amount(base, digits) == FoldLeft(LAMBDA r, digit : r * base + digit, 0, digits)

StandsFor(text, n) ==
    /\ text.digits \in Seq(Nat) /\ {text.neg, text.hex} \subseteq BOOLEAN
    /\ ~ (text.neg /\ text.hex)
    /\ LET amount == Amount(IF text.hex THEN 16 ELSE 10, text.digits)
       IN  (n - (IF text.neg THEN -amount ELSE amount)) % (2 * (INT_MAX + 1)) = 0

Rows   == [str : Texts, bool : BOOLEAN, int : Ints]
Chosen == [filter : {"all", "nmea", "ais"}, coordinatesOnly : BOOLEAN]

Says(params, v, defs) ==
    /\ \A k \in 1 .. 3 : \E p \in Range(params) : p.name = defs[k].name
    /\ \A p \in Range(params) :
          /\ p.name = defs[1].name => v.str = p.value
          /\ p.name = defs[2].name => v.bool = (p.value = "true")
          /\ p.name = defs[3].name => StandsFor(p.value, v.int)

Chooses(params, v) ==
    /\ \A name \in {"message_type", "coordinates_only"} : \E p \in Range(params) : p.name = name
    /\ \A p \in Range(params) :
          /\ p.name = "message_type" =>
               v.filter = IF p.value \in {"nmea", "ais"} THEN p.value ELSE "all"
          /\ p.name = "coordinates_only" => v.coordinatesOnly = (p.value \in {"true", "1"})

\* The options that are filters are the rows, in their order.
Lists(args, rs) ==
    LET Filters(n) == {j \in 1 .. n : args[j].name = DEFAULT_NAME_OPTION}
    IN  /\ Len(rs) = Cardinality(Filters(Len(args)))
        /\ \A i \in Filters(Len(args)) :
              /\ args[i].params \in Seq(Range(args[i].params))
              /\ Says(args[i].params, rs[Cardinality(Filters(i))], defaultOption)

IsSaid(m, s) ==
    /\ s.sets.params \in Seq(Range(s.sets.params)) /\ s.sets.cnt = Len(s.sets.params)
    /\ s.opts.args \in Seq(Range(s.opts.args)) /\ s.opts.cnt = Len(s.opts.args)
    /\ m = "sample" => /\ s.means \in Rows /\ Says(s.sets.params, s.means, defaultSetting)
                       /\ s.rows \in Seq(Rows) /\ Lists(s.opts.args, s.rows)
    /\ m = "decoder" => s.means \in Chosen /\ Chooses(s.sets.params, s.means)

ASSUME HostAssumption ==
    /\ \A m \in {"sample", "decoder"} : \A s \in Schemes[m] :
         IsFilledSettings(s.sets) /\ IsFilledOptions(s.opts)
    /\ Lengths \subseteq Nat /\ MaxData \in Nat

ASSUME SaidAssumption ==
    /\ \A m \in {"sample", "decoder"} : \A s \in Schemes[m] : IsSaid(m, s)
    /\ {"", "Line", "StrEdit"} \subseteq Texts /\ Edits \subseteq Rows

------------------------------------------------------------------------------
VARIABLES
    module, host,
    ifaceProc,                \* CreateProc was called
    hasForm, hSettingForm,    \* the form, and the handle the host is given
    shown, rows, enabled,     \* what is on it, its list, its controls
    bStateProc,
    values, dynParams,        \* value_str.. or m_filter.., SDynParamVec
    sets, opts,               \* the structures of the host
    recv, send,
    lost,                     \* what has been overwritten or left unfreed
    meant, meantRows,         \* history: what form, host and processing should have;
                              \* of a row, the fields that something is claimed of
    told,                     \* history: setProcModuleOptions since Free
    untold, behind,           \* history: see FormFollows
    counted, given, taken     \* history: since the counters were reset, if ever

formVars == <<hasForm, hSettingForm, shown, rows, enabled, untold, behind>>
procVars == <<values, dynParams, told>>
hostVars == <<sets, opts>>
counters == <<recv, send, counted, given, taken>>
history  == <<meant, meantRows>>
const    == <<module, host>>
vars == <<const, ifaceProc, formVars, bStateProc, procVars, hostVars, counters, lost, history>>

IsSample  == module = "sample"
IsDecoder == module = "decoder"
careful == host = "careful"
WithData == host = "data"
Nobody == [nobody |-> TRUE]    \* nobody has said what it should be
Junk == -1                     \* a counter that nothing has written to
------------------------------------------------------------------------------
(***************************************************************************)
(* The constructors, and what is as in both modules.                       *)
(***************************************************************************)
NoShown == [shown |-> FALSE]

Init ==
    /\ module \in {"sample", "decoder"} /\ host \in {"data", "careful", "careless"}
    /\ ifaceProc = FALSE
    /\ hasForm = FALSE /\ hSettingForm = "null"
    /\ shown = NoShown /\ rows = << >> /\ enabled = FALSE
    /\ bStateProc = "junk"
    /\ values = IF IsSample THEN Designed ELSE AllSentences
    /\ dynParams = << >>
    /\ sets = NoSettings /\ opts = NoOptions
    /\ recv = Junk /\ send = Junk
    /\ lost = {}
    /\ meant = [form |-> Nobody, host |-> Nobody,
                proc |-> IF IsSample THEN Nobody ELSE AllSentences]
    /\ meantRows = [form |-> << >>, host |-> << >>]
    /\ told = << >> /\ untold = FALSE /\ behind = FALSE
    /\ counted = FALSE /\ given = 0 /\ taken = 0

Running == bStateProc = "on"

\* A pointer is overwritten, or hidden behind a count of 0.
LostBy(place, array) == IF array = << >> THEN {} ELSE {place}

CreateProc ==
    /\ WithData /\ ~ ifaceProc /\ ifaceProc' = TRUE
    /\ UNCHANGED <<const, formVars, bStateProc, procVars, hostVars, counters, lost, history>>

\* A scheme that was saved, with numbers as somebody has written them.
LoadScheme(s) ==
    /\ ~ WithData /\ sets.params = << >> /\ opts.args = << >>
    /\ sets' = s.sets /\ opts' = s.opts
    /\ meant' = [meant EXCEPT !.host = s.means]
    /\ meantRows' = [meantRows EXCEPT !.host = s.rows]
    /\ UNCHANGED <<const, ifaceProc, formVars, bStateProc, procVars, counters, lost>>

Reset ==
    /\ recv' = 0 /\ send' = 0
    /\ counted' = TRUE /\ given' = 0 /\ taken' = 0

resetCommonParams ==
    /\ WithData
    /\ Reset
    /\ UNCHANGED <<const, ifaceProc, formVars, bStateProc, procVars, hostVars, lost, history>>

\* The sample's does not call the one of IModuleExt, which resets the counters.
Initialize ==
    /\ WithData /\ ~ Running
    /\ IF IsDecoder THEN Reset ELSE UNCHANGED counters
    /\ UNCHANGED <<const, ifaceProc, formVars, bStateProc, procVars, hostVars, lost, history>>

Free ==
    /\ ~ WithData /\ ~ Running /\ IsSample
    /\ dynParams' = << >> /\ told' = << >>
    /\ UNCHANGED <<const, ifaceProc, formVars, bStateProc, values, hostVars, counters, lost,
                   history>>
------------------------------------------------------------------------------
(***************************************************************************)
(* The form.                                                               *)
(***************************************************************************)

\* The sample's is as it was drawn, and its controls are enabled.  The plug-in
\* asks bStateProc (279), which nothing has written to before setProcState.
CreateForm ==
    /\ ~ hasForm
    /\ hasForm' = TRUE /\ hSettingForm' = "form"
    /\ \/ /\ IsSample
          /\ shown' = Designed /\ enabled' = TRUE /\ untold' = TRUE
       \/ /\ IsDecoder
          /\ shown' = values
          /\ enabled' \in IF bStateProc = "junk" THEN BOOLEAN ELSE {~ Running}
          /\ untold' = (bStateProc = "junk")
    /\ UNCHANGED <<const, ifaceProc, rows, behind, bStateProc, procVars, hostVars, counters,
                   lost, history>>

\* The sample keeps the handle of the window that is gone.
DestroyForm ==
    /\ hasForm
    /\ hasForm' = FALSE /\ hSettingForm' = IF IsSample THEN "gone" ELSE "null"
    /\ shown' = NoShown /\ rows' = << >> /\ enabled' = FALSE
    /\ untold' = FALSE /\ behind' = FALSE
    /\ meant' = [meant EXCEPT !.form = Nobody]
    /\ meantRows' = [meantRows EXCEPT !.form = << >>]
    /\ UNCHANGED <<const, ifaceProc, bStateProc, procVars, hostVars, counters, lost>>

\* Seeded fault: the controls first, then bStateProc, which says how they are.
setProcStateSwapped(s) ==
    /\ bStateProc' = IF s THEN "on" ELSE "off"
    /\ enabled' = IF ~ hasForm \/ IsSample THEN hasForm /\ ~ s ELSE ~ Running
    /\ untold' = FALSE
    /\ UNCHANGED <<const, ifaceProc, hasForm, hSettingForm, shown, rows, behind, procVars,
                   hostVars, counters, lost, history>>

setProcState(s) ==
    /\ bStateProc' = IF s THEN "on" ELSE "off"
    /\ enabled' = (hasForm /\ ~ s)
    /\ untold' = FALSE
    /\ UNCHANGED <<const, ifaceProc, hasForm, hSettingForm, shown, rows, behind, procVars,
                   hostVars, counters, lost, history>>

\* The user of the sample, whose list cannot be edited.
Edit(v) ==
    /\ ~ WithData /\ IsSample /\ hasForm /\ enabled
    /\ shown' = v /\ meant' = [meant EXCEPT !.form = v]
    /\ UNCHANGED <<const, ifaceProc, hasForm, hSettingForm, rows, enabled, untold, behind,
                   bStateProc, procVars, hostVars, counters, lost, meantRows>>

\* A filter: all of the form is shown anew (288).
ClickFilter(f) ==
    /\ ~ WithData /\ IsDecoder /\ hasForm /\ enabled
    /\ values' = [values EXCEPT !.filter = f]
    /\ shown' = values' /\ behind' = FALSE
    /\ meant' = [meant EXCEPT !.proc.filter = f]
    /\ UNCHANGED <<const, ifaceProc, hasForm, hSettingForm, rows, enabled, untold, bStateProc,
                   dynParams, told, hostVars, counters, lost, meantRows>>

\* The check box: it alone is read.
ClickCoordinates ==
    /\ ~ WithData /\ IsDecoder /\ hasForm /\ enabled
    /\ shown' = [shown EXCEPT !.coordinatesOnly = ~ @]
    /\ values' = [values EXCEPT !.coordinatesOnly = shown'.coordinatesOnly]
    /\ meant' = [meant EXCEPT !.proc.coordinatesOnly = shown'.coordinatesOnly]
    /\ UNCHANGED <<const, ifaceProc, hasForm, hSettingForm, rows, enabled, untold, behind,
                   bStateProc, dynParams, told, hostVars, counters, lost, meantRows>>
------------------------------------------------------------------------------
(***************************************************************************)
(* Settings to the host.                                                   *)
(***************************************************************************)
Defaults == IF IsSample THEN [str |-> "Line", bool |-> FALSE, int |-> 0] ELSE AllSentences
DefaultRows == IF IsSample THEN <<[str |-> "Line", bool |-> TRUE, int |-> 0]>> ELSE << >>

\* The structures that the module is given; the plug-in clears them itself.
GivenSets == IF careful \/ IsDecoder THEN clearModulesSettings(sets) ELSE sets
GivenOpts == IF careful \/ IsDecoder THEN clearModulesOptions(opts) ELSE opts

getDefaultModuleParams ==
    /\ ~ WithData
    /\ IF IsSample
       THEN /\ sets' = getDefaultModuleSettings("Main settings", defaultSetting)
            /\ opts' = [cnt |-> 1,
                        args |-> <<getDefaultModuleSettings(DEFAULT_NAME_OPTION, defaultOption)>>]
       ELSE sets' = Printed(AllSentences) /\ opts' = NoOptions
    /\ lost' = lost \cup LostBy("settings", GivenSets.params) \cup LostBy("options", GivenOpts.args)
    /\ meant' = [meant EXCEPT !.host = Defaults]
    /\ meantRows' = [meantRows EXCEPT !.host = DefaultRows]
    /\ UNCHANGED <<const, ifaceProc, formVars, bStateProc, procVars, counters>>

\* The sample's settings are on its form: without one it gives the defaults.
SampleParams ==
    LET defaults == getDefaultModuleSettings("Main settings", defaultSetting).params
        str == SetText(defaults, 1, shown.str, defaultSetting)
    IN  IF ~ hasForm THEN defaults
        ELSE setIntValue(setBoolValue(str, 2, shown.bool, defaultSetting),
                         3, shown.int, defaultSetting)

getModuleParamsSetting ==
    /\ ~ WithData /\ sets' = IF IsSample THEN [name |-> "Main settings", cnt |-> 3, params |-> SampleParams]
                           ELSE Printed(values)
    /\ lost' = lost \cup LostBy("settings", GivenSets.params)
    /\ meant' = [meant EXCEPT !.host = IF IsDecoder THEN meant.proc
                                       ELSE IF hasForm THEN meant.form ELSE Defaults]
    /\ UNCHANGED <<const, ifaceProc, formVars, bStateProc, procVars, opts, counters, meantRows>>

\* The number of a row is read from the column of the flag (297), where there
\* is "yes" or "no": it is 0.
RowRead(row) ==
    LET params == setBoolValue(SetText(defaultOption, 1, row.str, defaultOption),
                               2, row.bool, defaultOption)
    IN  [name |-> DEFAULT_NAME_OPTION, cnt |-> 3,
         params |-> setIntValue(params, 3, 0, defaultOption)]
WithoutNumber(m) == [name \in DOMAIN m \ {"int"} |-> m[name]]

\* cnt_arg becomes 0 and args stays if there is no row to read (277-282).  From
\* here on nothing is claimed of the numbers.
getModuleParamsOptions ==
    /\ ~ WithData /\ opts' = [cnt |-> Len(rows),
                args |-> IF IsDecoder THEN << >>
                         ELSE IF Len(rows) = 0 THEN GivenOpts.args
                         ELSE [i \in DOMAIN rows |-> RowRead(rows[i])]]
    /\ lost' = lost \cup LostBy("options", GivenOpts.args)
    /\ meantRows' = [meantRows EXCEPT !.host =
                        [i \in DOMAIN meantRows.form |-> WithoutNumber(meantRows.form[i])]]
    /\ UNCHANGED <<const, ifaceProc, formVars, bStateProc, procVars, sets, counters, meant>>
------------------------------------------------------------------------------
(***************************************************************************)
(* Settings to the module.                                                 *)
(***************************************************************************)
Params == SubSeq(sets.params, 1, sets.cnt)
Args   == SubSeq(opts.args, 1, opts.cnt)
MeantUnlessNone(old) == IF sets.cnt = 0 THEN old ELSE meant.host

\* Without a form the sample forgets what it is told.
setGuiModuleSettings ==
    /\ ~ WithData
    /\ \/ /\ IsSample
          /\ shown' = IF hasForm THEN Filled(shown, Params, defaultSetting) ELSE shown
          /\ meant' = IF hasForm THEN [meant EXCEPT !.form = MeantUnlessNone(@)] ELSE meant
          /\ UNCHANGED <<values, behind>>
       \/ /\ IsDecoder
          /\ values' = Applied(values, Params)
          /\ shown' = IF hasForm THEN values' ELSE shown
          /\ meant' = [meant EXCEPT !.proc = MeantUnlessNone(@)]
          /\ behind' = FALSE
    /\ UNCHANGED <<const, ifaceProc, hasForm, hSettingForm, rows, enabled, untold, bStateProc,
                   dynParams, told, hostVars, counters, lost, meantRows>>

setGuiModuleOptions ==
    /\ ~ WithData /\ IsSample /\ hasForm
    /\ rows' = RowsOf(Args)
    /\ meantRows' = [meantRows EXCEPT !.form = meantRows.host]
    /\ UNCHANGED <<const, ifaceProc, hasForm, hSettingForm, shown, enabled, untold, behind,
                   bStateProc, procVars, hostVars, counters, lost, meant>>

\* The plug-in does not show them (166).
setProcModuleSettings ==
    /\ ~ WithData /\ ~ Running
    /\ values' = IF IsSample THEN Filled(values, Params, defaultSetting)
                             ELSE Applied(values, Params)
    /\ sets' = clearModulesSettings(sets)
    /\ behind' = (IsDecoder /\ hasForm)
    /\ meant' = [meant EXCEPT !.proc = MeantUnlessNone(@), !.host = Nobody]
    /\ UNCHANGED <<const, ifaceProc, hasForm, hSettingForm, shown, rows, enabled, untold,
                   bStateProc, dynParams, told, opts, counters, lost, meantRows>>

\* The sample adds to what it has; only Free clears SDynParamVec.
setProcModuleOptions ==
    /\ ~ WithData /\ ~ Running /\ Len(told) < 2
    /\ dynParams' = IF IsSample THEN dynParams \o RowsOf(Args) ELSE dynParams
    /\ opts' = clearModulesOptions(opts)
    /\ told' = IF IsSample THEN Append(told, meantRows.host) ELSE told
    /\ meantRows' = [meantRows EXCEPT !.host = << >>]
    /\ UNCHANGED <<const, ifaceProc, formVars, bStateProc, values, sets, counters, lost, meant>>
------------------------------------------------------------------------------
(***************************************************************************)
(* Data.                                                                   *)
(***************************************************************************)
Plus(counter, l) == IF counter = Junk THEN Junk ELSE counter + l

\* Seeded fault: the error that SendDataProc returns is added.
SentUntested(result) == result

\* The plug-in adds what SendDataProc says it has taken (264), which may be an error.
Sent(result) == IF result > 0 THEN result ELSE 0

\* The sample has no test of ifaceProc and adds l, whatever SendDataProc takes.
workData(l, result) ==
    /\ WithData /\ Running /\ given < MaxData
    /\ IF IsSample THEN /\ ifaceProc
                        /\ send' = Plus(send, l)
                   ELSE send' = IF ifaceProc THEN Plus(send, Sent(result)) ELSE send
    /\ recv' = IF ifaceProc THEN Plus(recv, l) ELSE recv
    /\ given' = IF ifaceProc THEN given + l ELSE given
    /\ taken' = IF ifaceProc /\ result > 0 THEN taken + result ELSE taken
    /\ UNCHANGED <<const, ifaceProc, formVars, bStateProc, procVars, hostVars, counted, lost,
                   history>>

\* A message of the form, in a block that is the module's to free.
recvGuiData ==
    /\ WithData
    /\ lost' = IF IsSample /\ ~ ifaceProc THEN lost \cup {"message"} ELSE lost
    /\ UNCHANGED <<const, ifaceProc, formVars, bStateProc, procVars, hostVars, counters, history>>

Next ==
    \/ CreateProc \/ resetCommonParams \/ Initialize \/ Free
    \/ \E s \in Schemes[module] : LoadScheme(s)
    \/ CreateForm \/ DestroyForm
    \/ \E s \in BOOLEAN : setProcState(s)
    \/ \E v \in Edits : Edit(v)
    \/ \E f \in {"all", "nmea", "ais"} : ClickFilter(f)
    \/ ClickCoordinates
    \/ getDefaultModuleParams \/ getModuleParamsSetting \/ getModuleParamsOptions
    \/ setGuiModuleSettings \/ setGuiModuleOptions
    \/ setProcModuleSettings \/ setProcModuleOptions
    \/ \E l \in Lengths : \E result \in -1 .. l : workData(l, result)
    \/ recvGuiData

Spec == Init /\ [][Next]_vars
------------------------------------------------------------------------------
\* A row, and a list of rows, say what was meant.
AsMeant(row, m) == DOMAIN m \subseteq DOMAIN row /\ \A name \in DOMAIN m : row[name] = m[name]
AllAsMeant(rs, ms) == DOMAIN rs = DOMAIN ms /\ \A i \in DOMAIN ms : AsMeant(rs[i], ms[i])

\* What the user or a scheme last said is what is processed, and what the
\* sample's form shows: no conversion to text and back, no structure that was
\* emptied, filled again or handed over, and no form that was closed changes it.
\* Nothing is claimed of the number of an option that was fetched from the list,
\* which line 297 of BaseModuleExt.cpp reads from another column, nor of options
\* that were told twice without Free, which line 352 adds up.
RunsAsMeant ==
    /\ meant.proc # Nobody => values = meant.proc
    /\ (IsSample /\ meant.form # Nobody) => shown = meant.form
    /\ AllAsMeant(rows, meantRows.form)
    /\ told = << >> => dynParams = << >>
    /\ Len(told) = 1 => AllAsMeant(dynParams, Head(told))

\* No block gets lost in the plug-in, whatever the host does, and none in the
\* sample, if its host is careful, but for messages before CreateProc (448).
NothingLost ==
    /\ IsDecoder => lost = {}
    /\ careful => lost \subseteq {"message"}
    /\ "message" \in lost => IsSample

\* The controls are enabled just when the host does not process, so that no
\* click changes settings while they are in use; except that a form of the
\* sample is made enabled, and one of the plug-in made before any setProcState
\* is enabled or not.  The plug-in's form shows the settings in force, except
\* after setProcModuleSettings.  The handle is that of the form, if there is one.
FormFollows ==
    /\ (hasForm /\ ~ untold) => enabled = ~ Running
    /\ (hasForm /\ untold /\ IsSample) => enabled
    /\ (IsDecoder /\ hasForm /\ ~ behind) => shown = values
    /\ hasForm <=> hSettingForm = "form"

\* The counters are what the host has given and has taken since they were reset,
\* in the sample only by resetCommonParams.  Nothing is claimed of counters before
\* that, to which nothing has been written, nor of what the sample counts as sent,
\* which is what it was given and not what SendDataProc has taken.
CountersTrue ==
    counted => /\ recv = given
               /\ IsDecoder => send = taken
==============================================================================
