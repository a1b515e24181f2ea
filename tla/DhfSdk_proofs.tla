----------------------------- MODULE DhfSdk_proofs -----------------------------
(***************************************************************************)
(* For all schemes, edits and pieces of data: the form, the counters and   *)
(* the blocks of ModuleHost.  Each of the three has an invariant of its    *)
(* own, for the calls about one leave the others alone.                    *)
(*                                                                         *)
(* Then Sdk, for all arrays, lists and schemes: the comparisons; how the   *)
(* loops over an array read it; the blocks of one that takes all           *)
(* identifiers; the searches; the offsets.                                 *)
(*                                                                         *)
(* Then, for all schemes and edits and every width of int, the settings of *)
(* ModuleHost: what is read of texts, what is written to them, and how     *)
(* both are handed on.                                                     *)
(***************************************************************************)
EXTENDS ModuleHost, Sdk, NumberLemmas, SequenceTheorems, TLAPS

Which ==
    /\ module \in {"sample", "decoder"}
    /\ host \in {"data", "careful", "careless"}

\* The form, its handle and its controls.
Form ==
    /\ hasForm \in BOOLEAN /\ hSettingForm \in {"null", "form", "gone"}
    /\ enabled \in BOOLEAN /\ untold \in BOOLEAN /\ behind \in BOOLEAN
    /\ bStateProc \in {"junk", "on", "off"}
    /\ FormFollows

\* The counters and what they are compared with.
Counters ==
    /\ ifaceProc \in BOOLEAN /\ counted \in BOOLEAN
    /\ recv \in Nat \cup {Junk} /\ send \in Nat \cup {Junk}
    /\ given \in Nat /\ taken \in Nat
    /\ CountersTrue

\* A structure that counts nothing points to nothing, unless a careless host has
\* given it to the sample: so clearing, which goes by the count, frees all.
Blocks ==
    /\ lost \subseteq {"settings", "options", "message"}
    /\ sets = [name |-> sets.name, cnt |-> sets.cnt, params |-> sets.params]
    /\ opts = [cnt |-> opts.cnt, args |-> opts.args]
    /\ IsDecoder \/ careful => IsFilledSettings(sets) /\ IsFilledOptions(opts)
    /\ NothingLost

IInv == Which /\ Form /\ Counters /\ Blocks
------------------------------------------------------------------------------
LEMMA WhichStep ==
    ASSUME Which, [Next]_vars
    PROVE  Which' /\ module' = module /\ host' = host
<1>1. UNCHANGED const
  BY DEF Next, vars, CreateProc, resetCommonParams, Initialize, Free, LoadScheme,
         CreateForm, DestroyForm, setProcState, Edit, ClickFilter, ClickCoordinates,
         getDefaultModuleParams, getModuleParamsSetting, getModuleParamsOptions,
         setGuiModuleSettings, setGuiModuleOptions, setProcModuleSettings,
         setProcModuleOptions, workData, recvGuiData
<1> QED BY <1>1 DEF const, Which
------------------------------------------------------------------------------
(***************************************************************************)
(* The form.                                                               *)
(***************************************************************************)
LEMMA FormInit == Init => Form
BY DEF Init, Form, FormFollows, Running, IsSample, IsDecoder

LEMMA FormStep ==
    ASSUME Which, Form, [Next]_vars
    PROVE  Form'
<1>1. Which' /\ module' = module
  BY WhichStep
<1>2. CASE UNCHANGED <<formVars, bStateProc, values>>
  BY <1>1, <1>2 DEF formVars, Form, FormFollows, Running, IsSample, IsDecoder
<1>3. CASE CreateForm
  BY <1>1, <1>3 DEF CreateForm, procVars, Which, Form, FormFollows, Running, IsSample, IsDecoder
<1>4. CASE DestroyForm
  BY <1>1, <1>4 DEF DestroyForm, procVars, Which, Form, FormFollows, Running, IsSample, IsDecoder
<1>5. ASSUME NEW s \in BOOLEAN, setProcState(s)
      PROVE  Form'
  BY <1>1, <1>5 DEF setProcState, procVars, Form, FormFollows, Running, IsSample, IsDecoder
<1>6. ASSUME NEW v \in Edits, Edit(v)
      PROVE  Form'
  BY <1>1, <1>6 DEF Edit, procVars, Which, Form, FormFollows, Running, IsSample, IsDecoder
<1>7. ASSUME NEW f \in {"all", "nmea", "ais"}, ClickFilter(f)
      PROVE  Form'
  BY <1>1, <1>7 DEF ClickFilter, Form, FormFollows, Running, IsSample, IsDecoder
<1>8. CASE ClickCoordinates
  <2>1. /\ UNCHANGED <<hasForm, hSettingForm, enabled, untold, behind, bStateProc>>
        /\ hasForm
        /\ shown' = [shown EXCEPT !.coordinatesOnly = ~ @]
        /\ values' = [values EXCEPT !.coordinatesOnly = shown'.coordinatesOnly]
    BY <1>8 DEF ClickCoordinates
  <2>2. shown = values => shown' = values'
    BY <2>1
  <2>3. IsDecoder /\ ~ behind => shown' = values'
    BY <2>1, <2>2 DEF Form, FormFollows
  <2> QED BY <1>1, <2>1, <2>3 DEF Form, FormFollows, Running, IsSample, IsDecoder
<1>9. CASE setGuiModuleSettings
  BY <1>1, <1>9 DEF setGuiModuleSettings, Which, Form, FormFollows, Running, IsSample, IsDecoder
<1>10. CASE setProcModuleSettings
  BY <1>1, <1>10 DEF setProcModuleSettings, Which, Form, FormFollows, Running, IsSample, IsDecoder
<1>11. CASE setGuiModuleOptions
  BY <1>1, <1>11 DEF setGuiModuleOptions, procVars, Form, FormFollows, Running, IsSample, IsDecoder
<1> QED
  BY <1>2, <1>3, <1>4, <1>5, <1>6, <1>7, <1>8, <1>9, <1>10, <1>11
     DEF Next, vars, procVars, CreateProc, resetCommonParams, Initialize, Free, LoadScheme,
         getDefaultModuleParams, getModuleParamsSetting, getModuleParamsOptions,
         setProcModuleOptions, workData, recvGuiData
------------------------------------------------------------------------------
(***************************************************************************)
(* The counters.                                                           *)
(***************************************************************************)
LEMMA CountersInit == Init => Counters
<1> SUFFICES ASSUME Init PROVE Counters
  OBVIOUS
<1>1. ifaceProc = FALSE /\ counted = FALSE /\ given = 0 /\ taken = 0
  BY DEF Init
<1>2. recv = Junk /\ send = Junk
  BY DEF Init
<1> HIDE DEF Junk
<1> QED BY <1>1, <1>2 DEF Counters, CountersTrue

LEMMA CountersStep ==
    ASSUME Which, Counters, [Next]_vars
    PROVE  Counters'
<1>1. module' = module
  BY WhichStep
<1>2. CASE UNCHANGED <<counters, ifaceProc>>
  BY <1>1, <1>2 DEF counters, Counters, CountersTrue, IsDecoder
<1>3. CASE CreateProc
  BY <1>1, <1>3 DEF CreateProc, counters, Counters, CountersTrue, IsDecoder
<1>4. CASE Reset /\ UNCHANGED ifaceProc
  BY <1>1, <1>4 DEF Reset, Counters, CountersTrue, IsDecoder
<1>5. ASSUME NEW l \in Lengths, NEW answer \in -1 .. l, workData(l, answer)
      PROVE  Counters'
  <2>1. l \in Nat /\ answer \in Int
    BY HostAssumption
  <2>2. UNCHANGED <<ifaceProc, counted>>
    BY <1>5 DEF workData
  <2>3. CASE ~ ifaceProc
    <3>1. UNCHANGED <<recv, send, given, taken>>
      BY <1>5, <2>3 DEF workData
    <3> QED BY <1>1, <2>2, <3>1 DEF Counters, CountersTrue, IsDecoder
  <2>4. CASE ifaceProc
    <3>1. /\ recv' = Plus(recv, l) /\ given' = given + l
          /\ taken' = taken + Sent(answer)
          /\ send' = Plus(send, IF IsSample THEN l ELSE Sent(answer))
      BY <1>5, <2>1, <2>4 DEF workData, Sent, Counters
    <3>2. Sent(answer) \in Nat
      BY <2>1 DEF Sent
    <3>3. /\ IsDecoder' = IsDecoder
          /\ IsDecoder => send' = Plus(send, Sent(answer))
      BY <1>1, <3>1 DEF IsDecoder, IsSample
    <3>4. /\ recv' \in Nat \cup {Junk} /\ send' \in Nat \cup {Junk}
          /\ given' \in Nat /\ taken' \in Nat
      BY <2>1, <3>1, <3>2 DEF Counters, Plus, Junk
    <3>5. CountersTrue'
      BY <2>1, <2>2, <3>1, <3>2, <3>3 DEF Counters, CountersTrue, Plus, Junk
    <3> QED BY <2>2, <3>4, <3>5 DEF Counters
  <2> QED BY <2>3, <2>4 DEF Counters
<1> QED
  BY <1>2, <1>3, <1>4, <1>5
     DEF Next, vars, counters, resetCommonParams, Initialize, Free, LoadScheme,
         CreateForm, DestroyForm, setProcState, Edit, ClickFilter, ClickCoordinates,
         getDefaultModuleParams, getModuleParamsSetting, getModuleParamsOptions,
         setGuiModuleSettings, setGuiModuleOptions, setProcModuleSettings,
         setProcModuleOptions, recvGuiData
------------------------------------------------------------------------------
(***************************************************************************)
(* Blocks.                                                                 *)
(***************************************************************************)
\* A structure that is written as one, and is filled if what it counts is there.
LEMMA SettingsOf ==
    ASSUME NEW n, NEW c, NEW p, NEW s, s = [name |-> n, cnt |-> c, params |-> p]
    PROVE  /\ s = [name |-> s.name, cnt |-> s.cnt, params |-> s.params]
           /\ (c = 0 => p = << >>) => IsFilledSettings(s)
<1>1. s.name = n /\ s.cnt = c /\ s.params = p
  OBVIOUS
<1> QED BY <1>1 DEF IsFilledSettings

LEMMA SettingsWritten ==
    ASSUME NEW s, NEW n, NEW c \in {2, 3}, NEW p, s = [name |-> n, cnt |-> c, params |-> p]
    PROVE  /\ s = [name |-> s.name, cnt |-> s.cnt, params |-> s.params]
           /\ IsFilledSettings(s)
<1>1. c # 0
  OBVIOUS
<1> QED BY <1>1, SettingsOf

LEMMA OptionsOf ==
    ASSUME NEW c, NEW a, NEW o, o = [cnt |-> c, args |-> a]
    PROVE  /\ o = [cnt |-> o.cnt, args |-> o.args]
           /\ (c = 0 => a = << >>) => IsFilledOptions(o)
<1>1. o.cnt = c /\ o.args = a
  OBVIOUS
<1> QED BY <1>1 DEF IsFilledOptions

LEMMA SettingsCleared ==
    ASSUME NEW s, s = [name |-> s.name, cnt |-> s.cnt, params |-> s.params]
    PROVE  LET c == clearModulesSettings(s)
           IN  /\ c = [name |-> c.name, cnt |-> c.cnt, params |-> c.params]
               /\ IsFilledSettings(s) => IsFilledSettings(c) /\ c.params = << >>
<1>1. CASE s.cnt = 0
  BY <1>1 DEF clearModulesSettings, IsFilledSettings
<1>2. CASE s.cnt # 0
  <2>1. clearModulesSettings(s) = [s EXCEPT !.cnt = 0, !.params = << >>]
    BY <1>2 DEF clearModulesSettings
  <2>2. clearModulesSettings(s) = [name |-> s.name, cnt |-> 0, params |-> << >>]
    BY <2>1
  <2> QED BY <2>2 DEF IsFilledSettings
<1> QED BY <1>1, <1>2

LEMMA OptionsCleared ==
    ASSUME NEW o, o = [cnt |-> o.cnt, args |-> o.args]
    PROVE  LET c == clearModulesOptions(o)
           IN  /\ c = [cnt |-> c.cnt, args |-> c.args]
               /\ IsFilledOptions(o) => IsFilledOptions(c) /\ c.args = << >>
<1>1. CASE o.cnt = 0
  BY <1>1 DEF clearModulesOptions, IsFilledOptions
<1>2. CASE o.cnt # 0
  <2>1. clearModulesOptions(o) = [o EXCEPT !.cnt = 0, !.args = << >>]
    BY <1>2 DEF clearModulesOptions
  <2>2. clearModulesOptions(o) = [cnt |-> 0, args |-> << >>]
    BY <2>1
  <2> QED BY <2>2 DEF IsFilledOptions
<1> QED BY <1>1, <1>2

\* What the plug-in and a careful host give to a module to be filled is empty.
LEMMA GivenIsEmpty ==
    ASSUME Which, Blocks
    PROVE  /\ IsDecoder \/ careful => GivenSets.params = << >> /\ GivenOpts.args = << >>
           /\ LostBy("settings", GivenSets.params) \subseteq {"settings"}
           /\ LostBy("options", GivenOpts.args) \subseteq {"options"}
           /\ IsDecoder \/ careful => /\ LostBy("settings", GivenSets.params) = {}
                                      /\ LostBy("options", GivenOpts.args) = {}
<1>1. IsDecoder \/ careful => GivenSets.params = << >> /\ GivenOpts.args = << >>
  BY SettingsCleared, OptionsCleared DEF Blocks, GivenSets, GivenOpts
<1> QED BY <1>1 DEF LostBy

LEMMA BlocksInit == Init => Blocks
<1> SUFFICES ASSUME Init PROVE Blocks
  OBVIOUS
<1>1. lost = {}
  BY DEF Init
<1>2. sets = [name |-> "", cnt |-> 0, params |-> << >>]
  BY DEF Init, NoSettings
<1>3. /\ sets = [name |-> sets.name, cnt |-> sets.cnt, params |-> sets.params]
      /\ IsFilledSettings(sets)
  BY <1>2, SettingsOf
<1>4. opts = [cnt |-> 0, args |-> << >>]
  BY DEF Init, NoOptions
<1>5. /\ opts = [cnt |-> opts.cnt, args |-> opts.args]
      /\ IsFilledOptions(opts)
  BY <1>4, OptionsOf
<1> QED BY <1>1, <1>3, <1>5 DEF Blocks, NothingLost

\* Nothing more is lost by what fills empty structures.
LEMMA FillingLosesNothing ==
    ASSUME Which, Blocks, UNCHANGED const,
           NEW more, more \subseteq {"settings", "options"},
           IsDecoder \/ careful => more = {},
           lost' = lost \cup more
    PROVE  NothingLost' /\ lost' \subseteq {"settings", "options", "message"}
BY DEF Which, Blocks, NothingLost, const, IsDecoder, IsSample, careful

LEMMA BlocksStep ==
    ASSUME Which, Blocks, [Next]_vars
    PROVE  Blocks'
<1>1. UNCHANGED const
  BY WhichStep DEF const
<1>2. NothingLost' /\ lost' \subseteq {"settings", "options", "message"}
  <2>1. CASE lost' = lost
    BY <1>1, <2>1 DEF Blocks, NothingLost, const, IsDecoder, IsSample, careful
  <2>2. CASE getDefaultModuleParams
    <3>1. lost' = lost \cup (LostBy("settings", GivenSets.params)
                               \cup LostBy("options", GivenOpts.args))
      BY <2>2 DEF getDefaultModuleParams
    <3> QED BY <1>1, <3>1, GivenIsEmpty, FillingLosesNothing
  <2>3. CASE getModuleParamsSetting
    <3>1. lost' = lost \cup LostBy("settings", GivenSets.params)
      BY <2>3 DEF getModuleParamsSetting
    <3> QED BY <1>1, <3>1, GivenIsEmpty, FillingLosesNothing
  <2>4. CASE getModuleParamsOptions
    <3>1. lost' = lost \cup LostBy("options", GivenOpts.args)
      BY <2>4 DEF getModuleParamsOptions
    <3> QED BY <1>1, <3>1, GivenIsEmpty, FillingLosesNothing
  <2>5. CASE recvGuiData
    <3>1. /\ host = "data"
          /\ lost' = IF IsSample /\ ~ ifaceProc THEN lost \cup {"message"} ELSE lost
      BY <2>5 DEF recvGuiData, WithData
    <3> QED BY <1>1, <3>1 DEF Which, Blocks, NothingLost, const, IsDecoder, IsSample, careful
  <2> QED
    BY <2>1, <2>2, <2>3, <2>4, <2>5
       DEF Next, vars, CreateProc, resetCommonParams, Initialize, Free, LoadScheme,
           CreateForm, DestroyForm, setProcState, Edit, ClickFilter, ClickCoordinates,
           setGuiModuleSettings, setGuiModuleOptions, setProcModuleSettings,
           setProcModuleOptions, workData
<1>3. /\ sets' = [name |-> sets'.name, cnt |-> sets'.cnt, params |-> sets'.params]
      /\ IsDecoder \/ careful => IsFilledSettings(sets')
  <2>1. CASE sets' = sets
    BY <2>1 DEF Blocks
  <2>2. ASSUME NEW s \in Schemes[module], LoadScheme(s)
        PROVE  sets' = s.sets /\ IsFilledSettings(s.sets)
    BY <2>2, HostAssumption DEF LoadScheme, Which
  <2>3. CASE getDefaultModuleParams
    <3>1. CASE IsSample
      <4>1. sets' = [name |-> "Main settings", cnt |-> Len(defaultSetting), params |-> defaultSetting]
        BY <2>3, <3>1 DEF getDefaultModuleParams, getDefaultModuleSettings
      <4>2. Len(defaultSetting) # 0
        BY DEF defaultSetting
      <4> HIDE DEF defaultSetting
      <4> QED BY <4>1, <4>2, SettingsOf
    <3>2. CASE ~ IsSample
      <4>1. PICK p : sets' = [name |-> "NMEA decoder settings", cnt |-> 2, params |-> p]
        BY <2>3, <3>2 DEF getDefaultModuleParams, Printed
      <4> QED BY <4>1, SettingsWritten
    <3> QED BY <3>1, <3>2
  <2>4. CASE getModuleParamsSetting
    <3>1. \/ \E p : sets' = [name |-> "Main settings", cnt |-> 3, params |-> p]
          \/ \E p : sets' = [name |-> "NMEA decoder settings", cnt |-> 2, params |-> p]
      BY <2>4 DEF getModuleParamsSetting, Printed
    <3> QED BY <3>1, SettingsWritten
  <2>5. CASE setProcModuleSettings
    <3>1. sets' = clearModulesSettings(sets)
      BY <2>5 DEF setProcModuleSettings
    <3> QED BY <3>1, SettingsCleared DEF Blocks
  <2> QED
    BY <2>1, <2>2, <2>3, <2>4, <2>5
       DEF IsFilledSettings, Next, vars, hostVars, CreateProc, resetCommonParams, Initialize, Free,
           CreateForm, DestroyForm, setProcState, Edit, ClickFilter, ClickCoordinates,
           getModuleParamsOptions, setGuiModuleSettings, setGuiModuleOptions,
           setProcModuleOptions, workData, recvGuiData
<1>4. /\ opts' = [cnt |-> opts'.cnt, args |-> opts'.args]
      /\ IsDecoder \/ careful => IsFilledOptions(opts')
  <2>1. CASE opts' = opts
    BY <2>1 DEF Blocks
  <2>2. ASSUME NEW s \in Schemes[module], LoadScheme(s)
        PROVE  opts' = s.opts /\ IsFilledOptions(s.opts)
    BY <2>2, HostAssumption DEF LoadScheme, Which
  <2>3. CASE getDefaultModuleParams
    <3>1. CASE IsSample
      <4>1. PICK a : opts' = [cnt |-> 1, args |-> a]
        BY <2>3, <3>1 DEF getDefaultModuleParams
      <4> QED BY <4>1, OptionsOf
    <3>2. CASE ~ IsSample
      <4>1. opts' = [cnt |-> 0, args |-> << >>]
        BY <2>3, <3>2 DEF getDefaultModuleParams, NoOptions
      <4> QED BY <4>1, OptionsOf
    <3> QED BY <3>1, <3>2
  <2>4. CASE getModuleParamsOptions
    <3>1. PICK a : opts' = [cnt |-> Len(rows), args |-> a]
      BY <2>4 DEF getModuleParamsOptions
    <3>2. ASSUME IsDecoder \/ careful, Len(rows) = 0 PROVE opts'.args = << >>
      BY <2>4, <3>2, GivenIsEmpty DEF getModuleParamsOptions
    <3>3. opts'.args = a
      BY <3>1
    <3> QED BY <3>1, <3>2, <3>3, OptionsOf
  <2>5. CASE setProcModuleOptions
    <3>1. opts' = clearModulesOptions(opts)
      BY <2>5 DEF setProcModuleOptions
    <3> QED BY <3>1, OptionsCleared DEF Blocks
  <2> QED
    BY <2>1, <2>2, <2>3, <2>4, <2>5
       DEF IsFilledOptions, Next, vars, hostVars, CreateProc, resetCommonParams, Initialize, Free,
           CreateForm, DestroyForm, setProcState, Edit, ClickFilter, ClickCoordinates,
           getModuleParamsSetting, setGuiModuleSettings, setGuiModuleOptions,
           setProcModuleSettings, workData, recvGuiData
<1>5. (IsDecoder \/ careful)' = (IsDecoder \/ careful)
  BY <1>1 DEF const, IsDecoder, careful
<1> QED BY <1>2, <1>3, <1>4, <1>5 DEF Blocks, IsFilledSettings, IsFilledOptions
------------------------------------------------------------------------------
THEOREM InductiveInvariant == Spec => []IInv
<1>1. Init => IInv
  <2>1. Init => Which
    BY DEF Init, Which
  <2> QED BY <2>1, FormInit, CountersInit, BlocksInit DEF IInv
<1>2. IInv /\ [Next]_vars => IInv'
  BY WhichStep, FormStep, CountersStep, BlocksStep DEF IInv
<1> QED BY <1>1, <1>2, PTL DEF Spec

\* FormFollows: whatever is called in which order, the handle the host has is
\* that of the form, its controls are enabled just when nothing is processed,
\* and the plug-in's form shows what is in force, with the exceptions it names.
THEOREM FormIsRight == Spec => []FormFollows
<1>1. IInv => FormFollows
  BY DEF IInv, Form
<1> QED BY <1>1, InductiveInvariant, PTL

\* CountersTrue: since their last reset the bytes received are the sum of what the
\* host has given, and in the plug-in the bytes sent that of what it has taken,
\* however long the pieces and their number, and whatever SendDataProc answers.
THEOREM CountersAreRight == Spec => []CountersTrue
<1>1. IInv => CountersTrue
  BY DEF IInv, Counters
<1> QED BY <1>1, InductiveInvariant, PTL

\* NothingLost: no order of the calls that fill, read and clear the structures
\* of the host, and no scheme that it loads into them, makes the plug-in, or the
\* sample of a careful host, overwrite a pointer that is still in use.
THEOREM BlocksAreKept == Spec => []NothingLost
<1>1. IInv => NothingLost
  BY DEF IInv, Blocks
<1> QED BY <1>1, InductiveInvariant, PTL
------------------------------------------------------------------------------
(***************************************************************************)
(* The comparisons of ConfigXMLMethods.h.                                  *)
(***************************************************************************)
\* Two arrays of the same length with the same elements are the same.
LEMMA SameArrays ==
    ASSUME NEW n \in Nat, NEW f, NEW g,
           f = [i \in 1 .. n |-> f[i]], g = [i \in 1 .. n |-> g[i]],
           \A i \in 1 .. n : f[i] = g[i]
    PROVE  f = g
OBVIOUS

LEMMA SettingsCompared ==
    ASSUME NEW s, NEW t, IsWholeSettings(s), IsWholeSettings(t)
    PROVE  compareSettings(s, t) <=> s # t
<1>1. ASSUME ~ compareSettings(s, t) PROVE s = t
  <2>1. s.name = t.name /\ s.cnt = t.cnt
    BY <1>1 DEF compareSettings
  <2>2. ASSUME NEW i \in 1 .. s.cnt PROVE s.params[i] = t.params[i]
    <3>1. /\ s.params[i].name = t.params[i].name
          /\ s.params[i].value = t.params[i].value
      BY <1>1 DEF compareSettings, ParamsDiffer
    <3>2. IsParam(s.params[i]) /\ IsParam(t.params[i])
      BY <2>1 DEF IsWholeSettings
    <3> QED BY <3>1, <3>2 DEF IsParam
  <2>3. s.params = t.params
    <3>1. /\ s.cnt \in Nat
          /\ s.params = [i \in 1 .. s.cnt |-> s.params[i]]
          /\ t.params = [i \in 1 .. s.cnt |-> t.params[i]]
      BY <2>1 DEF IsWholeSettings
    <3> QED BY <2>2, <3>1, SameArrays
  <2> QED BY <2>1, <2>3 DEF IsWholeSettings
<1>2. ASSUME s = t PROVE ~ compareSettings(s, t)
  BY <1>2 DEF compareSettings, ParamsDiffer
<1> QED BY <1>1, <1>2

LEMMA OptionsCompared ==
    ASSUME NEW o, NEW q, IsWholeOptions(o), IsWholeOptions(q)
    PROVE  compareOptions(o, q) <=> o # q
<1>1. ASSUME ~ compareOptions(o, q) PROVE o = q
  <2>1. o.cnt = q.cnt
    BY <1>1 DEF compareOptions
  <2>2. ASSUME NEW i \in 1 .. o.cnt PROVE o.args[i] = q.args[i]
    <3>1. ~ compareSettings(o.args[i], q.args[i])
      BY <1>1 DEF compareOptions
    <3>2. IsWholeSettings(o.args[i]) /\ IsWholeSettings(q.args[i])
      BY <2>1 DEF IsWholeOptions
    <3> QED BY <3>1, <3>2, SettingsCompared
  <2>3. o.args = q.args
    <3>1. /\ o.cnt \in Nat
          /\ o.args = [i \in 1 .. o.cnt |-> o.args[i]]
          /\ q.args = [i \in 1 .. o.cnt |-> q.args[i]]
      BY <2>1 DEF IsWholeOptions
    <3> QED BY <2>2, <3>1, SameArrays
  <2> QED BY <2>1, <2>3 DEF IsWholeOptions
<1>2. ASSUME o = q PROVE ~ compareOptions(o, q)
  <2>1. ASSUME NEW i \in 1 .. o.cnt PROVE ~ compareSettings(o.args[i], o.args[i])
    BY SettingsCompared DEF IsWholeOptions
  <2> QED BY <1>2, <2>1 DEF compareOptions
<1> QED BY <1>1, <1>2

LEMMA ContentsCompared ==
    ASSUME NEW m, NEW k, IsModuleInfo(m), IsModuleInfo(k),
           m.uid = k.uid, m.name = k.name, m.position = k.position
    PROVE  ContentsDiffer(m, k) <=> m # k
<1>1. /\ compareSettings(m.settings, k.settings) <=> m.settings # k.settings
      /\ compareOptions(m.options, k.options) <=> m.options # k.options
  BY SettingsCompared, OptionsCompared DEF IsModuleInfo
<1>2. m.settings = k.settings /\ m.options = k.options => m = k
  BY DEF IsModuleInfo
<1> QED BY <1>1, <1>2 DEF ContentsDiffer

\* A list without repetitions has as many elements as its length.
LEMMA DistinctCounted ==
    ASSUME NEW S, NEW a \in Seq(S), IsInjective(a)
    PROVE  IsFiniteSet(Range(a)) /\ Cardinality(Range(a)) = Len(a)
<1>1. Len(a) \in Nat /\ DOMAIN a = 1 .. Len(a) /\ a = [i \in 1 .. Len(a) |-> a[i]]
  OBVIOUS
<1>2. a \in Bijection(1 .. Len(a), Range(a))
  BY <1>1 DEF Bijection, Injection, Surjection, IsInjective, Range
<1>3. IsFiniteSet(1 .. Len(a)) /\ Cardinality(1 .. Len(a)) = Len(a)
  <2>1. \A n \in Nat : IsFiniteSet(1 .. n) /\ Cardinality(1 .. n) = IF 1 > n THEN 0 ELSE n - 1 + 1
    BY FS_Interval
  <2> QED BY <1>1, <2>1
<1> QED BY <1>2, <1>3, FS_Bijection DEF ExistsBijection

\* One list has all of another that is as long and has no repetitions.
LEMMA AllOfTheOther ==
    ASSUME NEW S, NEW a \in Seq(S), NEW b \in Seq(S), IsInjective(a), IsInjective(b)
    PROVE  Range(a) = Range(b) <=> Len(a) = Len(b) /\ \A i \in DOMAIN a : a[i] \in Range(b)
<1>1. /\ IsFiniteSet(Range(a)) /\ Cardinality(Range(a)) = Len(a)
      /\ IsFiniteSet(Range(b)) /\ Cardinality(Range(b)) = Len(b)
  BY DistinctCounted
<1>2. \A i \in DOMAIN a : a[i] \in Range(a)
  BY DEF Range
<1>3. ASSUME Len(a) = Len(b), \A i \in DOMAIN a : a[i] \in Range(b)
      PROVE  Range(a) = Range(b)
  <2>1. Range(a) \in SUBSET Range(b)
    BY <1>3 DEF Range
  <2> QED BY <1>1, <1>3, <2>1, FS_Subset
<1> QED BY <1>1, <1>2, <1>3

\* compareLinks, which looks for each link of the first list in the second and not
\* the other way round, notices each change of a list of links, and nothing else.
THEOREM LinksCompared ==
    ASSUME NEW S, NEW a \in Seq(S), NEW b \in Seq(S), IsInjective(a), IsInjective(b)
    PROVE  compareLinks(a, b) <=> Range(a) # Range(b)
BY AllOfTheOther DEF compareLinks

\* Of the modules of the second list at most one is the same as one of the first.
LEMMA OneDecides ==
    ASSUME NEW S, NEW a \in Seq(S), NEW b \in Seq(S), Len(a) = Len(b), DistinctUids(b)
    PROVE  compareModules(a, b) <=>
             \E i \in DOMAIN a : \A k \in DOMAIN b :
               IsSame(a, i, b, k) => ContentsDiffer(a[i], b[k])
<1>1. DOMAIN a = 1 .. Len(a) /\ DOMAIN b = 1 .. Len(a) /\ Len(a) \in Nat
  OBVIOUS
<1> DEFINE same(i) == {k \in 1 .. Len(a) : IsSame(a, i, b, k)}
           found(i) == IF same(i) # {} THEN Min(same(i)) ELSE 0
<1>2. ASSUME NEW i \in DOMAIN a
      PROVE  SelectInSeq([k \in DOMAIN b |-> k], LAMBDA k : IsSame(a, i, b, k)) = found(i)
  <2>1. Len([k \in DOMAIN b |-> k]) = Len(a)
    BY <1>1
  <2> QED BY <1>1, <2>1 DEF SelectInSeq
<1>3. ASSUME NEW i \in DOMAIN a
      PROVE  (found(i) = 0 \/ ContentsDiffer(a[i], b[found(i)])) <=>
               \A k \in DOMAIN b : IsSame(a, i, b, k) => ContentsDiffer(a[i], b[k])
  <2>1. ASSUME NEW k \in 1 .. Len(a), k \in same(i)
        PROVE  found(i) = k
    <3>1. \A j \in same(i) : j = k
      BY <1>1, <2>1 DEF IsSame, DistinctUids
    <3>2. same(i) = {k}
      BY <2>1, <3>1
    <3>3. Min({k}) = k
      BY <2>1 DEF Min
    <3> QED BY <3>2, <3>3
  <2>2. CASE same(i) = {}
    BY <1>1, <2>2
  <2>3. CASE same(i) # {}
    <3>1. PICK k \in 1 .. Len(a) : k \in same(i)
      BY <2>3
    <3>2. found(i) = k /\ found(i) # 0
      BY <2>1, <3>1
    <3>3. \A j \in 1 .. Len(a) : IsSame(a, i, b, j) => j = k
      BY <2>1, <3>1
    <3>4. IsSame(a, i, b, k)
      BY <3>1
    <3> HIDE DEF found, same
    <3> QED BY <1>1, <3>1, <3>2, <3>3, <3>4
  <2> QED BY <2>2, <2>3
<1> HIDE DEF found
<1>4. compareModules(a, b) <=>
        \E i \in DOMAIN a : found(i) = 0 \/ ContentsDiffer(a[i], b[found(i)])
  BY <1>2 DEF compareModules
<1> QED BY <1>3, <1>4

\* compareModules, although line 172 compares the names of the i-th modules instead
\* of the two at hand, notices each change of a scheme whose modules have different
\* uids, and nothing else, if they are in the same order or have the same name.
THEOREM ModulesCompared ==
    ASSUME NEW S, \A m \in S : IsModuleInfo(m),
           NEW a \in Seq(S), NEW b \in Seq(S), DistinctUids(a), DistinctUids(b),
           \/ Len(a) = Len(b) => \A i \in DOMAIN a : a[i].uid = b[i].uid
           \/ \A m1, m2 \in Range(a) \cup Range(b) : m1.name = m2.name
    PROVE  compareModules(a, b) <=> Range(a) # Range(b)
<1>1. IsInjective(a) /\ IsInjective(b)
  BY DEF DistinctUids, IsInjective
<1>2. CASE Len(a) # Len(b)
  BY <1>1, <1>2, AllOfTheOther DEF compareModules
<1>3. CASE Len(a) = Len(b)
  <2>1. /\ DOMAIN a = 1 .. Len(a) /\ DOMAIN b = 1 .. Len(a) /\ Len(a) \in Nat
        /\ \A i \in DOMAIN a : a[i] \in S /\ b[i] \in S
    BY <1>3
  <2>2. ASSUME NEW i \in DOMAIN a, NEW k \in DOMAIN b, a[i].uid = b[k].uid
        PROVE  a[i].name = b[i].name <=> a[i].name = b[k].name
    <3>1. CASE \A j \in DOMAIN a : a[j].uid = b[j].uid
      <4>1. k = i
        BY <2>1, <2>2, <3>1 DEF DistinctUids
      <4> QED BY <4>1
    <3>2. CASE \A m1, m2 \in Range(a) \cup Range(b) : m1.name = m2.name
      BY <2>1, <3>2 DEF Range
    <3> QED BY <1>3, <3>1, <3>2
  <2>3. ASSUME NEW i \in DOMAIN a
        PROVE  (\A k \in DOMAIN b : IsSame(a, i, b, k) => ContentsDiffer(a[i], b[k]))
               <=> a[i] \notin Range(b)
    <3>1. ASSUME NEW k \in DOMAIN b, a[i] = b[k]
          PROVE  IsSame(a, i, b, k) /\ ~ ContentsDiffer(a[i], b[k])
      <4>1. IsSame(a, i, b, k)
        BY <2>2, <3>1 DEF IsSame
      <4>2. ~ ContentsDiffer(a[i], a[i])
        BY <2>1, ContentsCompared
      <4> QED BY <3>1, <4>1, <4>2
    <3>2. ASSUME NEW k \in DOMAIN b, IsSame(a, i, b, k), ~ ContentsDiffer(a[i], b[k])
          PROVE  a[i] = b[k]
      <4>1. a[i].uid = b[k].uid /\ a[i].name = b[k].name /\ a[i].position = b[k].position
        BY <2>2, <3>2 DEF IsSame
      <4> QED BY <2>1, <3>2, <4>1, ContentsCompared
    <3> QED BY <3>1, <3>2 DEF Range
  <2>4. compareModules(a, b) <=> \E i \in DOMAIN a : a[i] \notin Range(b)
    BY <1>3, <2>3, OneDecides
  <2> QED BY <1>1, <1>3, <2>4, AllOfTheOther
<1> QED BY <1>2, <1>3

\* In whatever order the modules are, a change of anything but a name is noticed.
THEOREM NamelessCompared ==
    ASSUME NEW S, \A m \in S : IsModuleInfo(m),
           NEW a \in Seq(S), NEW b \in Seq(S), DistinctUids(a), DistinctUids(b),
           ~ compareModules(a, b)
    PROVE  Nameless(a) = Nameless(b)
<1> DEFINE N(m) == [uid |-> m.uid, position |-> m.position, settings |-> m.settings,
                   options |-> m.options]
           na == [i \in 1 .. Len(a) |-> N(a[i])]
           nb == [i \in 1 .. Len(a) |-> N(b[i])]
           T == {N(m) : m \in S}
<1>1. Len(a) = Len(b)
  BY DEF compareModules
<1>2. /\ DOMAIN a = 1 .. Len(a) /\ DOMAIN b = 1 .. Len(a) /\ Len(a) \in Nat
      /\ \A i \in 1 .. Len(a) : a[i] \in S /\ b[i] \in S
  BY <1>1
<1>3. \A m \in S : N(m).uid = m.uid
  OBVIOUS
<1>4. /\ na \in Seq(T) /\ nb \in Seq(T) /\ Len(na) = Len(a) /\ Len(nb) = Len(a)
      /\ DOMAIN na = 1 .. Len(a) /\ DOMAIN nb = 1 .. Len(a)
      /\ \A i \in 1 .. Len(a) : na[i] = N(a[i]) /\ nb[i] = N(b[i])
  BY <1>2
<1>5. Range(na) = Nameless(a) /\ Range(nb) = Nameless(b)
  <2>1. Nameless(a) = {N(a[i]) : i \in 1 .. Len(a)}
    BY <1>2 DEF Nameless, Range
  <2>2. Nameless(b) = {N(b[i]) : i \in 1 .. Len(a)}
    BY <1>2 DEF Nameless, Range
  <2> HIDE DEF N, na, nb
  <2> QED BY <1>4, <2>1, <2>2 DEF Range
<1> HIDE DEF N, na, nb, T
<1>6. IsInjective(na) /\ IsInjective(nb)
  BY <1>2, <1>3, <1>4 DEF DistinctUids, IsInjective
<1>7. ASSUME NEW i \in 1 .. Len(a) PROVE na[i] \in Range(nb)
  <2>1. PICK k \in 1 .. Len(a) : IsSame(a, i, b, k) /\ ~ ContentsDiffer(a[i], b[k])
    BY <1>1, <1>2, OneDecides
  <2> DEFINE m == N(a[i])
             p == N(b[k])
  <2>2. a[i] \in S /\ b[k] \in S
    BY <1>2
  <2>3. a[i].settings = b[k].settings /\ a[i].options = b[k].options
    BY <2>1, <2>2, SettingsCompared, OptionsCompared DEF ContentsDiffer, IsModuleInfo
  <2>4. N(a[i]) = N(b[k])
    BY <2>1, <2>2, <2>3 DEF IsSame, N
  <2> QED BY <1>4, <2>4 DEF Range
<1>8. Range(na) = Range(nb)
  BY <1>4, <1>6, <1>7, AllOfTheOther
<1> QED BY <1>5, <1>8
------------------------------------------------------------------------------
(***************************************************************************)
(* The helpers of Sdk.                                                     *)
(***************************************************************************)
\* What an answer to one of the comparisons is the answer to.
Compared ==
    /\ result.call = "modules" => /\ result.a \in SchemeLists /\ result.b \in SchemeLists
                                  /\ result.change = compareModules(result.a, result.b)
    /\ result.call = "links" => /\ result.a \in LinkLists /\ result.b \in LinkLists
                                /\ result.change = compareLinks(result.a, result.b)

\* What the client did last.
LEMMA CallOfStep ==
    ASSUME SdkNext
    PROVE  \/ result'.call \notin {"modules", "links"}
           \/ \E ms1, ms2 \in SchemeLists : CompareModules(ms1, ms2)
           \/ \E ls1, ls2 \in LinkLists : CompareLinks(ls1, ls2)
<1>1. ASSUME NEW a \in Arrays, Receive(a) PROVE result'.call = "none"
  BY <1>1 DEF Receive, NoCall
<1>2. ASSUME NEW t, Find(t) PROVE result'.call = "first"
  BY <1>2 DEF Find
<1>3. ASSUME NEW t, AllOff(t) PROVE result'.call = "all"
  BY <1>3 DEF AllOff
<1>4. ASSUME FindList PROVE result'.call = "list"
  BY <1>4 DEF FindList
<1>5. ASSUME FindLists PROVE result'.call = "lists"
  BY <1>5 DEF FindLists
<1>6. ASSUME SeqOne \/ SeqTwo PROVE result'.call = "seq"
  BY <1>6 DEF SeqOne, SeqTwo
<1>7. ASSUME NEW put, TakeLast(put) PROVE result'.call = "take"
  BY <1>7 DEF TakeLast
<1>8. ASSUME TakeAll PROVE result'.call = "take"
  BY <1>8 DEF TakeAll
<1>9. ASSUME Clear PROVE result'.call = "clear"
  BY <1>9 DEF Clear
<1>10. ASSUME NEW table, NEW p, Name(table, p) PROVE result'.call = "name"
  BY <1>10 DEF Name
<1>11. ASSUME Number PROVE result'.call = "number"
  BY <1>11 DEF Number
<1> QED BY <1>1, <1>2, <1>3, <1>4, <1>5, <1>6, <1>7, <1>8, <1>9, <1>10, <1>11 DEF SdkNext

\* ChangeNoticed: for all schemes and lists of links, of any number of modules,
\* parameters, arguments and links, compareModules notices each change of anything
\* but a name, and the comparisons report a change if and only if there is one, under
\* the conditions that are named.
THEOREM ChangesAreNoticed == SdkSpec => []ChangeNoticed
<1>1. SdkInit => Compared
  BY DEF SdkInit, NoCall, Compared
<1>2. Compared /\ [SdkNext]_sdkVars => Compared'
  <2> SUFFICES ASSUME Compared, [SdkNext]_sdkVars PROVE Compared'
    OBVIOUS
  <2>1. ASSUME NEW ms1 \in SchemeLists, NEW ms2 \in SchemeLists, CompareModules(ms1, ms2)
        PROVE  Compared'
    BY <2>1 DEF CompareModules, Compared
  <2>2. ASSUME NEW ls1 \in LinkLists, NEW ls2 \in LinkLists, CompareLinks(ls1, ls2)
        PROVE  Compared'
    BY <2>2 DEF CompareLinks, Compared
  <2>3. CASE result'.call \notin {"modules", "links"}
    BY <2>3 DEF Compared
  <2>4. CASE UNCHANGED sdkVars
    BY <2>4 DEF sdkVars, Compared
  <2> QED BY <2>1, <2>2, <2>3, <2>4, CallOfStep
<1>3. Compared => ChangeNoticed
  <2> SUFFICES ASSUME Compared PROVE ChangeNoticed
    OBVIOUS
  <2> DEFINE a == result.a
             b == result.b
  <2>1. CASE result.call = "modules"
    <3>1. IsScheme(a) /\ IsScheme(b) /\ result.change = compareModules(a, b)
      BY <2>1, SdkAssumption DEF Compared
    <3> DEFINE S == Range(a) \cup Range(b)
    <3>2. /\ a \in Seq(S) /\ b \in Seq(S) /\ \A m \in S : IsModuleInfo(m)
          /\ DistinctUids(a) /\ DistinctUids(b)
      BY <3>1 DEF IsScheme
    <3> HIDE DEF a, b, S
    <3>3. (\/ Len(a) = Len(b) => \A i \in DOMAIN a : a[i].uid = b[i].uid
           \/ \A m1, m2 \in Range(a) \cup Range(b) : m1.name = m2.name)
          => (compareModules(a, b) <=> Range(a) # Range(b))
      BY <3>2, ModulesCompared
    <3>4. Nameless(a) # Nameless(b) => compareModules(a, b)
      BY <3>2, NamelessCompared
    <3> QED BY <2>1, <3>1, <3>3, <3>4 DEF ChangeNoticed, a, b
  <2>2. CASE result.call = "links"
    <3>1. /\ a \in Seq(Range(a)) /\ b \in Seq(Range(b))
          /\ result.change = compareLinks(a, b)
      BY <2>2, SdkAssumption DEF Compared
    <3> DEFINE S == Range(a) \cup Range(b)
    <3>2. a \in Seq(S) /\ b \in Seq(S)
      BY <3>1
    <3> HIDE DEF a, b, S
    <3>3. IsInjective(a) /\ IsInjective(b) => (compareLinks(a, b) <=> Range(a) # Range(b))
      BY <3>2, LinksCompared
    <3> QED BY <2>2, <3>1, <3>3 DEF ChangeNoticed, a, b
  <2>3. CASE result.call \notin {"modules", "links"}
    BY <2>3 DEF ChangeNoticed
  <2> QED BY <2>1, <2>2, <2>3
<1> QED BY <1>1, <1>2, <1>3, PTL DEF SdkSpec
------------------------------------------------------------------------------
(***************************************************************************)
(* Folds.  FoldLeft is a recursive function on the sets of indices, which  *)
(* must be shown to exist; a step of the recursion is a function here.     *)
(***************************************************************************)
LEMMA MaxOf ==
    ASSUME NEW N \in Nat, NEW s \in SUBSET (1 .. N), s # {}
    PROVE  Max(s) \in s /\ \A y \in s : y <= Max(s)
<1>1. s \in SUBSET Nat /\ IsFiniteSet(s)
  <2>1. IsFiniteSet(1 .. N)
    BY FS_Interval
  <2>2. IsFiniteSet(s)
    BY <2>1, FS_Subset
  <2>3. s \in SUBSET Nat
    OBVIOUS
  <2> QED BY <2>2, <2>3
<1>2. \E x \in s : \A y \in s : x >= y
  <2>1. \E x \in s : \A y \in s : y <= x
    BY <1>1, GreatestNumber
  <2> QED BY <1>1, <2>1
<1>3. Max(s) \in s /\ \A y \in s : Max(s) >= y
  BY <1>2 DEF Max
<1> QED BY <1>1, <1>3

IsFold(g, N, S, base, step) ==
    /\ g \in [SUBSET (1 .. N) -> S]
    /\ \A s \in SUBSET (1 .. N) :
          g[s] = IF s = {} THEN base ELSE step[Max(s)][g[s \ {Max(s)}]]

LEMMA FoldExists ==
    ASSUME NEW N \in Nat, NEW S, NEW base \in S, NEW step, AreSteps(step, N, S)
    PROVE  \E g : IsFold(g, N, S, base, step)
<1> USE DEF AreSteps, IsFold
<1> DEFINE P == {m \in 0 .. N : \E g : IsFold(g, m, S, base, step)}
<1>1. 0 \in P
  <2> DEFINE g == [s \in SUBSET (1 .. 0) |-> base]
  <2>1. \A s \in SUBSET (1 .. 0) : s = {}
    OBVIOUS
  <2>2. g \in [SUBSET (1 .. 0) -> S] /\ \A s \in SUBSET (1 .. 0) : g[s] = base
    OBVIOUS
  <2> HIDE DEF g
  <2>3. IsFold(g, 0, S, base, step)
    BY <2>1, <2>2
  <2>4. 0 \in 0 .. N
    OBVIOUS
  <2> HIDE DEF IsFold, g
  <2>5. \E f : IsFold(f, 0, S, base, step)
    BY <2>3
  <2> QED BY <2>4, <2>5
<1>2. ASSUME NEW m \in 0 .. N, m < N, m \in P PROVE m + 1 \in P
  <2>1. PICK f : IsFold(f, m, S, base, step)
    BY <1>2
  <2> DEFINE k == m + 1
             g == [s \in SUBSET (1 .. k) |-> IF k \in s THEN step[k][f[s \ {k}]] ELSE f[s]]
  <2>2. k \in 1 .. N /\ k \in Nat /\ k \in 0 .. N
    BY <1>2
  <2>3. \A s \in SUBSET (1 .. k) : /\ s \ {k} \in SUBSET (1 .. m)
                                   /\ k \notin s => s \in SUBSET (1 .. m)
    OBVIOUS
  <2>4. m \in Nat /\ \A s \in SUBSET (1 .. m) : k \notin s /\ s \in SUBSET (1 .. k)
    OBVIOUS
  <2> HIDE DEF k
  <2>5. g \in [SUBSET (1 .. k) -> S]
    <3>1. \A s \in SUBSET (1 .. k) : k \in s => step[k][f[s \ {k}]] \in S
      BY <2>1, <2>2, <2>3
    <3>2. \A s \in SUBSET (1 .. k) : k \notin s => f[s] \in S
      BY <2>1, <2>3
    <3> QED BY <3>1, <3>2
  <2>6. ASSUME NEW s \in SUBSET (1 .. k)
        PROVE  g[s] = IF s = {} THEN base ELSE step[Max(s)][g[s \ {Max(s)}]]
    <3>1. CASE s = {}
      <4>1. g[s] = f[s] /\ s \in SUBSET (1 .. m)
        BY <3>1
      <4> QED BY <2>1, <3>1, <4>1
    <3>2. CASE k \in s
      <4>1. Max(s) = k
        <5>1. Max(s) \in s /\ k <= Max(s) /\ Max(s) \in 1 .. k
          BY <2>2, <3>2, MaxOf
        <5> QED BY <2>2, <5>1
      <4>2. g[s] = step[k][f[s \ {k}]] /\ g[s \ {k}] = f[s \ {k}]
        BY <2>3, <2>4, <3>2
      <4> HIDE DEF g
      <4> QED BY <3>2, <4>1, <4>2
    <3>3. CASE k \notin s /\ s # {}
      <4>1. s \in SUBSET (1 .. m) /\ Max(s) \in s
        BY <2>3, <2>4, <3>3, MaxOf
      <4>2. s \ {Max(s)} \in SUBSET (1 .. m)
        BY <4>1
      <4>3. g[s] = f[s] /\ g[s \ {Max(s)}] = f[s \ {Max(s)}]
        BY <2>4, <4>1, <4>2
      <4>4. f[s] = step[Max(s)][f[s \ {Max(s)}]]
        BY <2>1, <3>3, <4>1
      <4> HIDE DEF g
      <4> QED BY <3>3, <4>3, <4>4
    <3> QED BY <3>1, <3>2, <3>3
  <2> HIDE DEF g
  <2>7. IsFold(g, k, S, base, step)
    BY <2>5, <2>6
  <2> QED BY <2>2, <2>7 DEF k
<1>3. N \in P
  <2> HIDE DEF P
  <2>1. \A n \in 0 .. N : n \in P
    BY <1>1, <1>2, Climb
  <2> QED BY <2>1
<1> QED BY <1>3

\* The indices up to n, and the last of them.
LEMMA UpToLast ==
    ASSUME NEW N \in Nat, NEW i \in 1 .. N
    PROVE  Max(1 .. i) = i /\ (1 .. i) \ {i} = 1 .. i - 1 /\ 1 .. i # {} /\ 1 .. i \in SUBSET (1 .. N)
<1>1. i \in Nat /\ 1 .. i \in SUBSET (1 .. i) /\ 1 .. i # {} /\ i \in 1 .. i
  OBVIOUS
<1>2. Max(1 .. i) \in 1 .. i /\ i <= Max(1 .. i)
  BY <1>1, MaxOf
<1> QED BY <1>1, <1>2
------------------------------------------------------------------------------
(***************************************************************************)
(* The array: its identifiers are those that were written into it.         *)
(***************************************************************************)
\* A type has a size if it has a case, and every C type has one.
LEMMA SizesOfTypes ==
    \A c \in DOMAIN HeldIn : SizeOf(c) \in Nat \ {0}
<1>1. DOMAIN HeldIn = {"TModuleAID", "TModuleSchemeAID"} \cup DOMAIN NumberSize \cup
                      DOMAIN TextSize \cup DOMAIN RecordSize
  BY DEF HeldIn, NumberSize, TextSize, RecordSize
<1>2. \A c \in {"TModuleAID", "TModuleSchemeAID"} : c \in DOMAIN ModuleSize /\ ModuleSize[c] \in Nat \ {0}
  BY DEF ModuleSize
<1>3. \A c \in DOMAIN NumberSize : NumberSize[c] \in Nat \ {0}
  BY DEF NumberSize
<1>4. \A c \in DOMAIN TextSize : TextSize[c] \in Nat \ {0}
  BY DEF TextSize
<1>5. \A c \in DOMAIN RecordSize : RecordSize[c] \in Nat \ {0}
  BY DEF RecordSize
<1>6. \A c \in DOMAIN ModuleSize : ModuleSize[c] \in Nat \ {0}
  BY DEF ModuleSize
<1> QED BY <1>1, <1>2, <1>3, <1>4, <1>5, <1>6 DEF SizeOf

LEMMA SizeIsNat ==
    /\ \A t \in 0 .. 255 : getIdentifySize[t] \in Nat
    /\ \A t \in 0 .. 255 : IsModule(t) => getIdentifySize[t] > 0
<1>1. ASSUME NEW t \in 0 .. 255, \E c \in DOMAIN HeldIn : t \in HeldIn[c]
      PROVE  getIdentifySize[t] \in Nat \ {0}
  <2> DEFINE c == CHOOSE e \in DOMAIN HeldIn : t \in HeldIn[e]
  <2>1. c \in DOMAIN HeldIn
    BY <1>1
  <2>2. getIdentifySize[t] = SizeOf(c)
    BY <1>1 DEF getIdentifySize
  <2> HIDE DEF c
  <2> QED BY <2>1, <2>2, SizesOfTypes
<1>2. ASSUME NEW t \in 0 .. 255, ~ \E c \in DOMAIN HeldIn : t \in HeldIn[c]
      PROVE  getIdentifySize[t] = 0
  BY <1>2 DEF getIdentifySize
<1>3. /\ "TModuleAID" \in DOMAIN HeldIn /\ HeldIn["TModuleAID"] = {AID_MODULE}
      /\ "TModuleSchemeAID" \in DOMAIN HeldIn
      /\ HeldIn["TModuleSchemeAID"] = {AID_MODULE_AND_SCHEME}
  BY DEF HeldIn
<1>4. ASSUME NEW t \in 0 .. 255, IsModule(t) PROVE \E c \in DOMAIN HeldIn : t \in HeldIn[c]
  <2>1. t = AID_MODULE \/ t = AID_MODULE_AND_SCHEME
    BY <1>4 DEF IsModule
  <2> QED BY <1>3, <2>1
<1>5. \A n \in Nat \ {0} : n \in Nat /\ n > 0
  OBVIOUS
<1>6. ASSUME NEW t \in 0 .. 255 PROVE getIdentifySize[t] \in Nat
  <2>1. CASE \E c \in DOMAIN HeldIn : t \in HeldIn[c]
    BY <1>1, <1>5, <2>1
  <2>2. CASE ~ \E c \in DOMAIN HeldIn : t \in HeldIn[c]
    BY <1>2, <2>2
  <2> QED BY <2>1, <2>2
<1>7. ASSUME NEW t \in 0 .. 255, IsModule(t) PROVE getIdentifySize[t] > 0
  BY <1>1, <1>4, <1>5, <1>7
<1> QED BY <1>6, <1>7

\* A loop over offsets that only advance: what is read from o on.
IsDescent(g, lo, L, stop, item, next) ==
    g = [o \in lo .. L |-> IF o \in stop THEN << >> ELSE <<item[o]>> \o g[next[o]]]

LEMMA DescentExists ==
    ASSUME NEW L \in Nat, NEW stop, NEW item, NEW next,
           \A o \in 0 .. L : o \notin stop => next[o] \in o + 1 .. L
    PROVE  \E g : IsDescent(g, 0, L, stop, item, next)
<1> DEFINE P == {n \in 0 .. L : \E g : IsDescent(g, L - n, L, stop, item, next)}
<1>1. 0 \in P
  <2> DEFINE g == [o \in L .. L |-> << >>]
  <2>1. L \in stop
    OBVIOUS
  <2>2. \A o \in L .. L : o = L
    OBVIOUS
  <2>3. IsDescent(g, L, L, stop, item, next)
    BY <2>1, <2>2 DEF IsDescent
  <2>4. 0 \in 0 .. L /\ L - 0 = L
    OBVIOUS
  <2> HIDE DEF g
  <2>5. \E f : IsDescent(f, L - 0, L, stop, item, next)
    BY <2>3, <2>4
  <2> QED BY <2>4, <2>5
<1>2. ASSUME NEW n \in 0 .. L, n < L, n \in P PROVE n + 1 \in P
  <2>1. PICK f : IsDescent(f, L - n, L, stop, item, next)
    BY <1>2
  <2> DEFINE lo == L - (n + 1)
             x == IF lo \in stop THEN << >> ELSE <<item[lo]>> \o f[next[lo]]
             g == [o \in lo .. L |-> IF o = lo THEN x ELSE f[o]]
  <2>2. /\ lo \in 0 .. L /\ lo + 1 = L - n /\ n + 1 \in 0 .. L
        /\ \A o \in lo .. L : o # lo => o \in L - n .. L /\ o \in 0 .. L
        /\ \A o \in L - n .. L : o \in lo .. L /\ o # lo
    BY <1>2
  <2> HIDE DEF lo
  <2>3. ASSUME NEW o \in lo .. L
        PROVE  g[o] = IF o \in stop THEN << >> ELSE <<item[o]>> \o g[next[o]]
    <3>1. o \in 0 .. L
      BY <2>2
    <3>2. o \notin stop => next[o] \in lo .. L /\ next[o] # lo /\ g[next[o]] = f[next[o]]
      <4>1. o \notin stop => next[o] \in o + 1 .. L
        BY <3>1
      <4>2. \A p \in o + 1 .. L : p \in lo .. L /\ p # lo
        BY <2>2
      <4> HIDE DEF x
      <4> QED BY <4>1, <4>2
    <3>3. CASE o = lo
      <4>1. g[o] = x
        BY <3>3
      <4> QED BY <3>2, <3>3, <4>1
    <3>4. CASE o # lo
      <4>1. o \in L - n .. L /\ g[o] = f[o]
        BY <2>2, <3>4
      <4>2. f[o] = IF o \in stop THEN << >> ELSE <<item[o]>> \o f[next[o]]
        BY <2>1, <4>1 DEF IsDescent
      <4> HIDE DEF g
      <4> QED BY <3>2, <4>1, <4>2
    <3> QED BY <3>3, <3>4
  <2>4. g = [o \in lo .. L |-> g[o]]
    OBVIOUS
  <2> HIDE DEF g
  <2>5. IsDescent(g, lo, L, stop, item, next)
    BY <2>3, <2>4 DEF IsDescent
  <2> QED BY <2>2, <2>5 DEF lo
<1>3. L \in P
  <2> HIDE DEF P
  <2>1. \A n \in 0 .. L : n \in P
    BY <1>1, <1>2, Climb
  <2> QED BY <2>1
<1>4. L - L = 0
  OBVIOUS
<1> QED BY <1>3, <1>4

LEMMA IsElement ==
    ASSUME NEW S, NEW s \in Seq(S), NEW i \in 1 .. Len(s)
    PROVE  s[i] \in S
OBVIOUS

\* What IsWritten says of the identifiers, one by one.
SizeIn(a, i) == getIdentifySize[a.wrote[i].type]
WholeOf(a) == {i \in DOMAIN a.wrote : a.wrote[i].at + SizeIn(a, i) <= Len(a.bytes)}
FirstOfArray(a, m) == [i \in 1 .. m |-> a.wrote[i]]

LEMMA WrittenOne ==
    ASSUME NEW a, IsWritten(a)
    PROVE  /\ Len(a.bytes) \in Nat /\ Len(a.wrote) \in Nat
           /\ a.bytes \in Seq(0 .. 255)
           /\ DOMAIN a.wrote = 1 .. Len(a.wrote)
           /\ \A i \in 1 .. Len(a.wrote) :
                 /\ a.wrote[i] = [type |-> a.wrote[i].type, at |-> a.wrote[i].at]
                 /\ a.wrote[i].type \in 0 .. 255 /\ SizeIn(a, i) \in Nat
                 /\ a.wrote[i].at \in 1 .. Len(a.bytes)
                 /\ a.bytes[a.wrote[i].at] = a.wrote[i].type
                 /\ i = 1 => a.wrote[i].at = 1
                 /\ i > 1 => a.wrote[i].at = a.wrote[i - 1].at + SizeIn(a, i - 1) + 1
           /\ Len(a.wrote) = 0 => Len(a.bytes) = 0
           /\ Len(a.wrote) > 0 =>
                Len(a.bytes) <= a.wrote[Len(a.wrote)].at + SizeIn(a, Len(a.wrote))
<1> DEFINE Id == [type : 0 .. 255, at : Nat]
           w == a.wrote
           End(i) == w[i].at + SizeIn(a, i)
<1>1. /\ a.bytes \in Seq(0 .. 255) /\ w \in Seq(Id)
      /\ \A i \in 1 .. Len(w) : /\ w[i].at = IF i = 1 THEN 1 ELSE End(i - 1) + 1
                               /\ w[i].at <= Len(a.bytes)
                               /\ a.bytes[w[i].at] = w[i].type
      /\ Len(a.bytes) <= IF Len(w) = 0 THEN 0 ELSE End(Len(w))
  BY DEF IsWritten, SizeIn
<1>2. /\ Len(a.bytes) \in Nat /\ Len(w) \in Nat /\ DOMAIN w = 1 .. Len(w)
      /\ \A i \in 1 .. Len(w) : w[i] \in Id
  <2> HIDE DEF Id
  <2>1. a.bytes \in Seq(0 .. 255) /\ w \in Seq(Id)
    BY <1>1
  <2> QED BY ONLY <2>1
<1>3. ASSUME NEW i \in 1 .. Len(w)
      PROVE  /\ w[i] = [type |-> w[i].type, at |-> w[i].at]
             /\ w[i].type \in 0 .. 255 /\ SizeIn(a, i) \in Nat /\ w[i].at \in Nat
  <2>1. w[i] \in Id
    BY <1>2
  <2>2. w[i] = [type |-> w[i].type, at |-> w[i].at] /\ w[i].type \in 0 .. 255 /\ w[i].at \in Nat
    BY ONLY <2>1
  <2> QED BY <2>2, SizeIsNat DEF SizeIn
<1>4. ASSUME NEW i \in 1 .. Len(w)
      PROVE  /\ w[i].at \in 1 .. Len(a.bytes)
             /\ i = 1 => w[i].at = 1
             /\ i > 1 => w[i].at = w[i - 1].at + SizeIn(a, i - 1) + 1
  <2>1. CASE i = 1
    BY <1>1, <1>2, <2>1
  <2>2. CASE i # 1
    <3>1. i - 1 \in 1 .. Len(w) /\ i > 1
      BY <1>2, <2>2
    <3>2. w[i].at = End(i - 1) + 1 /\ w[i].at <= Len(a.bytes)
      BY <1>1, <2>2
    <3>3. w[i - 1].at \in Nat /\ SizeIn(a, i - 1) \in Nat
      BY <1>3, <3>1
    <3> QED BY <1>2, <2>2, <3>1, <3>2, <3>3
  <2> QED BY <2>1, <2>2
<1>5. /\ Len(w) = 0 => Len(a.bytes) = 0
      /\ Len(w) > 0 => Len(a.bytes) <= End(Len(w))
  BY <1>1, <1>2
<1> HIDE DEF Id
<1> QED BY <1>1, <1>2, <1>3, <1>4, <1>5

\* All but the last identifier are whole, and the last one ends with the array if
\* it is whole.
IsWholeUpTo(a, m) ==
    /\ m <= Len(a.wrote) /\ m >= Len(a.wrote) - 1
    /\ WholeOf(a) = 1 .. m
    /\ m < Len(a.wrote) => a.wrote[m + 1].at + SizeIn(a, m + 1) > Len(a.bytes)
    /\ m = Len(a.wrote) /\ m > 0 => a.wrote[m].at + SizeIn(a, m) = Len(a.bytes)

LEMMA WholeIsPrefix ==
    ASSUME NEW a, IsWritten(a)
    PROVE  \E m \in Nat : IsWholeUpTo(a, m)
<1> USE DEF IsWholeUpTo
<1> DEFINE k == Len(a.wrote)  L == Len(a.bytes)
           End(i) == a.wrote[i].at + SizeIn(a, i)
<1>1. /\ L \in Nat /\ k \in Nat /\ DOMAIN a.wrote = 1 .. k
      /\ \A i \in 1 .. k : End(i) \in Nat /\ a.wrote[i].at \in 1 .. L
      /\ \A i \in 1 .. k : i > 1 => a.wrote[i].at = End(i - 1) + 1
      /\ k > 0 => L <= End(k)
  <2>1. \A i \in 1 .. k : a.wrote[i].at \in 1 .. L /\ SizeIn(a, i) \in Nat
    BY WrittenOne
  <2>2. \A i \in 1 .. k : End(i) \in Nat
    BY <2>1
  <2> QED BY <2>1, <2>2, WrittenOne
<1>2. WholeOf(a) = {i \in 1 .. k : End(i) <= L}
  BY <1>1 DEF WholeOf
<1>3. ASSUME NEW i \in 1 .. k, i # k PROVE End(i) <= L
  <2>1. i + 1 \in 1 .. k /\ i + 1 > 1 /\ (i + 1) - 1 = i
    BY <1>1, <1>3
  <2>2. a.wrote[i + 1].at = End(i) + 1 /\ a.wrote[i + 1].at \in 1 .. L
    BY <1>1, <2>1
  <2>3. End(i) \in Nat
    BY <1>1
  <2> HIDE DEF End
  <2> QED BY <1>1, <2>2, <2>3
<1> DEFINE W == WholeOf(a)
<1>4. CASE k = 0
  <2>1. W = 1 .. 0 /\ 0 <= k /\ 0 >= k - 1 /\ ~ (0 < k) /\ ~ (0 > 0) /\ 0 \in Nat
    BY <1>1, <1>2, <1>4
  <2> WITNESS 0 \in Nat
  <2> QED BY <1>4, <2>1
<1>5. CASE k > 0 /\ End(k) <= L
  <2>1. k \in 1 .. k /\ End(k) = L
    BY <1>1, <1>5
  <2>2. W = 1 .. k
    BY <1>2, <1>3, <1>5
  <2>3. k \in Nat /\ k <= k /\ k >= k - 1 /\ ~ (k < k)
    BY <1>1
  <2> WITNESS k \in Nat
  <2> QED BY ONLY <2>1, <2>2, <2>3
<1>6. CASE k > 0 /\ ~ (End(k) <= L)
  <2> DEFINE n == k - 1
  <2>1. n \in Nat /\ n <= k /\ n >= k - 1 /\ n + 1 = k /\ n # k
    BY <1>1, <1>6
  <2>2. \A i \in 1 .. k : i # k <=> i \in 1 .. n
    BY <1>1
  <2>3. W = 1 .. n
    BY <1>1, <1>2, <1>3, <1>6, <2>2
  <2>4. End(n + 1) > L
    BY <1>1, <1>6, <2>1
  <2>5. ~ (n = k /\ n > 0)
    BY <2>1
  <2> HIDE DEF n
  <2> n \in Nat
    BY <2>1
  <2> WITNESS n \in Nat
  <2> QED BY ONLY <2>1, <2>3, <2>4, <2>5
<1>7. k = 0 \/ k > 0
  BY <1>1
<1> HIDE DEF End
<1> QED BY <1>4, <1>5, <1>6, <1>7

\* A loop that stops behind the m-th identifier, and not before, has read the first m.
StartIn(a, i) == IF i = 1 THEN 0 ELSE a.wrote[i - 1].at + SizeIn(a, i - 1)

ReadsOne(a, item, next) ==
    \A o \in 0 .. Len(a.bytes) - 1 :
        /\ item[o] = [type |-> a.bytes[o + 1], at |-> o + 1]
        /\ next[o] = o + 1 + getIdentifySize[a.bytes[o + 1]]

StopsBehind(a, m, stop) ==
    /\ \A i \in 1 .. m : a.wrote[i].at - 1 \notin stop
    /\ StartIn(a, m + 1) \in 0 .. Len(a.bytes) /\ StartIn(a, m + 1) \in stop

LEMMA ReadsTheFirst ==
    ASSUME NEW a, IsWritten(a), NEW m \in 0 .. Len(a.wrote),
           NEW stop, NEW item, NEW next, NEW g,
           IsDescent(g, 0, Len(a.bytes), stop, item, next),
           ReadsOne(a, item, next), StopsBehind(a, m, stop)
    PROVE  g[0] = FirstOfArray(a, m)
<1> USE DEF ReadsOne, StopsBehind
<1> DEFINE w == a.wrote
           Tail_(n) == [i \in 1 .. n |-> w[(m - n) + i]]
           P == {n \in 0 .. m : g[StartIn(a, (m - n) + 1)] = Tail_(n)}
<1>1. 0 \in P
  <2>1. (m - 0) + 1 = m + 1 /\ 0 \in 0 .. m
    OBVIOUS
  <2>2. g[StartIn(a, m + 1)] = << >>
    BY DEF IsDescent
  <2>3. Tail_(0) = << >>
    OBVIOUS
  <2> HIDE DEF Tail_
  <2> QED BY <2>1, <2>2, <2>3
<1>2. ASSUME NEW n \in 0 .. m, n < m, n \in P PROVE n + 1 \in P
  <2> DEFINE j == m - n
             o == w[j].at - 1
  <2>1. /\ j \in 1 .. Len(w) /\ j \in 1 .. m /\ j \in Nat /\ n \in Nat
        /\ (m - (n + 1)) + 1 = j /\ n + 1 \in 0 .. m /\ (j + 1) - 1 = j /\ j + 1 # 1
        /\ (m - (n + 1)) = j - 1
    BY <1>2, WrittenOne
  <2> HIDE DEF j
  <2>2. /\ Len(a.bytes) \in Nat
        /\ w[j] = [type |-> w[j].type, at |-> w[j].at]
        /\ SizeIn(a, j) \in Nat /\ w[j].at \in 1 .. Len(a.bytes)
        /\ a.bytes[w[j].at] = w[j].type
        /\ j = 1 => w[j].at = 1
        /\ j > 1 => w[j].at = w[j - 1].at + SizeIn(a, j - 1) + 1 /\ j - 1 \in 1 .. Len(w)
    BY <2>1, WrittenOne
  <2>3. o = StartIn(a, j)
    <3>1. CASE j = 1
      BY <2>2, <3>1 DEF StartIn
    <3>2. CASE j # 1
      <4>1. j > 1
        BY <2>1, <3>2
      <4>2. w[j - 1].at \in Nat /\ SizeIn(a, j - 1) \in Nat
        <5>1. j - 1 \in 1 .. Len(w)
          BY <2>2, <4>1
        <5>2. w[j - 1].at \in 1 .. Len(a.bytes) /\ SizeIn(a, j - 1) \in Nat
          BY <5>1, WrittenOne
        <5> QED BY <2>2, <5>2
      <4> QED BY <2>2, <3>2, <4>1, <4>2 DEF StartIn
    <3> QED BY <3>1, <3>2
  <2>4. /\ o \in 0 .. Len(a.bytes) - 1 /\ o \in 0 .. Len(a.bytes)
        /\ o + 1 = w[j].at
    BY <2>2, SMTT(30)
  <2>5. o \notin stop
    BY <2>1
  <2> HIDE DEF o
  <2>6. item[o] = w[j] /\ next[o] = w[j].at + SizeIn(a, j)
    <3>1. item[o] = [type |-> a.bytes[o + 1], at |-> o + 1]
      BY <2>4
    <3>2. next[o] = o + 1 + getIdentifySize[a.bytes[o + 1]]
      BY <2>4
    <3> QED BY <2>2, <2>4, <3>1, <3>2 DEF SizeIn
  <2>7. next[o] = StartIn(a, j + 1)
    BY <2>1, <2>6 DEF StartIn
  <2>8. g[o] = <<item[o]>> \o g[next[o]]
    BY <2>4, <2>5 DEF IsDescent
  <2>9. g[next[o]] = Tail_(n)
    BY <1>2, <2>7 DEF j
  <2>10. Tail_(n + 1) = <<w[j]>> \o Tail_(n)
    <3> DEFINE x == w[j]
    <3>1. \A i \in 1 .. n : w[(m - n) + i] = w[j + i]
      BY DEF j
    <3>2. Tail_(n) = [i \in 1 .. n |-> w[j + i]]
      BY <3>1
    <3>3. Tail_(n + 1) = [i \in 1 .. n + 1 |-> w[(j - 1) + i]]
      BY <2>1
    <3> HIDE DEF Tail_, x
    <3>4. <<x>> \o [i \in 1 .. n |-> w[j + i]] = [i \in 1 .. n + 1 |-> IF i = 1 THEN x ELSE w[j + (i - 1)]]
      BY <2>1
    <3>5. \A i \in 1 .. n + 1 : w[(j - 1) + i] = IF i = 1 THEN x ELSE w[j + (i - 1)]
      <4>1. \A i \in 1 .. n + 1 : (j - 1) + i = j + (i - 1) /\ (i = 1 => (j - 1) + i = j)
        BY <2>1
      <4> QED BY <4>1 DEF x
    <3> QED BY <3>2, <3>3, <3>4, <3>5 DEF x
  <2> HIDE DEF Tail_
  <2>11. g[StartIn(a, (m - (n + 1)) + 1)] = Tail_(n + 1)
    BY <2>1, <2>3, <2>6, <2>8, <2>9, <2>10
  <2> QED BY <2>1, <2>11
<1>3. m \in P
  <2> HIDE DEF P
  <2>1. m \in Nat /\ m \in 0 .. m
    BY WrittenOne
  <2>2. \A n \in 0 .. m : n \in P
    BY <1>1, <1>2, <2>1, Climb
  <2> QED BY <2>1, <2>2
<1>4. (m - m) + 1 = 1 /\ \A i \in 1 .. m : (m - m) + i = i
  BY WrittenOne
<1>5. g[StartIn(a, 1)] = [i \in 1 .. m |-> w[i]]
  BY <1>3, <1>4
<1> QED BY <1>5 DEF StartIn, FirstOfArray

LEMMA StartIsBefore ==
    ASSUME NEW a, IsWritten(a), NEW i \in 1 .. Len(a.wrote)
    PROVE  StartIn(a, i) = a.wrote[i].at - 1
<1>1. CASE i = 1
  <2>1. a.wrote[i].at = 1
    BY <1>1, WrittenOne
  <2> QED BY <1>1, <2>1 DEF StartIn
<1>2. CASE i # 1
  <2>1. i > 1 /\ i - 1 \in 1 .. Len(a.wrote)
    BY <1>2, WrittenOne
  <2>2. /\ a.wrote[i].at = a.wrote[i - 1].at + SizeIn(a, i - 1) + 1
        /\ a.wrote[i - 1].at \in 1 .. Len(a.bytes) /\ SizeIn(a, i - 1) \in Nat
    BY <2>1, WrittenOne
  <2> QED BY <1>2, <2>2 DEF StartIn
<1> QED BY <1>1, <1>2

\* The loops stop behind the last whole identifier.
LEMMA EndOfWhole ==
    ASSUME NEW a, IsWritten(a), NEW m \in Nat, IsWholeUpTo(a, m)
    PROVE  /\ StartIn(a, m + 1) \in 0 .. Len(a.bytes)
           /\ \/ StartIn(a, m + 1) = Len(a.bytes)
              \/ Len(a.bytes) - (StartIn(a, m + 1) + 1)
                    < getIdentifySize[a.bytes[StartIn(a, m + 1) + 1]]
<1>1. Len(a.wrote) \in Nat /\ Len(a.bytes) \in Nat /\ m <= Len(a.wrote)
  BY WrittenOne DEF IsWholeUpTo
<1>2. CASE m < Len(a.wrote)
  <2>1. m + 1 \in 1 .. Len(a.wrote)
    BY <1>1, <1>2
  <2> DEFINE i == m + 1
  <2>2. /\ a.wrote[i].at \in 1 .. Len(a.bytes) /\ SizeIn(a, i) \in Nat
        /\ SizeIn(a, i) = getIdentifySize[a.bytes[a.wrote[i].at]]
        /\ StartIn(a, i) = a.wrote[i].at - 1
    BY <2>1, WrittenOne, StartIsBefore, ZenonT(60) DEF SizeIn
  <2>3. a.wrote[i].at + SizeIn(a, i) > Len(a.bytes)
    BY <1>2 DEF IsWholeUpTo
  <2> HIDE DEF i
  <2>4. (StartIn(a, i)) + 1 = a.wrote[i].at
    BY <2>2
  <2>5. Len(a.bytes) - a.wrote[i].at < SizeIn(a, i) /\ StartIn(a, i) \in 0 .. Len(a.bytes)
    BY <1>1, <2>2, <2>3, SMTT(30)
  <2> QED BY <2>2, <2>4, <2>5 DEF i
<1>3. CASE m = Len(a.wrote) /\ m > 0
  <2>1. a.wrote[m].at + SizeIn(a, m) = Len(a.bytes)
    BY <1>3 DEF IsWholeUpTo
  <2>2. m + 1 # 1 /\ (m + 1) - 1 = m
    BY <1>3
  <2>3. StartIn(a, m + 1) = Len(a.bytes)
    BY <2>1, <2>2 DEF StartIn
  <2> QED BY <1>1, <2>3
<1>4. CASE m = Len(a.wrote) /\ m = 0
  <2>1. Len(a.wrote) = 0 /\ m + 1 = 1
    BY <1>4
  <2>2. Len(a.bytes) = 0
    BY <2>1, WrittenOne
  <2> QED BY <2>1, <2>2 DEF StartIn
<1> QED BY <1>1, <1>2, <1>3, <1>4

\* Both loops read the whole identifiers, but for a last one that has no size.
ReadsWhole(a, items, m) ==
    \E k \in 0 .. m : /\ items = FirstOfArray(a, k)
                      /\ \A i \in 1 .. m : SizeIn(a, i) > 0 => i <= k

LEMMA ItemsByOffsetAre ==
    ASSUME NEW a, IsWritten(a), NEW m \in Nat, IsWholeUpTo(a, m)
    PROVE  /\ ReadsWhole(a, ItemsByOffset(a.bytes), m)
           /\ Len(a.bytes) > 1 => ItemsByOffset(a.bytes) = FirstOfArray(a, m)
           /\ Len(a.bytes) <= 1 => ItemsByOffset(a.bytes) = FirstOfArray(a, 0)
<1> DEFINE d == a.bytes
           L == Len(d)
           item == [o \in 0 .. L |-> [type |-> d[o + 1], at |-> o + 1]]
           next == [o \in 0 .. L |-> o + 1 + getIdentifySize[d[o + 1]]]
           stop == {o \in 0 .. L : \/ L <= 1 \/ o = L
                                   \/ L - (o + 1) < getIdentifySize[d[o + 1]]}
           Body(h) == [o \in 0 .. L |->
                         IF L <= 1 \/ o = L \/ L - (o + 1) < getIdentifySize[d[o + 1]]
                         THEN << >>
                         ELSE <<[type |-> d[o + 1], at |-> o + 1]>> \o
                              h[o + 1 + getIdentifySize[d[o + 1]]]]
           from == CHOOSE h : h = Body(h)
<1>1. L \in Nat /\ d \in Seq(0 .. 255) /\ \A o \in 0 .. L : o # L => o + 1 \in 1 .. L
  BY WrittenOne
<1>2. ASSUME NEW o \in 0 .. L, o \notin stop PROVE next[o] \in o + 1 .. L
  <2>1. o # L /\ ~ (L - (o + 1) < getIdentifySize[d[o + 1]])
    BY <1>2
  <2>2. d[o + 1] \in 0 .. 255
    <3>1. d \in Seq(0 .. 255) /\ o + 1 \in 1 .. Len(d)
      BY <1>1, <2>1
    <3> HIDE DEF d
    <3> QED BY <3>1, IsElement
  <2>3. getIdentifySize[d[o + 1]] \in Nat
    BY <2>2, SizeIsNat
  <2>4. next[o] = o + 1 + getIdentifySize[d[o + 1]]
    OBVIOUS
  <2> QED BY <1>1, <2>1, <2>3, <2>4
<1>3. \E g : IsDescent(g, 0, L, stop, item, next)
  <2> HIDE DEF stop, item, next, L
  <2> QED BY <1>1, <1>2, DescentExists
<1>4. \A h : IsDescent(h, 0, L, stop, item, next) <=> h = Body(h)
  <2> SUFFICES ASSUME NEW h
               PROVE  IsDescent(h, 0, L, stop, item, next) <=> h = Body(h)
    OBVIOUS
  <2>1. \A o \in 0 .. L :
          (IF o \in stop THEN << >> ELSE <<item[o]>> \o h[next[o]])
          = (IF L <= 1 \/ o = L \/ L - (o + 1) < getIdentifySize[d[o + 1]] THEN << >>
             ELSE <<[type |-> d[o + 1], at |-> o + 1]>> \o
                  h[o + 1 + getIdentifySize[d[o + 1]]])
    OBVIOUS
  <2> HIDE DEF stop, item, next
  <2>2. [o \in 0 .. L |-> IF o \in stop THEN << >> ELSE <<item[o]>> \o h[next[o]]] = Body(h)
    BY <2>1
  <2> HIDE DEF Body
  <2> QED BY <2>2 DEF IsDescent
<1>5. IsDescent(from, 0, L, stop, item, next)
  <2>1. \E h : h = Body(h)
    BY <1>3, <1>4
  <2> HIDE DEF Body
  <2>2. from = Body(from)
    BY <2>1
  <2> HIDE DEF from, item, next, stop
  <2> QED BY <1>4, <2>2
<1>6. ItemsByOffset(d) = from[0]
  BY DEF ItemsByOffset
<1>7. \A o \in 0 .. L - 1 :
        /\ item[o] = [type |-> d[o + 1], at |-> o + 1]
        /\ next[o] = o + 1 + getIdentifySize[d[o + 1]]
  BY <1>1
<1>8. m \in 0 .. Len(a.wrote) /\ StartIn(a, m + 1) \in 0 .. L /\ StartIn(a, m + 1) \in stop
  <2>1. m \in 0 .. Len(a.wrote)
    BY WrittenOne DEF IsWholeUpTo
  <2> DEFINE o == StartIn(a, m + 1)
  <2>2. o \in 0 .. L /\ (o = L \/ L - (o + 1) < getIdentifySize[d[o + 1]])
    BY EndOfWhole
  <2> HIDE DEF o
  <2> QED BY <2>1, <2>2 DEF o
<1>9. \A i \in 1 .. m : /\ a.wrote[i].at \in 1 .. L /\ SizeIn(a, i) \in Nat
                        /\ a.wrote[i].at + SizeIn(a, i) <= L
                        /\ SizeIn(a, i) = getIdentifySize[d[a.wrote[i].at]]
  <2>1. \A i \in 1 .. m : i \in 1 .. Len(a.wrote)
    BY <1>8, WrittenOne
  <2>2. \A i \in 1 .. m : i \in WholeOf(a)
    BY DEF IsWholeUpTo
  <2> QED BY <2>1, <2>2, WrittenOne, ZenonT(60) DEF WholeOf, SizeIn
<1>10. ASSUME L > 1, NEW i \in 1 .. m PROVE a.wrote[i].at - 1 \notin stop
  <2> DEFINE o == a.wrote[i].at - 1
  <2>1. o + 1 = a.wrote[i].at /\ o # L /\ o \in 0 .. L /\ ~ (L <= 1)
    BY <1>1, <1>9, <1>10
  <2>2. ~ (L - (o + 1) < getIdentifySize[d[o + 1]])
    <3>1. L - a.wrote[i].at >= SizeIn(a, i) /\ SizeIn(a, i) = getIdentifySize[d[a.wrote[i].at]]
      BY <1>1, <1>9, SMTT(30)
    <3>2. getIdentifySize[d[o + 1]] = SizeIn(a, i) /\ SizeIn(a, i) \in Nat
      BY <1>9, <2>1, <3>1
    <3>3. L - (o + 1) >= SizeIn(a, i) /\ o + 1 \in Nat
      BY <1>1, <1>9, <2>1, <3>1, SMTT(30)
    <3> HIDE DEF o, L
    <3> QED BY <1>1, <3>2, <3>3
  <2> QED BY <2>1, <2>2
<1> HIDE DEF stop, item, next, from, Body, L, d
<1>11. L > 1 => ItemsByOffset(d) = FirstOfArray(a, m)
  <2> SUFFICES ASSUME L > 1 PROVE ItemsByOffset(d) = FirstOfArray(a, m)
    OBVIOUS
  <2>1. \A i \in 1 .. m : a.wrote[i].at - 1 \notin stop
    BY <1>10
  <2>2. IsDescent(from, 0, Len(a.bytes), stop, item, next) /\ m \in 0 .. Len(a.wrote)
    BY <1>5, <1>8 DEF L, d
  <2>3. ReadsOne(a, item, next)
    BY <1>7 DEF ReadsOne, L, d
  <2>4. StopsBehind(a, m, stop)
    BY <1>8, <2>1 DEF StopsBehind, L, d
  <2>5. from[0] = FirstOfArray(a, m)
    BY <2>2, <2>3, <2>4, ReadsTheFirst
  <2> QED BY <1>6, <2>5
<1>12. L <= 1 => ItemsByOffset(d) = FirstOfArray(a, 0) /\ \A i \in 1 .. m : SizeIn(a, i) = 0
  <2> SUFFICES ASSUME L <= 1
               PROVE  ItemsByOffset(d) = FirstOfArray(a, 0) /\ \A i \in 1 .. m : SizeIn(a, i) = 0
    OBVIOUS
  <2>1. 0 \in 0 .. L /\ 0 \in stop
    BY <1>1 DEF stop
  <2>2. from[0] = << >>
    BY <1>5, <2>1 DEF IsDescent
  <2>3. FirstOfArray(a, 0) = << >>
    BY DEF FirstOfArray
  <2>4. \A i \in 1 .. m : SizeIn(a, i) = 0
    BY <1>1, <1>9
  <2> QED BY <1>6, <2>2, <2>3, <2>4
<1>13. CASE L > 1
  <2>1. m \in 0 .. m /\ \A i \in 1 .. m : i <= m
    OBVIOUS
  <2>2. ~ (L <= 1)
    BY <1>1, <1>13
  <2> QED BY <1>11, <1>13, <2>1, <2>2 DEF ReadsWhole, d, L
<1>14. CASE ~ (L > 1)
  <2>1. 0 \in 0 .. m /\ L <= 1
    BY <1>1, <1>14
  <2>2. \A i \in 1 .. m : ~ (SizeIn(a, i) > 0)
    BY <1>12, <2>1
  <2> QED BY <1>12, <1>14, <2>1, <2>2 DEF ReadsWhole, d, L
<1> QED BY <1>13, <1>14

LEMMA ItemsAre ==
    ASSUME NEW a, IsWritten(a), NEW m \in Nat, IsWholeUpTo(a, m)
    PROVE  ReadsWhole(a, Items(a.bytes), m)
<1> DEFINE d == a.bytes
           L == Len(d)
           item == [o \in 0 .. L |-> [type |-> d[o + 1], at |-> o + 1]]
           next == [o \in 0 .. L |-> o + 1 + getIdentifySize[d[o + 1]]]
           stop == {o \in 0 .. L : \/ L - o <= 1
                                   \/ L - (o + 1) < getIdentifySize[d[o + 1]]}
           Body(h) == [o \in 0 .. L |->
                         IF L - o <= 1 \/ L - (o + 1) < getIdentifySize[d[o + 1]]
                         THEN << >>
                         ELSE <<[type |-> d[o + 1], at |-> o + 1]>> \o
                              h[o + 1 + getIdentifySize[d[o + 1]]]]
           from == CHOOSE h : h = Body(h)
           k == IF m > 0 /\ a.wrote[m].at = L THEN m - 1 ELSE m
<1>1. L \in Nat /\ d \in Seq(0 .. 255) /\ \A o \in 0 .. L : o # L => o + 1 \in 1 .. L
  BY WrittenOne
<1>2. ASSUME NEW o \in 0 .. L, o \notin stop PROVE next[o] \in o + 1 .. L
  <2>1. o # L /\ ~ (L - (o + 1) < getIdentifySize[d[o + 1]])
    BY <1>1, <1>2
  <2>2. d[o + 1] \in 0 .. 255
    <3>1. d \in Seq(0 .. 255) /\ o + 1 \in 1 .. Len(d)
      BY <1>1, <2>1
    <3> HIDE DEF d
    <3> QED BY <3>1, IsElement
  <2>3. getIdentifySize[d[o + 1]] \in Nat
    BY <2>2, SizeIsNat
  <2>4. next[o] = o + 1 + getIdentifySize[d[o + 1]]
    OBVIOUS
  <2> QED BY <1>1, <2>1, <2>3, <2>4
<1>3. \E g : IsDescent(g, 0, L, stop, item, next)
  <2> HIDE DEF stop, item, next, L
  <2> QED BY <1>1, <1>2, DescentExists
<1>4. \A h : IsDescent(h, 0, L, stop, item, next) <=> h = Body(h)
  <2> SUFFICES ASSUME NEW h
               PROVE  IsDescent(h, 0, L, stop, item, next) <=> h = Body(h)
    OBVIOUS
  <2>1. \A o \in 0 .. L :
          (IF o \in stop THEN << >> ELSE <<item[o]>> \o h[next[o]])
          = (IF L - o <= 1 \/ L - (o + 1) < getIdentifySize[d[o + 1]] THEN << >>
             ELSE <<[type |-> d[o + 1], at |-> o + 1]>> \o
                  h[o + 1 + getIdentifySize[d[o + 1]]])
    OBVIOUS
  <2> HIDE DEF stop, item, next
  <2>2. [o \in 0 .. L |-> IF o \in stop THEN << >> ELSE <<item[o]>> \o h[next[o]]] = Body(h)
    BY <2>1
  <2> HIDE DEF Body
  <2> QED BY <2>2 DEF IsDescent
<1>5. IsDescent(from, 0, L, stop, item, next)
  <2>1. \E h : h = Body(h)
    BY <1>3, <1>4
  <2> HIDE DEF Body
  <2>2. from = Body(from)
    BY <2>1
  <2> HIDE DEF from, item, next, stop
  <2> QED BY <1>4, <2>2
<1>6. Items(d) = from[0]
  BY DEF Items
<1>7. \A o \in 0 .. L - 1 :
        /\ item[o] = [type |-> d[o + 1], at |-> o + 1]
        /\ next[o] = o + 1 + getIdentifySize[d[o + 1]]
  BY <1>1
<1>8. m \in 0 .. Len(a.wrote) /\ \A i \in 1 .. m : i \in 1 .. Len(a.wrote)
  BY WrittenOne DEF IsWholeUpTo
<1>9. \A i \in 1 .. m : /\ a.wrote[i].at \in 1 .. L /\ SizeIn(a, i) \in Nat
                        /\ a.wrote[i].at + SizeIn(a, i) <= L
                        /\ SizeIn(a, i) = getIdentifySize[d[a.wrote[i].at]]
  <2>1. \A i \in 1 .. m : i \in WholeOf(a)
    BY DEF IsWholeUpTo
  <2> QED BY <1>8, <2>1, WrittenOne, ZenonT(60) DEF WholeOf, SizeIn
<1>10. k \in 0 .. m /\ k \in 0 .. Len(a.wrote) /\ \A i \in 1 .. k : i \in 1 .. m
  BY <1>8, WrittenOne
<1>11. ASSUME NEW i \in 1 .. k PROVE a.wrote[i].at < L
  <2>1. CASE i = m
    <3>1. a.wrote[m].at # L /\ m \in 1 .. m
      BY <1>10, <2>1
    <3> QED BY <1>1, <1>9, <2>1, <3>1
  <2>2. CASE i # m
    <3>1. i \in 1 .. m /\ i + 1 \in 1 .. m /\ i + 1 > 1 /\ (i + 1) - 1 = i
      BY <1>10, <2>2
    <3>2. a.wrote[i + 1].at = a.wrote[i].at + SizeIn(a, i) + 1
      BY <1>8, <3>1, WrittenOne, ZenonT(60)
    <3> QED BY <1>1, <1>9, <3>1, <3>2
  <2> QED BY <2>1, <2>2
<1>12. ASSUME NEW i \in 1 .. k PROVE a.wrote[i].at - 1 \notin stop
  <2> DEFINE o == a.wrote[i].at - 1
           at == a.wrote[i].at
           s == SizeIn(a, i)
  <2>0. at \in 1 .. L /\ s \in Nat /\ at + s <= L /\ at < L /\ s = getIdentifySize[d[at]]
    <3>1. i \in 1 .. m /\ a.wrote[i].at < L
      BY <1>10, <1>11
    <3> HIDE DEF k, L, d
    <3> QED BY <1>9, <3>1
  <2>1. o + 1 = at /\ o \in 0 .. L /\ ~ (L - o <= 1)
    <3> o = at - 1
      OBVIOUS
    <3> HIDE DEF o, at, L, k
    <3> QED BY <1>1, <2>0
  <2>2. ~ (L - (o + 1) < getIdentifySize[d[o + 1]])
    <3> HIDE DEF o, at, L, k, s
    <3>2. getIdentifySize[d[o + 1]] = s
      BY <2>0, <2>1
    <3>3. L - (o + 1) >= s
      BY <1>1, <2>0, <2>1
    <3>4. L - (o + 1) \in Int
      BY <1>1, <2>1, <2>0
    <3> QED BY <2>0, <3>2, <3>3, <3>4
  <2> QED BY <2>1, <2>2
<1>13. StartIn(a, k + 1) \in 0 .. L /\ StartIn(a, k + 1) \in stop
  <2>1. CASE m > 0 /\ a.wrote[m].at = L
    <3>1. k + 1 = m /\ m \in 1 .. m /\ m \in 1 .. Len(a.wrote)
      BY <1>8, <2>1
    <3>2. StartIn(a, k + 1) = L - 1
      BY <2>1, <3>1, StartIsBefore
    <3>3. a.wrote[m].at \in 1 .. L
      BY <1>9, <3>1
    <3>4. L - 1 \in 0 .. L /\ L - (L - 1) <= 1
      BY <1>1, <2>1, <3>3
    <3> QED BY <3>2, <3>4
  <2>2. CASE ~ (m > 0 /\ a.wrote[m].at = L)
    <3> DEFINE o == StartIn(a, m + 1)
    <3>1. o \in 0 .. L /\ (o = L \/ L - (o + 1) < getIdentifySize[d[o + 1]])
      BY EndOfWhole
    <3>2. o = L => L - o <= 1
      BY <1>1
    <3>3. k = m
      BY <2>2
    <3> HIDE DEF o, k
    <3> QED BY <3>1, <3>2, <3>3 DEF o
  <2> QED BY <2>1, <2>2
<1>14. ASSUME NEW i \in 1 .. m, SizeIn(a, i) > 0 PROVE i <= k
  <2>1. CASE m > 0 /\ a.wrote[m].at = L
    <3>1. k = m - 1
      BY <2>1
    <3>2. i # m
      <4>1. a.wrote[i].at + SizeIn(a, i) <= L /\ a.wrote[i].at \in 1 .. L /\ SizeIn(a, i) \in Nat
        BY <1>9
      <4>2. a.wrote[i].at # L
        BY <1>1, <1>14, <4>1
      <4> QED BY <2>1, <4>2
    <3> QED BY <3>1, <3>2
  <2>2. CASE ~ (m > 0 /\ a.wrote[m].at = L)
    BY <2>2
  <2> QED BY <2>1, <2>2
<1> HIDE DEF stop, item, next, from, Body, L, d, k
<1>15. from[0] = FirstOfArray(a, k)
  <2>1. \A i \in 1 .. k : a.wrote[i].at - 1 \notin stop
    BY <1>12
  <2>2. IsDescent(from, 0, Len(a.bytes), stop, item, next) /\ k \in 0 .. Len(a.wrote)
    BY <1>5, <1>10 DEF L, d
  <2>3. ReadsOne(a, item, next)
    BY <1>7 DEF ReadsOne, L, d
  <2>4. StopsBehind(a, k, stop)
    BY <1>13, <2>1 DEF StopsBehind, L, d
  <2> QED BY <2>2, <2>3, <2>4, ReadsTheFirst
<1> QED BY <1>6, <1>10, <1>14, <1>15 DEF ReadsWhole, d
------------------------------------------------------------------------------
(***************************************************************************)
(* The loops that copy identifiers, round by round.                        *)
(***************************************************************************)
NextOfAll(r, i, put, v) ==
    IF IsModule(i.type) THEN [r EXCEPT !.idents = << >>]
    ELSE [idents |-> Append(r.idents, Entry(i, put, v)),
          made |-> r.made + IF put THEN 1 ELSE 0]

AreItems(items0, N, w) == items0 = [i \in 1 .. N |-> w[i]]
AreEntries(X, N, w, put, v) == \A i \in 1 .. N : Entry(w[i], put, v) \in X

LEMMA AllLastRun ==
    ASSUME NEW d, NEW idents0, NEW put, NEW v, NEW N \in Nat, NEW w, NEW X,
           AreItems(Items(d), N, w), idents0 \in Seq(X), AreEntries(X, N, w, put, v)
    PROVE  \E f : /\ f[0] = [idents |-> idents0, made |-> 0]
                  /\ \A n \in 1 .. N : f[n] = NextOfAll(f[n - 1], w[n], put, v)
                  /\ ParseAllLast(d, idents0, put, v) = f[N]
<1> USE DEF AreItems, AreEntries
<1> DEFINE S == [idents : Seq(X), made : Nat]
           base == [idents |-> idents0, made |-> 0]
           items == [i \in 1 .. N |-> w[i]]
           step == [n \in 1 .. N |-> [r \in S |-> NextOfAll(r, w[n], put, v)]]
           Iter(h) == [s \in SUBSET (DOMAIN items) |->
                         IF s = {} THEN base
                         ELSE NextOfAll(h[s \ {Max(s)}], items[Max(s)], put, v)]
           G == CHOOSE h : h = Iter(h)
<1>1. ASSUME NEW n \in 1 .. N, NEW r \in S PROVE NextOfAll(r, w[n], put, v) \in S
  <2>1. r.idents \in Seq(X) /\ r.made \in Nat /\ r = [idents |-> r.idents, made |-> r.made]
    OBVIOUS
  <2>2. [r EXCEPT !.idents = << >>] = [idents |-> << >>, made |-> r.made]
    BY <2>1
  <2>3. Append(r.idents, Entry(w[n], put, v)) \in Seq(X) /\ << >> \in Seq(X)
    BY <2>1
  <2>4. r.made + (IF put THEN 1 ELSE 0) \in Nat
    BY <2>1
  <2> QED BY <2>1, <2>2, <2>3, <2>4 DEF NextOfAll
<1>2. AreSteps(step, N, S) /\ base \in S
  BY <1>1 DEF AreSteps
<1>3. PICK g : IsFold(g, N, S, base, step)
  <2> HIDE DEF S, base, step
  <2> QED BY <1>2, FoldExists
<1>4. g = Iter(g)
  <2>1. DOMAIN items = 1 .. N
    OBVIOUS
  <2>2. ASSUME NEW s \in SUBSET (1 .. N), s # {}
        PROVE  g[s] = NextOfAll(g[s \ {Max(s)}], items[Max(s)], put, v)
    <3>1. Max(s) \in 1 .. N /\ s \ {Max(s)} \in SUBSET (1 .. N)
      BY <2>2, MaxOf
    <3>2. g[s \ {Max(s)}] \in S
      BY <1>3, <3>1 DEF IsFold
    <3>3. g[s] = step[Max(s)][g[s \ {Max(s)}]]
      BY <1>3, <2>2 DEF IsFold
    <3> QED BY <3>1, <3>2, <3>3
  <2>3. g[{}] = base /\ g = [s \in SUBSET (1 .. N) |-> g[s]]
    BY <1>3 DEF IsFold
  <2> QED BY <2>1, <2>2, <2>3
<1>5. G = Iter(G)
  <2> HIDE DEF Iter
  <2> QED BY <1>4
<1>6. ParseAllLast(d, idents0, put, v) = G[DOMAIN items]
  BY DEF ParseAllLast, FoldLeft, MapThenFoldSet, NextOfAll
<1>7. ASSUME NEW n \in 1 .. N
      PROVE  G[1 .. n] = NextOfAll(G[1 .. n - 1], w[n], put, v)
  <2> DEFINE s == 1 .. n
  <2>1. /\ Max(s) = n /\ s \ {Max(s)} = 1 .. n - 1 /\ s # {}
        /\ s \in SUBSET (DOMAIN items) /\ items[n] = w[n]
    BY UpToLast
  <2> HIDE DEF s, items, base, G
  <2>2. G[s] = NextOfAll(G[s \ {Max(s)}], items[Max(s)], put, v)
    BY <1>5, <2>1
  <2> QED BY <2>1, <2>2 DEF s
<1>8. G[1 .. 0] = base /\ DOMAIN items = 1 .. N
  <2>1. {} \in SUBSET (DOMAIN items) /\ 1 .. 0 = {} /\ DOMAIN items = 1 .. N
    OBVIOUS
  <2> HIDE DEF G, base, items
  <2>2. G[{}] = base
    BY <1>5, <2>1
  <2> QED BY <2>1, <2>2
<1> DEFINE f == [n \in 0 .. N |-> G[1 .. n]]
<1>9. \A n \in 1 .. N : n \in 0 .. N /\ n - 1 \in 0 .. N
  OBVIOUS
<1> HIDE DEF G, items, Iter
<1>10. f[0] = base /\ f[N] = G[DOMAIN items] /\ \A n \in 1 .. N : f[n] = NextOfAll(f[n - 1], w[n], put, v)
  BY <1>7, <1>8, <1>9
<1> HIDE DEF f
<1> QED BY <1>6, <1>10

\* The values of an array, and what they are when they are copied.
ValuesOf(a, n) == [at \in 0 .. Len(a.bytes) |-> <<n, at>>]
Entries == [type : 0 .. 255, ident : Nat \X Nat, own : BOOLEAN]

LEMMA EntryIs ==
    ASSUME NEW a, IsWritten(a), NEW n \in Nat, NEW put \in BOOLEAN,
           NEW i \in 1 .. Len(a.wrote)
    PROVE  /\ Entry(a.wrote[i], put, ValuesOf(a, n)) \in Entries
           /\ Entry(a.wrote[i], put, ValuesOf(a, n)).own = put
<1>1. a.wrote[i].type \in 0 .. 255 /\ a.wrote[i].at \in 1 .. Len(a.bytes) /\ Len(a.bytes) \in Nat
  BY WrittenOne
<1>2. ValuesOf(a, n)[a.wrote[i].at] = <<n, a.wrote[i].at>> /\ a.wrote[i].at \in Nat
  BY <1>1 DEF ValuesOf
<1>3. ValuesOf(a, n)[a.wrote[i].at] \in Nat \X Nat
  BY <1>2
<1> QED BY <1>1, <1>3 DEF Entry, Entries

\* Identifiers of the list ids or of the array a are ahead of a module.
DropsFrom(a, ids) ==
    \E j \in DOMAIN a.wrote :
        /\ IsModule(a.wrote[j].type)
        /\ ids # << >> \/ \E i \in 1 .. j : ~ IsModule(a.wrote[i].type)

AllOwn(ids, put) == \A i \in 1 .. Len(ids) : ids[i].own = put

LEMMA TookLast ==
    ASSUME NEW a, IsWritten(a), NEW n \in Nat, NEW put \in BOOLEAN,
           NEW ids \in Seq(Entries), AllOwn(ids, put), ids # << >> => put,
           NEW r, r = ParseAllLast(a.bytes, ids, put, ValuesOf(a, n))
    PROVE  /\ r.idents \in Seq(Entries) /\ AllOwn(r.idents, put) /\ r.made \in Nat
           /\ put => Len(ids) + r.made >= Len(r.idents)
           /\ put => Len(ids) + r.made = Len(r.idents) \/ DropsFrom(a, ids)
           /\ ~ put => r.made = 0
<1> DEFINE v == ValuesOf(a, n)
           w == a.wrote
<1>1. PICK m \in Nat : IsWholeUpTo(a, m)
  BY WholeIsPrefix
<1>2. PICK N \in 0 .. m : Items(a.bytes) = FirstOfArray(a, N)
  BY <1>1, ItemsAre DEF ReadsWhole
<1>3. N \in Nat /\ N <= Len(w) /\ Len(w) \in Nat /\ DOMAIN w = 1 .. Len(w)
  BY <1>1, <1>2, WrittenOne DEF IsWholeUpTo
<1>4. \A i \in 1 .. N : i \in 1 .. Len(w)
  BY <1>3
<1>5. Items(a.bytes) = [i \in 1 .. N |-> w[i]]
  BY <1>2 DEF FirstOfArray
<1>6. \A i \in 1 .. N : Entry(w[i], put, v) \in Entries /\ Entry(w[i], put, v).own = put
  BY <1>4, EntryIs
<1> HIDE DEF v, w
<1>7. PICK f : /\ f[0] = [idents |-> ids, made |-> 0]
               /\ \A i \in 1 .. N : f[i] = NextOfAll(f[i - 1], w[i], put, v)
               /\ ParseAllLast(a.bytes, ids, put, v) = f[N]
  <2>1. AreEntries(Entries, N, w, put, v)
    BY <1>6 DEF AreEntries
  <2>2. N \in Nat /\ AreItems(Items(a.bytes), N, w)
    BY <1>3, <1>5 DEF AreItems
  <2> QED BY <2>1, <2>2, AllLastRun
<1> DEFINE Good(x, i) ==
             /\ x = [idents |-> x.idents, made |-> x.made]
             /\ x.idents \in Seq(Entries) /\ AllOwn(x.idents, put) /\ x.made \in Nat
             /\ put => Len(ids) + x.made >= Len(x.idents)
             /\ put => Len(ids) + x.made = Len(x.idents) \/ DropsFrom(a, ids)
             /\ ~ put => x.made = 0
             /\ x.idents # << >> => ids # << >> \/ \E j \in 1 .. i : ~ IsModule(w[j].type)
           P == {i \in 0 .. N : Good(f[i], i)}
<1>8. 0 \in P
  <2>1. Len(ids) \in Nat /\ Len(ids) + 0 = Len(ids) /\ 0 \in 0 .. N
    BY <1>3
  <2>2. Good([idents |-> ids, made |-> 0], 0)
    BY <2>1
  <2> HIDE DEF Good
  <2> QED BY <1>7, <2>1, <2>2
<1>9. ASSUME NEW i \in 0 .. N, i < N, i \in P PROVE i + 1 \in P
  <2> DEFINE k == i + 1
             x == f[i]
             y == NextOfAll(x, w[k], put, v)
  <2>1. /\ k \in 1 .. N /\ k - 1 = i /\ k \in 0 .. N /\ i \in Nat
        /\ \A j \in 1 .. i : j \in 1 .. k
    BY <1>3, <1>9
  <2>2. f[k] = y /\ Good(x, i)
    BY <1>7, <1>9, <2>1
  <2> HIDE DEF k, x
  <2>3. Len(ids) \in Nat /\ Len(x.idents) \in Nat
    BY <2>2
  <2>4. CASE IsModule(w[k].type)
    <3>1. y = [x EXCEPT !.idents = << >>]
      BY <2>4 DEF NextOfAll
    <3>2. x = [idents |-> x.idents, made |-> x.made] /\ x.made \in Nat
      BY <2>2
    <3>3. y = [idents |-> << >>, made |-> x.made]
      BY ONLY <3>1, <3>2
    <3>4. << >> \in Seq(Entries) /\ Len(<< >>) = 0 /\ AllOwn(<< >>, put)
      BY DEF AllOwn
    <3>5. x.idents # << >> => DropsFrom(a, ids)
      <4>1. SUFFICES ASSUME x.idents # << >> PROVE DropsFrom(a, ids)
        OBVIOUS
      <4>2. k \in DOMAIN w
        BY <1>3, <1>4, <2>1
      <4>3. ids # << >> \/ \E j \in 1 .. k : ~ IsModule(w[j].type)
        BY <2>1, <2>2, <4>1
      <4> QED BY <2>4, <4>2, <4>3 DEF DropsFrom, w
    <3>6. x.idents = << >> => Len(x.idents) = 0
      OBVIOUS
    <3>7. put => Len(ids) + x.made = 0 \/ DropsFrom(a, ids)
      BY <2>2, <3>5, <3>6
    <3>8. Good([idents |-> << >>, made |-> x.made], k)
      BY <2>2, <2>3, <3>2, <3>4, <3>7
    <3> HIDE DEF y, Good
    <3> QED BY <2>1, <2>2, <3>3, <3>8 DEF k
  <2>5. CASE ~ IsModule(w[k].type)
    <3> DEFINE e == Entry(w[k], put, v)
               z == Append(x.idents, e)
               q == x.made + IF put THEN 1 ELSE 0
    <3>1. y = [idents |-> z, made |-> q]
      BY <2>5 DEF NextOfAll
    <3>2. e \in Entries /\ e.own = put
      BY <1>6, <2>1
    <3> HIDE DEF e, y
    <3>3. z \in Seq(Entries) /\ Len(z) = Len(x.idents) + 1 /\ z # << >>
      BY <2>2, <3>2
    <3>4. AllOwn(z, put)
      <4>1. ASSUME NEW j \in 1 .. Len(z) PROVE z[j].own = put
        <5>1. CASE j = Len(x.idents) + 1
          <6>1. z[j] = e
            BY <2>2, <2>3, <5>1
          <6> QED BY <3>2, <6>1
        <5>2. CASE j # Len(x.idents) + 1
          <6>1. j \in 1 .. Len(x.idents)
            BY <2>3, <3>3, <5>2
          <6>2. z[j] = x.idents[j]
            BY <2>2, <6>1
          <6> QED BY <2>2, <6>1, <6>2 DEF AllOwn
        <5> QED BY <5>1, <5>2
      <4> QED BY <4>1 DEF AllOwn
    <3>5. k \in 1 .. k
      BY <2>1
    <3>6. q \in Nat /\ (put => q = x.made + 1) /\ (~ put => q = 0)
      BY <2>2
    <3> HIDE DEF z, q
    <3>7. /\ put => Len(ids) + q >= Len(z)
          /\ put => Len(ids) + q = Len(z) \/ DropsFrom(a, ids)
      BY <2>2, <2>3, <3>3, <3>6
    <3>8. Good([idents |-> z, made |-> q], k)
      BY <2>5, <3>3, <3>4, <3>5, <3>6, <3>7
    <3> HIDE DEF Good
    <3> QED BY <2>1, <2>2, <3>1, <3>8 DEF k
  <2> QED BY <2>4, <2>5
<1>10. Good(f[N], N)
  <2> HIDE DEF Good
  <2>1. \A i \in 0 .. N : i \in P
    <3> HIDE DEF P
    <3> QED BY <1>3, <1>8, <1>9, Climb
  <2> QED BY <1>3, <2>1
<1>11. r = f[N]
  BY <1>7 DEF v
<1> QED BY <1>10, <1>11

LEMMA TookAll ==
    ASSUME NEW a, IsWritten(a), NEW n \in Nat, NEW ids \in Seq(Entries), AllOwn(ids, TRUE),
           NEW r, r = ParseAllIdentifys(a.bytes, ids, ValuesOf(a, n))
    PROVE  /\ r.idents \in Seq(Entries) /\ AllOwn(r.idents, TRUE) /\ r.made \in Nat
           /\ Len(ids) + r.made = Len(r.idents)
<1> DEFINE v == ValuesOf(a, n)
           items == Items(a.bytes)
           new == [k \in DOMAIN items |-> Entry(items[k], TRUE, v)]
           z == ids \o new
<1>1. PICK m \in Nat : IsWholeUpTo(a, m)
  BY WholeIsPrefix
<1>2. PICK N \in 0 .. m : items = FirstOfArray(a, N)
  BY <1>1, ItemsAre DEF ReadsWhole
<1>3. N \in Nat /\ \A i \in 1 .. N : i \in 1 .. Len(a.wrote)
  BY <1>1, <1>2, WrittenOne DEF IsWholeUpTo
<1>4. DOMAIN items = 1 .. N /\ Len(items) = N /\ \A i \in 1 .. N : items[i] = a.wrote[i]
  BY <1>2, <1>3 DEF FirstOfArray
<1>5. r = [idents |-> z, made |-> N]
  BY <1>4 DEF ParseAllIdentifys
<1> HIDE DEF items, v
<1>6. \A i \in 1 .. N : Entry(items[i], TRUE, v) \in Entries /\ Entry(items[i], TRUE, v).own = TRUE
  BY <1>3, <1>4, EntryIs DEF v
<1>7. new \in Seq(Entries) /\ Len(new) = N /\ \A i \in 1 .. N : new[i].own = TRUE
  <2>1. new = [k \in 1 .. N |-> new[k]] /\ \A i \in 1 .. N : new[i] = Entry(items[i], TRUE, v)
    BY <1>4
  <2> HIDE DEF new
  <2>2. \A i \in 1 .. N : new[i] \in Entries /\ new[i].own = TRUE
    BY <1>6, <2>1
  <2>3. new \in [1 .. N -> Entries]
    BY <2>1, <2>2
  <2> QED BY <1>3, <2>2, <2>3
<1> HIDE DEF new
<1>8. z \in Seq(Entries) /\ Len(z) = Len(ids) + N
  BY <1>7
<1>9. AllOwn(z, TRUE)
  <2>1. ASSUME NEW j \in 1 .. Len(z) PROVE z[j].own = TRUE
    <3>1. CASE j <= Len(ids)
      <4>1. j \in 1 .. Len(ids) /\ z[j] = ids[j]
        BY <1>7, <3>1
      <4> QED BY <4>1 DEF AllOwn
    <3>2. CASE ~ (j <= Len(ids))
      <4>1. j - Len(ids) \in 1 .. N /\ z[j] = new[j - Len(ids)]
        BY <1>3, <1>7, <1>8, <3>2
      <4> QED BY <1>7, <4>1
    <3> QED BY <3>1, <3>2
  <2> QED BY <2>1 DEF AllOwn
<1> HIDE DEF z
<1>10. r.idents = z /\ r.made = N /\ N \in Nat
  BY <1>3, <1>5
<1>11. Len(ids) + r.made = Len(r.idents)
  BY <1>8, <1>10
<1> QED BY <1>8, <1>9, <1>10, <1>11
------------------------------------------------------------------------------
(***************************************************************************)
(* All identifiers, taken and cleared.                                     *)
(***************************************************************************)
ArrayIs == IsWritten(array) /\ received \in Nat

Listed(ids) == IF ids # << >> /\ ids[1].own THEN Len(ids) ELSE 0

BlocksInv ==
    /\ ArrayIs
    /\ idents \in Seq(Entries) /\ \E put \in BOOLEAN : AllOwn(idents, put)
    /\ live \in Nat /\ dropped \in BOOLEAN
    /\ live >= Listed(idents) /\ (~ dropped => live = Listed(idents))

LEMMA NoArrayIsWritten == IsWritten(NoArray)
<1>1. << >> \in Seq(0 .. 255) /\ << >> \in Seq([type : 0 .. 255, at : Nat]) /\ Len(<< >>) = 0
  OBVIOUS
<1> QED BY <1>1 DEF NoArray, IsWritten

LEMMA ListedIs ==
    ASSUME NEW ids \in Seq(Entries), NEW put \in BOOLEAN, AllOwn(ids, put)
    PROVE  /\ Listed(ids) = (IF put THEN Len(ids) ELSE 0)
           /\ Listed(ids) \in Nat
           /\ Listed(ids) = Cardinality({k \in DOMAIN ids : ids[k].own})
<1>1. Len(ids) \in Nat /\ DOMAIN ids = 1 .. Len(ids)
  OBVIOUS
<1>2. ids = << >> <=> Len(ids) = 0
  OBVIOUS
<1>3. Listed(ids) = (IF put THEN Len(ids) ELSE 0)
  <2>1. CASE ids = << >>
    BY <1>2, <2>1 DEF Listed
  <2>2. CASE ids # << >>
    <3>1. 1 \in 1 .. Len(ids)
      BY <1>1, <1>2, <2>2
    <3>2. ids[1].own = put
      BY <3>1 DEF AllOwn
    <3> QED BY <2>2, <3>2 DEF Listed
  <2> QED BY <2>1, <2>2
<1>4. Listed(ids) = Cardinality({k \in DOMAIN ids : ids[k].own})
  <2>1. CASE put
    <3>1. {k \in DOMAIN ids : ids[k].own} = 1 .. Len(ids)
      BY <1>1, <2>1 DEF AllOwn
    <3> DEFINE n == Len(ids)
    <3>2. n \in Nat /\ n \in Int /\ 1 \in Int
      BY <1>1
    <3> HIDE DEF n
    <3>3. Cardinality(1 .. n) = IF 1 > n THEN 0 ELSE (n - 1) + 1
      BY <3>2, FS_Interval
    <3>4. Cardinality(1 .. n) = n
      BY <3>2, <3>3
    <3> QED BY <1>3, <2>1, <3>1, <3>4 DEF n
  <2>2. CASE ~ put
    <3>1. {k \in DOMAIN ids : ids[k].own} = {}
      BY <1>1, <2>2 DEF AllOwn
    <3> QED BY <1>3, <2>2, <3>1, FS_EmptySet
  <2> QED BY <2>1, <2>2
<1> QED BY <1>1, <1>3, <1>4

\* What a step does to the array, and to the list of all identifiers.
LEMMA BlocksOfStep ==
    ASSUME SdkNext
    PROVE  \/ \E a \in Arrays : Receive(a)
           \/ \E put \in BOOLEAN : TakeLast(put)
           \/ TakeAll \/ Clear
           \/ UNCHANGED <<array, received, idents, live, dropped>>
<1>1. ASSUME NEW t, Find(t) \/ AllOff(t) PROVE UNCHANGED <<array, received, idents, live, dropped>>
  BY <1>1 DEF Find, AllOff, Calls, kept
<1>2. ASSUME FindList \/ FindLists \/ SeqOne \/ SeqTwo \/ Number
      PROVE  UNCHANGED <<array, received, idents, live, dropped>>
  BY <1>2 DEF FindList, FindLists, SeqOne, SeqTwo, Number, Calls, kept
<1>3. ASSUME NEW x, NEW y, CompareModules(x, y) \/ CompareLinks(x, y) \/ Name(x, y)
      PROVE  UNCHANGED <<array, received, idents, live, dropped>>
  BY <1>3 DEF CompareModules, CompareLinks, Name, kept
<1> QED BY <1>1, <1>2, <1>3 DEF SdkNext

LEMMA TakingStep ==
    ASSUME BlocksInv, [SdkNext]_sdkVars
    PROVE  BlocksInv'
<1> USE DEF BlocksInv
<1>1. ASSUME NEW a \in Arrays, Receive(a) PROVE BlocksInv'
  <2>1. array' = a /\ received' = received + 1 /\ UNCHANGED <<idents, live, dropped>>
    BY <1>1 DEF Receive, kept
  <2>2. IsWritten(a)
    BY SdkAssumption
  <2>3. ArrayIs'
    BY <2>1, <2>2 DEF ArrayIs
  <2> QED BY <2>1, <2>3
<1>2. ASSUME NEW put \in BOOLEAN, TakeLast(put) PROVE BlocksInv'
  <2> DEFINE r == ParseAllLast(bytes, idents, put, Value)
  <2>1. /\ UNCHANGED <<array, received>> /\ idents' = r.idents /\ live' = live + r.made
        /\ dropped' = (dropped \/ (put /\ DropsSome(array)))
        /\ idents # << >> => put /\ Head(idents).own
    BY <1>2 DEF TakeLast, TakesMore, Calls
  <2>2. AllOwn(idents, put)
    <3>1. CASE idents = << >>
      BY <3>1 DEF AllOwn
    <3>2. CASE idents # << >>
      <4>1. Head(idents) = idents[1] /\ 1 \in 1 .. Len(idents)
        BY <3>2
      <4>2. PICK own \in BOOLEAN : AllOwn(idents, own)
        OBVIOUS
      <4>3. idents[1].own = own
        BY <4>1, <4>2 DEF AllOwn
      <4> QED BY <2>1, <3>2, <4>1, <4>2, <4>3 DEF AllOwn
    <3> QED BY <3>1, <3>2
  <2>3. r = ParseAllLast(array.bytes, idents, put, ValuesOf(array, received))
    BY DEF bytes, Value, ValuesOf
  <2> HIDE DEF r
  <2>4. /\ r.idents \in Seq(Entries) /\ AllOwn(r.idents, put) /\ r.made \in Nat
        /\ put => Len(idents) + r.made >= Len(r.idents)
        /\ put => Len(idents) + r.made = Len(r.idents) \/ DropsFrom(array, idents)
        /\ ~ put => r.made = 0
    BY <2>1, <2>2, <2>3, TookLast, ZenonT(60) DEF ArrayIs
  <2>5. DropsFrom(array, idents) <=> DropsSome(array)
    BY DEF DropsFrom, DropsSome
  <2>6. /\ Listed(idents) = (IF put THEN Len(idents) ELSE 0)
        /\ Listed(r.idents) = (IF put THEN Len(r.idents) ELSE 0)
    BY <2>2, <2>4, ListedIs
  <2>7. Len(idents) \in Nat /\ Len(r.idents) \in Nat
    BY <2>4
  <2>8. /\ live + r.made \in Nat /\ live + r.made >= Listed(r.idents)
        /\ ~ dropped /\ ~ (put /\ DropsSome(array)) => live + r.made = Listed(r.idents)
    BY <2>4, <2>5, <2>6, <2>7
  <2>9. ArrayIs' /\ dropped' \in BOOLEAN
    BY <2>1 DEF ArrayIs
  <2> QED BY <2>1, <2>4, <2>8, <2>9
<1>3. ASSUME TakeAll PROVE BlocksInv'
  <2> DEFINE r == ParseAllIdentifys(bytes, idents, Value)
  <2>1. /\ UNCHANGED <<array, received, dropped>> /\ idents' = r.idents /\ live' = live + r.made
        /\ idents # << >> => Head(idents).own
    BY <1>3 DEF TakeAll, TakesMore, Calls
  <2>2. AllOwn(idents, TRUE)
    <3>1. CASE idents = << >>
      BY <3>1 DEF AllOwn
    <3>2. CASE idents # << >>
      <4>1. Head(idents) = idents[1] /\ 1 \in 1 .. Len(idents)
        BY <3>2
      <4>2. PICK own \in BOOLEAN : AllOwn(idents, own)
        OBVIOUS
      <4>3. idents[1].own = own
        BY <4>1, <4>2 DEF AllOwn
      <4> QED BY <2>1, <3>2, <4>1, <4>2, <4>3 DEF AllOwn
    <3> QED BY <3>1, <3>2
  <2>3. r = ParseAllIdentifys(array.bytes, idents, ValuesOf(array, received))
    BY DEF bytes, Value, ValuesOf
  <2> HIDE DEF r
  <2>4. /\ r.idents \in Seq(Entries) /\ AllOwn(r.idents, TRUE) /\ r.made \in Nat
        /\ Len(idents) + r.made = Len(r.idents)
    <3>1. IsWritten(array) /\ received \in Nat /\ idents \in Seq(Entries)
      BY DEF ArrayIs
    <3> QED BY ONLY <2>2, <2>3, <3>1, TookAll, ZenonT(60)
  <2>5. Listed(idents) = Len(idents) /\ Listed(r.idents) = Len(r.idents)
    BY <2>2, <2>4, ListedIs
  <2>6. Len(idents) \in Nat /\ Len(r.idents) \in Nat
    BY <2>4
  <2>7. /\ live + r.made \in Nat /\ live + r.made >= Listed(r.idents)
        /\ ~ dropped => live + r.made = Listed(r.idents)
    BY <2>4, <2>5, <2>6
  <2>8. ArrayIs' /\ dropped' \in BOOLEAN
    BY <2>1 DEF ArrayIs
  <2> QED BY <2>1, <2>4, <2>7, <2>8
<1>4. ASSUME Clear PROVE BlocksInv'
  <2>1. /\ UNCHANGED <<array, received, dropped>> /\ idents' = << >> /\ idents # << >>
        /\ live' = live - (IF Head(idents).own THEN Len(idents) ELSE 0)
    BY <1>4 DEF Clear, ClearAllIdentifys
  <2>2. Head(idents) = idents[1]
    BY <2>1
  <2>3. live' = live - Listed(idents)
    BY <2>1, <2>2 DEF Listed
  <2>4. Listed(idents) \in Nat
    BY ListedIs
  <2>5. << >> \in Seq(Entries) /\ AllOwn(<< >>, TRUE) /\ Listed(<< >>) = 0
    BY DEF AllOwn, Listed
  <2>6. ArrayIs' /\ dropped' \in BOOLEAN
    BY <2>1 DEF ArrayIs
  <2>7. live' \in Nat /\ live' >= 0 /\ (~ dropped => live' = 0)
    <3> HIDE DEF BlocksInv
    <3>1. live \in Nat /\ live >= Listed(idents) /\ (~ dropped => live = Listed(idents))
      BY DEF BlocksInv
    <3> QED BY <2>3, <2>4, <3>1
  <2>8. \E put \in BOOLEAN : AllOwn(<< >>, put)
    BY <2>5
  <2> QED BY <2>1, <2>5, <2>6, <2>7, <2>8
<1>5. ASSUME UNCHANGED <<array, received, idents, live, dropped>> PROVE BlocksInv'
  <2>1. array' = array /\ received' = received /\ idents' = idents /\ live' = live /\ dropped' = dropped
    BY <1>5
  <2> QED BY <2>1 DEF ArrayIs
<1>6. UNCHANGED sdkVars => UNCHANGED <<array, received, idents, live, dropped>>
  BY DEF sdkVars
<1> HIDE DEF BlocksInv
<1> QED BY <1>1, <1>2, <1>3, <1>4, <1>5, <1>6, BlocksOfStep

\* BlocksFreed: however often arrays are taken and the list is cleared, each block
\* that was made is in the list or freed, unless it was that of an identifier ahead
\* of a module; ParseAllIdentifyFromLastModule forgets those.
THEOREM BlocksAreFreed == SdkSpec => []BlocksFreed
<1>1. SdkInit => BlocksInv
  <2> SUFFICES ASSUME SdkInit PROVE BlocksInv
    OBVIOUS
  <2>1. array = NoArray /\ received = 0 /\ idents = << >> /\ live = 0 /\ dropped = FALSE
    BY DEF SdkInit
  <2>2. << >> \in Seq(Entries) /\ AllOwn(<< >>, TRUE) /\ Listed(<< >>) = 0
    BY DEF AllOwn, Listed
  <2>3. ArrayIs /\ 0 \in Nat /\ FALSE \in BOOLEAN /\ 0 >= 0
    BY <2>1, NoArrayIsWritten DEF ArrayIs
  <2> QED BY <2>1, <2>2, <2>3 DEF BlocksInv
<1>2. BlocksInv /\ [SdkNext]_sdkVars => BlocksInv'
  BY TakingStep
<1>3. BlocksInv => BlocksFreed
  BY ListedIs DEF BlocksInv, BlocksFreed
<1> QED BY <1>1, <1>2, <1>3, PTL DEF SdkSpec
------------------------------------------------------------------------------
(***************************************************************************)
(* Searches of the last module, round by round.                            *)
(***************************************************************************)
Values == Nat \X Int
AreValues(N, w, v) == \A i \in 1 .. N : w[i].type \in 0 .. 255 /\ v[w[i].at] \in Values

NextOfOne(r, i, type, v) ==
    IF IsModule(i.type) THEN [r EXCEPT !.found = FALSE]
    ELSE IF i.type = type THEN [found |-> TRUE, ident |-> v[i.at]]
    ELSE r

LEMMA FoundSet ==
    ASSUME NEW r, r = [found |-> r.found, ident |-> r.ident], NEW e
    PROVE  [r EXCEPT !.found = e] = [found |-> e, ident |-> r.ident]
OBVIOUS

LEMMA LastRun ==
    ASSUME NEW d, NEW type, NEW ident0 \in Values, NEW v, NEW N \in Nat, NEW w,
           AreItems(Items(d), N, w), AreValues(N, w, v)
    PROVE  \E f : /\ f[0] = [found |-> FALSE, ident |-> ident0]
                  /\ \A n \in 1 .. N : f[n] = NextOfOne(f[n - 1], w[n], type, v)
                  /\ ParseLast(d, type, ident0, v) = f[N]
<1> USE DEF AreItems, AreValues
<1> DEFINE S == [found : BOOLEAN, ident : Values]
           base == [found |-> FALSE, ident |-> ident0]
           items == [i \in 1 .. N |-> w[i]]
           step == [n \in 1 .. N |-> [r \in S |-> NextOfOne(r, w[n], type, v)]]
           Iter(h) == [s \in SUBSET (DOMAIN items) |->
                         IF s = {} THEN base
                         ELSE NextOfOne(h[s \ {Max(s)}], items[Max(s)], type, v)]
           G == CHOOSE h : h = Iter(h)
<1>1. ASSUME NEW n \in 1 .. N, NEW r \in S PROVE NextOfOne(r, w[n], type, v) \in S
  <2>1. r.found \in BOOLEAN /\ r.ident \in Values /\ r = [found |-> r.found, ident |-> r.ident]
    OBVIOUS
  <2>2. [r EXCEPT !.found = FALSE] = [found |-> FALSE, ident |-> r.ident]
    BY <2>1, FoundSet
  <2>3. v[w[n].at] \in Values
    OBVIOUS
  <2> HIDE DEF AreValues, AreItems
  <2> QED BY <2>1, <2>2, <2>3 DEF NextOfOne
<1>2. AreSteps(step, N, S) /\ base \in S
  BY <1>1 DEF AreSteps
<1>3. PICK g : IsFold(g, N, S, base, step)
  <2> HIDE DEF S, base, step
  <2> QED BY <1>2, FoldExists
<1>4. g = Iter(g)
  <2>1. DOMAIN items = 1 .. N
    OBVIOUS
  <2>2. ASSUME NEW s \in SUBSET (1 .. N), s # {}
        PROVE  g[s] = NextOfOne(g[s \ {Max(s)}], items[Max(s)], type, v)
    <3>1. Max(s) \in 1 .. N /\ s \ {Max(s)} \in SUBSET (1 .. N)
      BY <2>2, MaxOf
    <3>2. g[s \ {Max(s)}] \in S
      BY <1>3, <3>1 DEF IsFold
    <3>3. g[s] = step[Max(s)][g[s \ {Max(s)}]]
      BY <1>3, <2>2 DEF IsFold
    <3> QED BY <3>1, <3>2, <3>3
  <2>3. g[{}] = base /\ g = [s \in SUBSET (1 .. N) |-> g[s]]
    BY <1>3 DEF IsFold
  <2> QED BY <2>1, <2>2, <2>3
<1>5. G = Iter(G)
  <2> HIDE DEF Iter
  <2> QED BY <1>4
<1>6. ParseLast(d, type, ident0, v) = G[DOMAIN items]
  BY DEF ParseLast, FoldLeft, MapThenFoldSet, NextOfOne
<1>7. ASSUME NEW n \in 1 .. N
      PROVE  G[1 .. n] = NextOfOne(G[1 .. n - 1], w[n], type, v)
  <2> DEFINE s == 1 .. n
  <2>1. /\ Max(s) = n /\ s \ {Max(s)} = 1 .. n - 1 /\ s # {}
        /\ s \in SUBSET (DOMAIN items) /\ items[n] = w[n]
    BY UpToLast
  <2> HIDE DEF s, items, base, G
  <2>2. G[s] = NextOfOne(G[s \ {Max(s)}], items[Max(s)], type, v)
    BY <1>5, <2>1
  <2> QED BY <2>1, <2>2 DEF s
<1>8. G[1 .. 0] = base /\ DOMAIN items = 1 .. N
  <2>1. {} \in SUBSET (DOMAIN items) /\ 1 .. 0 = {} /\ DOMAIN items = 1 .. N
    OBVIOUS
  <2> HIDE DEF G, base, items
  <2>2. G[{}] = base
    BY <1>5, <2>1
  <2> QED BY <2>1, <2>2
<1> DEFINE f == [n \in 0 .. N |-> G[1 .. n]]
<1>9. \A n \in 1 .. N : n \in 0 .. N /\ n - 1 \in 0 .. N
  OBVIOUS
<1> HIDE DEF G, items, Iter
<1>10. f[0] = base /\ f[N] = G[DOMAIN items] /\ \A n \in 1 .. N : f[n] = NextOfOne(f[n - 1], w[n], type, v)
  BY <1>7, <1>8, <1>9
<1> HIDE DEF f
<1> QED BY <1>6, <1>10

\* The identifiers of a type behind the last module, of the first n; x is the last.
BehindIn(w, n, t) ==
    {i \in 1 .. n : w[i].type = t /\ \A j \in 1 .. n : IsModule(w[j].type) => j < i}
IsLastIn(x, w, n, t, v) ==
    \E i \in BehindIn(w, n, t) :
        x = v[w[i].at] /\ \A j \in BehindIn(w, n, t) : j <= i

LEMMA BehindNext ==
    ASSUME NEW w, NEW k \in Nat \ {0}, NEW t, ~ IsModule(t)
    PROVE  /\ IsModule(w[k].type) => BehindIn(w, k, t) = {}
           /\ ~ IsModule(w[k].type) /\ w[k].type = t =>
                BehindIn(w, k, t) = BehindIn(w, k - 1, t) \cup {k}
           /\ ~ IsModule(w[k].type) /\ w[k].type # t =>
                BehindIn(w, k, t) = BehindIn(w, k - 1, t)
           /\ BehindIn(w, k - 1, t) \subseteq 1 .. k - 1
<1>1. /\ \A i \in 1 .. k : i \in 1 .. k - 1 \/ i = k
      /\ \A i \in 1 .. k - 1 : i \in 1 .. k /\ i # k /\ i < k
      /\ k \in 1 .. k /\ ~ (k < k)
  OBVIOUS
<1>2. IsModule(w[k].type) => BehindIn(w, k, t) = {}
  <2>1. \A i \in 1 .. k : ~ (k < i)
    OBVIOUS
  <2> QED BY <1>1, <2>1 DEF BehindIn
<1>3. ~ IsModule(w[k].type) =>
        /\ \A i \in 1 .. k - 1 : i \in BehindIn(w, k, t) <=> i \in BehindIn(w, k - 1, t)
        /\ k \in BehindIn(w, k, t) <=> w[k].type = t
  BY <1>1 DEF BehindIn
<1>4. BehindIn(w, k - 1, t) \subseteq 1 .. k - 1 /\ BehindIn(w, k, t) \subseteq 1 .. k
  BY DEF BehindIn
<1>5. ~ IsModule(w[k].type) /\ w[k].type = t =>
        BehindIn(w, k, t) = BehindIn(w, k - 1, t) \cup {k}
  BY <1>1, <1>3, <1>4
<1>6. ~ IsModule(w[k].type) /\ w[k].type # t => BehindIn(w, k, t) = BehindIn(w, k - 1, t)
  BY <1>1, <1>3, <1>4
<1> QED BY <1>2, <1>4, <1>5, <1>6

\* So does the last of them.
LEMMA LastNext ==
    ASSUME NEW w, NEW k \in Nat \ {0}, NEW t, ~ IsModule(t), ~ IsModule(w[k].type), NEW v
    PROVE  /\ w[k].type = t => IsLastIn(v[w[k].at], w, k, t, v)
           /\ w[k].type # t => \A x : IsLastIn(x, w, k - 1, t, v) => IsLastIn(x, w, k, t, v)
<1>1. /\ w[k].type = t => BehindIn(w, k, t) = BehindIn(w, k - 1, t) \cup {k}
      /\ w[k].type # t => BehindIn(w, k, t) = BehindIn(w, k - 1, t)
      /\ BehindIn(w, k - 1, t) \subseteq 1 .. k - 1
  BY BehindNext
<1>2. \A j \in 1 .. k - 1 : j <= k
  OBVIOUS
<1>3. w[k].type = t => IsLastIn(v[w[k].at], w, k, t, v)
  <2> SUFFICES ASSUME w[k].type = t PROVE IsLastIn(v[w[k].at], w, k, t, v)
    OBVIOUS
  <2>1. k \in BehindIn(w, k, t) /\ \A j \in BehindIn(w, k, t) : j <= k
    BY <1>1, <1>2
  <2> QED BY <2>1 DEF IsLastIn
<1> QED BY <1>1, <1>3 DEF IsLastIn

\* What a loop reads of an array: the first N of the m whole identifiers.
IsRead(a, n, items, N, m) ==
    /\ N \in 0 .. m /\ AreItems(items, N, a.wrote) /\ AreValues(N, a.wrote, ValuesOf(a, n))
    /\ \A i \in 1 .. m : SizeIn(a, i) > 0 => i <= N

LEMMA ArrayIsRead ==
    ASSUME NEW a, IsWritten(a), NEW n \in Nat, NEW m \in Nat, IsWholeUpTo(a, m)
    PROVE  /\ \E N \in Nat : IsRead(a, n, Items(a.bytes), N, m)
           /\ \E N \in Nat : IsRead(a, n, ItemsByOffset(a.bytes), N, m)
<1>1. m <= Len(a.wrote) /\ Len(a.wrote) \in Nat
  BY WrittenOne DEF IsWholeUpTo
<1>2. ASSUME NEW N \in 0 .. m PROVE AreValues(N, a.wrote, ValuesOf(a, n)) /\ N \in Nat
  <2>1. ASSUME NEW i \in 1 .. N
        PROVE  a.wrote[i].type \in 0 .. 255 /\ ValuesOf(a, n)[a.wrote[i].at] \in Values
    <3>1. i \in 1 .. Len(a.wrote)
      BY <1>1
    <3>2. /\ a.wrote[i].type \in 0 .. 255 /\ a.wrote[i].at \in 1 .. Len(a.bytes)
          /\ Len(a.bytes) \in Nat
      BY <3>1, WrittenOne
    <3>3. ValuesOf(a, n)[a.wrote[i].at] = <<n, a.wrote[i].at>>
      BY <3>2 DEF ValuesOf
    <3> QED BY <3>2, <3>3 DEF Values
  <2> QED BY <2>1 DEF AreValues
<1>3. ASSUME NEW items, ReadsWhole(a, items, m) PROVE \E N \in Nat : IsRead(a, n, items, N, m)
  <2>1. PICK N \in 0 .. m : /\ items = FirstOfArray(a, N)
                            /\ \A i \in 1 .. m : SizeIn(a, i) > 0 => i <= N
    BY <1>3 DEF ReadsWhole
  <2>2. IsRead(a, n, items, N, m)
    BY <1>2, <2>1 DEF IsRead, AreItems, FirstOfArray
  <2> QED BY <1>2, <2>2
<1>4. ReadsWhole(a, Items(a.bytes), m) /\ ReadsWhole(a, ItemsByOffset(a.bytes), m)
  BY ItemsAre, ItemsByOffsetAre
<1> QED BY <1>3, <1>4

\* What is left out has no size, and is neither a module nor looked for.
LEMMA BehindWhole ==
    ASSUME NEW a, IsWritten(a), NEW n, NEW items, NEW m \in Nat, NEW N, IsWholeUpTo(a, m),
           IsRead(a, n, items, N, m), NEW t, getIdentifySize[t] > 0
    PROVE  BehindIn(a.wrote, N, t) = BehindIn(a.wrote, m, t)
<1>1. /\ m <= Len(a.wrote) /\ Len(a.wrote) \in Nat /\ N \in 0 .. m
      /\ \A i \in 1 .. m : SizeIn(a, i) > 0 => i <= N
  BY WrittenOne DEF IsWholeUpTo, IsRead
<1>2. \A i \in 1 .. N : i \in 1 .. m
  BY <1>1
<1>3. ASSUME NEW i \in 1 .. m, IsModule(a.wrote[i].type) \/ a.wrote[i].type = t
      PROVE  i \in 1 .. N
  <2>1. i \in 1 .. Len(a.wrote)
    BY <1>1
  <2>2. a.wrote[i].type \in 0 .. 255
    BY <2>1, WrittenOne
  <2>3. SizeIn(a, i) > 0
    BY <1>3, <2>2, SizeIsNat DEF SizeIn
  <2> QED BY <1>1, <2>3
<1> QED BY <1>2, <1>3 DEF BehindIn

LEMMA FoundLast ==
    ASSUME NEW a, IsWritten(a), NEW n \in Nat, NEW m \in Nat, IsWholeUpTo(a, m),
           NEW t, ~ IsModule(t), getIdentifySize[t] > 0, NEW ident0 \in Values,
           NEW r, r = ParseLast(a.bytes, t, ident0, ValuesOf(a, n))
    PROVE  /\ r = [found |-> r.found, ident |-> r.ident] /\ r.found \in BOOLEAN
           /\ r.found <=> BehindIn(a.wrote, m, t) # {}
           /\ r.found => IsLastIn(r.ident, a.wrote, m, t, ValuesOf(a, n))
<1> DEFINE v == ValuesOf(a, n)
           w == a.wrote
<1>1. PICK N \in Nat : IsRead(a, n, Items(a.bytes), N, m)
  BY ArrayIsRead
<1>2. AreItems(Items(a.bytes), N, w) /\ AreValues(N, w, v)
  BY <1>1 DEF IsRead
<1> HIDE DEF v, w
<1>3. PICK f : /\ f[0] = [found |-> FALSE, ident |-> ident0]
               /\ \A i \in 1 .. N : f[i] = NextOfOne(f[i - 1], w[i], t, v)
               /\ ParseLast(a.bytes, t, ident0, v) = f[N]
  BY <1>2, LastRun
<1> DEFINE Good(x, i) ==
             /\ x = [found |-> x.found, ident |-> x.ident] /\ x.found \in BOOLEAN
             /\ x.found <=> BehindIn(w, i, t) # {}
             /\ x.found => IsLastIn(x.ident, w, i, t, v)
           P == {i \in 0 .. N : Good(f[i], i)}
<1>4. 0 \in P
  <2>1. BehindIn(w, 0, t) = {} /\ 0 \in 0 .. N
    BY DEF BehindIn
  <2>2. Good([found |-> FALSE, ident |-> ident0], 0)
    BY <2>1
  <2> HIDE DEF Good
  <2> QED BY <1>3, <2>1, <2>2
<1>5. ASSUME NEW i \in 0 .. N, i < N, i \in P PROVE i + 1 \in P
  <2> DEFINE k == i + 1
             x == f[i]
             y == NextOfOne(x, w[k], t, v)
  <2>1. k \in 1 .. N /\ k - 1 = i /\ k \in 0 .. N /\ k \in Nat \ {0}
    BY <1>5
  <2>2. f[k] = y /\ Good(x, i)
    BY <1>3, <1>5, <2>1
  <2> HIDE DEF k, x
  <2>3. CASE IsModule(w[k].type)
    <3>1. y = [x EXCEPT !.found = FALSE]
      BY <2>3 DEF NextOfOne
    <3>2. x = [found |-> x.found, ident |-> x.ident]
      BY <2>2
    <3>3. y = [found |-> FALSE, ident |-> x.ident]
      BY <3>1, <3>2, FoundSet
    <3>4. BehindIn(w, k, t) = {}
      BY <2>1, <2>3, BehindNext
    <3>5. Good([found |-> FALSE, ident |-> x.ident], k)
      BY <3>4
    <3> HIDE DEF y, Good
    <3> QED BY <2>1, <2>2, <3>3, <3>5 DEF k
  <2>4. CASE ~ IsModule(w[k].type) /\ w[k].type = t
    <3>1. y = [found |-> TRUE, ident |-> v[w[k].at]]
      BY <2>4 DEF NextOfOne
    <3>2. BehindIn(w, k, t) # {}
      BY <2>1, <2>4, BehindNext
    <3>3. IsLastIn(v[w[k].at], w, k, t, v)
      BY <2>1, <2>4, LastNext
    <3>4. Good([found |-> TRUE, ident |-> v[w[k].at]], k)
      BY <3>2, <3>3
    <3> HIDE DEF y, Good
    <3> QED BY <2>1, <2>2, <3>1, <3>4 DEF k
  <2>5. CASE ~ IsModule(w[k].type) /\ w[k].type # t
    <3>1. y = x
      BY <2>5 DEF NextOfOne
    <3>2. BehindIn(w, k, t) = BehindIn(w, i, t)
      BY <2>1, <2>5, BehindNext
    <3>3. \A z : IsLastIn(z, w, i, t, v) => IsLastIn(z, w, k, t, v)
      BY <2>1, <2>5, LastNext
    <3>4. Good(x, k)
      BY <2>2, <3>2, <3>3
    <3> HIDE DEF y, Good
    <3> QED BY <2>1, <2>2, <3>1, <3>4 DEF k
  <2> QED BY <2>3, <2>4, <2>5
<1>6. Good(f[N], N)
  <2> HIDE DEF Good
  <2>1. \A i \in 0 .. N : i \in P
    <3> HIDE DEF P
    <3> QED BY <1>4, <1>5, Climb
  <2> QED BY <2>1
<1>7. BehindIn(w, N, t) = BehindIn(w, m, t)
  BY <1>1, BehindWhole DEF w
<1>8. r = f[N]
  BY <1>3 DEF v
<1>9. \A x : IsLastIn(x, w, N, t, v) <=> IsLastIn(x, w, m, t, v)
  BY <1>7 DEF IsLastIn
<1> QED BY <1>6, <1>7, <1>8, <1>9 DEF w, v

LEMMA FirstOfIs ==
    ASSUME NEW X, NEW s \in Seq(X), NEW t
    PROVE  \/ FirstOf(s, t) = 0 /\ \A i \in 1 .. Len(s) : s[i].type # t
           \/ /\ FirstOf(s, t) \in 1 .. Len(s) /\ s[FirstOf(s, t)].type = t
              /\ \A i \in 1 .. Len(s) : s[i].type = t => FirstOf(s, t) <= i
<1> DEFINE I == {i \in 1 .. Len(s) : s[i].type = t}
<1>1. FirstOf(s, t) = IF I # {} THEN Min(I) ELSE 0
  BY DEF FirstOf, SelectInSeq
<1>2. CASE I = {}
  BY <1>1, <1>2
<1>3. CASE I # {}
  <2>1. I \in SUBSET Nat
    OBVIOUS
  <2> DEFINE J == I
  <2> HIDE DEF J
  <2>2. \E i \in J : \A j \in J : i <= j
    BY <1>3, <2>1, LeastNumber DEF J
  <2>3. Min(J) \in J /\ \A j \in J : Min(J) <= j
    BY <2>2 DEF Min
  <2> QED BY <1>1, <1>3, <2>3 DEF J
<1> QED BY <1>2, <1>3

SearchEntries == [type : 0 .. 255, ident : Values]

LEMMA TypesSet ==
    ASSUME NEW r, r = [types |-> r.types, idents |-> r.idents], NEW e
    PROVE  [r EXCEPT !.types = e] = [types |-> e, idents |-> r.idents]
OBVIOUS

\* An entry is filled in.
LEMMA EntrySet ==
    ASSUME NEW s \in Seq(SearchEntries), NEW h \in 1 .. Len(s), NEW x \in Values
    PROVE  /\ [s EXCEPT ![h].ident = x] \in Seq(SearchEntries)
           /\ Len([s EXCEPT ![h].ident = x]) = Len(s)
           /\ \A k \in 1 .. Len(s) :
                /\ [s EXCEPT ![h].ident = x][k].type = s[k].type
                /\ [s EXCEPT ![h].ident = x][k].ident = IF k = h THEN x ELSE s[k].ident
<1> DEFINE z == [s EXCEPT ![h].ident = x]
<1>1. /\ Len(s) \in Nat /\ DOMAIN s = 1 .. Len(s)
      /\ \A k \in 1 .. Len(s) : s[k] \in SearchEntries
  BY IsElement
<1>2. ASSUME NEW k \in 1 .. Len(s)
      PROVE  /\ z[k] \in SearchEntries /\ z[k].type = s[k].type
             /\ z[k].ident = IF k = h THEN x ELSE s[k].ident
  <2>1. CASE k = h
    <3>1. z[k] = [s[k] EXCEPT !.ident = x]
      BY <1>1, <2>1
    <3>2. s[k] \in [type : 0 .. 255, ident : Values]
      BY <1>1 DEF SearchEntries
    <3>3. /\ [s[k] EXCEPT !.ident = x] \in [type : 0 .. 255, ident : Values]
          /\ [s[k] EXCEPT !.ident = x].type = s[k].type
          /\ [s[k] EXCEPT !.ident = x].ident = x
      BY <3>2
    <3> HIDE DEF z
    <3> QED BY <2>1, <3>1, <3>3 DEF SearchEntries
  <2>2. CASE k # h
    <3>1. z[k] = s[k]
      BY <1>1, <2>2
    <3> HIDE DEF z
    <3> QED BY <1>1, <2>2, <3>1
  <2> QED BY <2>1, <2>2
<1>3. DOMAIN z = 1 .. Len(s) /\ z = [k \in 1 .. Len(s) |-> z[k]]
  BY <1>1
<1> HIDE DEF z
<1>4. z \in [1 .. Len(s) -> SearchEntries]
  BY <1>2, <1>3
<1>5. z \in Seq(SearchEntries) /\ Len(z) = Len(s)
  BY <1>1, <1>4
<1> QED BY <1>2, <1>5 DEF z

SearchStates == [types : SUBSET (0 .. 255), idents : Seq(SearchEntries)]

LEMMA NotedIs ==
    ASSUME NEW r \in SearchStates, NEW i, i.type \in 0 .. 255, NEW v, v[i.at] \in Values
    PROVE  /\ Noted(r, i, v) \in SearchStates
           /\ IsModule(i.type) => Noted(r, i, v) = [types |-> {}, idents |-> r.idents]
           /\ ~ IsModule(i.type) /\ (\A k \in 1 .. Len(r.idents) : r.idents[k].type # i.type) =>
                Noted(r, i, v) = r
           /\ ~ IsModule(i.type) =>
                \A h \in 1 .. Len(r.idents) :
                  /\ r.idents[h].type = i.type
                  /\ \A k \in 1 .. Len(r.idents) : r.idents[k].type = i.type => k = h
                  => Noted(r, i, v) = [types |-> r.types \cup {i.type},
                                       idents |-> [r.idents EXCEPT ![h].ident = v[i.at]]]
<1> DEFINE hit == FirstOf(r.idents, i.type)
           new == [r.idents EXCEPT ![hit].ident = v[i.at]]
<1>1. /\ r = [types |-> r.types, idents |-> r.idents]
      /\ r.types \in SUBSET (0 .. 255) /\ r.idents \in Seq(SearchEntries)
  BY DEF SearchStates
<1>2. \/ hit = 0 /\ \A k \in 1 .. Len(r.idents) : r.idents[k].type # i.type
      \/ hit \in 1 .. Len(r.idents) /\ r.idents[hit].type = i.type
  BY <1>1, FirstOfIs
<1>3. hit # 0 => new \in Seq(SearchEntries)
  BY <1>1, <1>2, EntrySet
<1>4. /\ IsModule(i.type) => Noted(r, i, v) = [r EXCEPT !.types = {}]
      /\ ~ IsModule(i.type) /\ hit = 0 => Noted(r, i, v) = r
      /\ ~ IsModule(i.type) /\ hit # 0 =>
           Noted(r, i, v) = [types |-> r.types \cup {i.type}, idents |-> new]
  BY DEF Noted
<1>5. [r EXCEPT !.types = {}] = [types |-> {}, idents |-> r.idents]
  BY <1>1, TypesSet
<1>6. hit = 0 <=> \A k \in 1 .. Len(r.idents) : r.idents[k].type # i.type
  <2>1. Len(r.idents) \in Nat
    BY <1>1
  <2> HIDE DEF hit
  <2> QED BY <1>2, <2>1
<1> HIDE DEF hit
<1>7. Noted(r, i, v) \in SearchStates
  <2>1. r.types \cup {i.type} \in SUBSET (0 .. 255) /\ {} \in SUBSET (0 .. 255)
    BY <1>1
  <2> HIDE DEF new
  <2>2. CASE IsModule(i.type)
    BY <1>1, <1>4, <1>5, <2>1, <2>2 DEF SearchStates
  <2>3. CASE ~ IsModule(i.type) /\ hit = 0
    BY <1>4, <2>3
  <2>4. CASE ~ IsModule(i.type) /\ hit # 0
    <3> DEFINE ts == r.types \cup {i.type}
    <3>1. Noted(r, i, v) = [types |-> ts, idents |-> new] /\ ts \in SUBSET (0 .. 255)
      BY <1>4, <2>1, <2>4
    <3>2. new \in Seq(SearchEntries)
      BY <1>3, <2>4
    <3> HIDE DEF ts
    <3> QED BY <3>1, <3>2 DEF SearchStates
  <2> QED BY <2>2, <2>3, <2>4
<1>8. ASSUME ~ IsModule(i.type), NEW h \in 1 .. Len(r.idents), r.idents[h].type = i.type,
             \A k \in 1 .. Len(r.idents) : r.idents[k].type = i.type => k = h
      PROVE  Noted(r, i, v) = [types |-> r.types \cup {i.type},
                               idents |-> [r.idents EXCEPT ![h].ident = v[i.at]]]
  <2>1. hit # 0
    BY <1>6, <1>8
  <2>2. hit = h
    BY <1>2, <1>8, <2>1
  <2> QED BY <1>4, <1>8, <2>1, <2>2
<1>9. IsModule(i.type) => Noted(r, i, v) = [types |-> {}, idents |-> r.idents]
  BY <1>4, <1>5
<1>10. ~ IsModule(i.type) /\ (\A k \in 1 .. Len(r.idents) : r.idents[k].type # i.type) =>
         Noted(r, i, v) = r
  BY <1>4, <1>6
<1> HIDE DEF new
<1> QED BY <1>7, <1>8, <1>9, <1>10

LEMMA SearchedRun ==
    ASSUME NEW d, NEW idents0 \in Seq(SearchEntries), NEW v, NEW N \in Nat, NEW w,
           AreItems(Items(d), N, w), AreValues(N, w, v)
    PROVE  \E f : /\ f[0] = [types |-> {}, idents |-> idents0]
                  /\ \A n \in 1 .. N : f[n] = Noted(f[n - 1], w[n], v)
                  /\ Searched(d, idents0, v) = f[N]
<1> USE DEF AreItems, AreValues
<1> DEFINE S == SearchStates
           base == [types |-> {}, idents |-> idents0]
           items == [i \in 1 .. N |-> w[i]]
           step == [n \in 1 .. N |-> [r \in S |-> Noted(r, w[n], v)]]
           Iter(h) == [s \in SUBSET (DOMAIN items) |->
                         IF s = {} THEN base
                         ELSE Noted(h[s \ {Max(s)}], items[Max(s)], v)]
           G == CHOOSE h : h = Iter(h)
<1>1. ASSUME NEW n \in 1 .. N, NEW r \in S PROVE Noted(r, w[n], v) \in S
  <2>1. w[n].type \in 0 .. 255 /\ v[w[n].at] \in Values
    OBVIOUS
  <2> QED BY <2>1, NotedIs
<1>2. AreSteps(step, N, S) /\ base \in S
  BY <1>1 DEF AreSteps, SearchStates
<1>3. PICK g : IsFold(g, N, S, base, step)
  <2> HIDE DEF S, base, step
  <2> QED BY <1>2, FoldExists
<1>4. g = Iter(g)
  <2>1. DOMAIN items = 1 .. N
    OBVIOUS
  <2>2. ASSUME NEW s \in SUBSET (1 .. N), s # {}
        PROVE  g[s] = Noted(g[s \ {Max(s)}], items[Max(s)], v)
    <3>1. Max(s) \in 1 .. N /\ s \ {Max(s)} \in SUBSET (1 .. N)
      BY <2>2, MaxOf
    <3>2. g[s \ {Max(s)}] \in S
      BY <1>3, <3>1 DEF IsFold
    <3>3. g[s] = step[Max(s)][g[s \ {Max(s)}]]
      BY <1>3, <2>2 DEF IsFold
    <3> QED BY <3>1, <3>2, <3>3
  <2>3. g[{}] = base /\ g = [s \in SUBSET (1 .. N) |-> g[s]]
    BY <1>3 DEF IsFold
  <2> QED BY <2>1, <2>2, <2>3
<1>5. G = Iter(G)
  <2> HIDE DEF Iter
  <2> QED BY <1>4
<1>6. Searched(d, idents0, v) = G[DOMAIN items]
  BY DEF Searched, FoldLeft, MapThenFoldSet
<1>7. ASSUME NEW n \in 1 .. N
      PROVE  G[1 .. n] = Noted(G[1 .. n - 1], w[n], v)
  <2> DEFINE s == 1 .. n
  <2>1. /\ Max(s) = n /\ s \ {Max(s)} = 1 .. n - 1 /\ s # {}
        /\ s \in SUBSET (DOMAIN items) /\ items[n] = w[n]
    BY UpToLast
  <2> HIDE DEF s, items, base, G
  <2>2. G[s] = Noted(G[s \ {Max(s)}], items[Max(s)], v)
    BY <1>5, <2>1
  <2> QED BY <2>1, <2>2 DEF s
<1>8. G[1 .. 0] = base /\ DOMAIN items = 1 .. N
  <2>1. {} \in SUBSET (DOMAIN items) /\ 1 .. 0 = {} /\ DOMAIN items = 1 .. N
    OBVIOUS
  <2> HIDE DEF G, base, items
  <2>2. G[{}] = base
    BY <1>5, <2>1
  <2> QED BY <2>1, <2>2
<1> DEFINE f == [n \in 0 .. N |-> G[1 .. n]]
<1>9. \A n \in 1 .. N : n \in 0 .. N /\ n - 1 \in 0 .. N
  OBVIOUS
<1> HIDE DEF G, items, Iter
<1>10. f[0] = base /\ f[N] = G[DOMAIN items]
  BY <1>8
<1>11. \A n \in 1 .. N : f[n] = G[1 .. n] /\ f[n - 1] = G[1 .. n - 1]
  BY <1>9
<1> HIDE DEF f
<1>12. \A n \in 1 .. N : f[n] = Noted(f[n - 1], w[n], v)
  BY <1>7, <1>11
<1> QED BY <1>6, <1>10, <1>12

\* A list in which list is searched for, with whatever values.
IsSearch(s, list) ==
    /\ s \in Seq(SearchEntries) /\ Len(s) = Len(list)
    /\ \A k \in 1 .. Len(list) : s[k].type = list[k]

LEMMA SearchedOne ==
    ASSUME NEW list, IsSearched(list)
    PROVE  /\ list \in Seq(0 .. 255) /\ Len(list) \in Nat /\ DOMAIN list = 1 .. Len(list)
           /\ \A k, h \in 1 .. Len(list) : list[k] = list[h] => k = h
           /\ \A k \in 1 .. Len(list) : /\ list[k] \in Range(list) /\ list[k] \in 0 .. 255
                                        /\ ~ IsModule(list[k]) /\ getIdentifySize[list[k]] > 0
           /\ \A t \in Range(list) : \E k \in 1 .. Len(list) : list[k] = t
<1>1. list \in Seq(0 .. 255) /\ Len(list) \in Nat /\ DOMAIN list = 1 .. Len(list)
  BY DEF IsSearched
<1>2. \A k \in 1 .. Len(list) : list[k] \in 0 .. 255
  BY <1>1, IsElement
<1> QED BY <1>1, <1>2 DEF IsSearched, IsInjective, Range

\* The whole list was found if its types have all been noted.
LEMMA AllNoted ==
    ASSUME NEW list, IsSearched(list), NEW r, Len(r.idents) = Len(list),
           r.types \in SUBSET Range(list)
    PROVE  IsFound(r) <=> \A k \in 1 .. Len(list) : list[k] \in r.types
<1>1. IsFiniteSet(Range(list)) /\ Cardinality(Range(list)) = Len(list)
  BY DistinctCounted DEF IsSearched
<1>2. Cardinality(r.types) = Cardinality(Range(list)) => r.types = Range(list)
  BY <1>1, FS_Subset
<1>3. IsFound(r) <=> r.types = Range(list)
  BY <1>1, <1>2 DEF IsFound
<1>4. (\A k \in 1 .. Len(list) : list[k] \in r.types) <=> Range(list) \subseteq r.types
  BY SearchedOne
<1> QED BY <1>3, <1>4

NotedUpTo(x, w, i, list, v) ==
    /\ x \in SearchStates /\ IsSearch(x.idents, list)
    /\ x.types \in SUBSET Range(list)
    /\ \A k \in 1 .. Len(list) :
          /\ list[k] \in x.types <=> BehindIn(w, i, list[k]) # {}
          /\ list[k] \in x.types => IsLastIn(x.idents[k].ident, w, i, list[k], v)

LEMMA NotedNext ==
    ASSUME NEW list, IsSearched(list), NEW w, NEW k \in Nat \ {0}, NEW v,
           w[k].type \in 0 .. 255, v[w[k].at] \in Values,
           NEW x, NotedUpTo(x, w, k - 1, list, v)
    PROVE  NotedUpTo(Noted(x, w[k], v), w, k, list, v)
<1> DEFINE y == Noted(x, w[k], v)
           t == w[k].type
<1>1. /\ x \in SearchStates /\ IsSearch(x.idents, list) /\ x.types \in SUBSET Range(list)
      /\ \A j \in 1 .. Len(list) :
           /\ list[j] \in x.types <=> BehindIn(w, k - 1, list[j]) # {}
           /\ list[j] \in x.types => IsLastIn(x.idents[j].ident, w, k - 1, list[j], v)
  BY DEF NotedUpTo
<1>2. /\ Len(x.idents) = Len(list) /\ x.idents \in Seq(SearchEntries)
      /\ \A j \in 1 .. Len(list) : x.idents[j].type = list[j]
  BY <1>1 DEF IsSearch
<1>3. y \in SearchStates
  BY <1>1, NotedIs
<1>4. CASE IsModule(t)
  <2>1. y = [types |-> {}, idents |-> x.idents]
    BY <1>1, <1>4, NotedIs
  <2>2. \A j \in 1 .. Len(list) : BehindIn(w, k, list[j]) = {}
    BY <1>4, SearchedOne, BehindNext
  <2>3. y.types = {} /\ y.idents = x.idents
    BY <2>1
  <2> HIDE DEF y
  <2> QED BY <1>1, <1>3, <2>2, <2>3 DEF NotedUpTo, y
<1>5. CASE ~ IsModule(t) /\ \A j \in 1 .. Len(list) : list[j] # t
  <2>0. \A j \in 1 .. Len(x.idents) : x.idents[j].type # t
    BY <1>2, <1>5
  <2>1. y = x
    BY <1>1, <1>5, <2>0, NotedIs
  <2>2. ASSUME NEW j \in 1 .. Len(list)
        PROVE  /\ BehindIn(w, k, list[j]) = BehindIn(w, k - 1, list[j])
               /\ \A z : IsLastIn(z, w, k - 1, list[j], v) => IsLastIn(z, w, k, list[j], v)
    <3>1. ~ IsModule(list[j]) /\ list[j] # t
      BY <1>5, SearchedOne
    <3> QED BY <1>5, <3>1, BehindNext, LastNext
  <2> HIDE DEF y
  <2> QED BY <1>1, <2>1, <2>2 DEF NotedUpTo, y
<1>6. ASSUME ~ IsModule(t), NEW h \in 1 .. Len(list), list[h] = t
      PROVE  NotedUpTo(y, w, k, list, v)
  <2> DEFINE new == [x.idents EXCEPT ![h].ident = v[w[k].at]]
             ts == x.types \cup {t}
  <2>1. /\ \A j \in 1 .. Len(x.idents) : x.idents[j].type = t => j = h
        /\ h \in 1 .. Len(x.idents) /\ x.idents[h].type = t
    BY <1>2, <1>6, SearchedOne
  <2>2. y = [types |-> ts, idents |-> new]
    <3>1. \A j \in 1 .. Len(x.idents) :
            /\ x.idents[j].type = t
            /\ \A i \in 1 .. Len(x.idents) : x.idents[i].type = t => i = j
            => y = [types |-> x.types \cup {t},
                    idents |-> [x.idents EXCEPT ![j].ident = v[w[k].at]]]
      BY <1>1, <1>6, NotedIs
    <3> HIDE DEF y
    <3> QED BY <2>1, <3>1
  <2>3. /\ new \in Seq(SearchEntries) /\ Len(new) = Len(list)
        /\ \A j \in 1 .. Len(list) :
             /\ new[j].type = list[j]
             /\ new[j].ident = IF j = h THEN v[w[k].at] ELSE x.idents[j].ident
    BY <1>2, EntrySet
  <2>4. IsSearch(new, list)
    BY <2>3 DEF IsSearch
  <2>5. ts \in SUBSET Range(list)
    BY <1>1, <1>6, SearchedOne
  <2>6. ASSUME NEW j \in 1 .. Len(list)
        PROVE  /\ list[j] \in ts <=> BehindIn(w, k, list[j]) # {}
               /\ list[j] \in ts => IsLastIn(new[j].ident, w, k, list[j], v)
    <3>1. ~ IsModule(list[j])
      BY SearchedOne
    <3>2. CASE j = h
      <4>1. k \in BehindIn(w, k, list[j])
        BY <1>6, <3>1, <3>2, BehindNext
      <4>2. IsLastIn(v[w[k].at], w, k, list[j], v)
        BY <1>6, <3>1, <3>2, LastNext
      <4>3. new[j].ident = v[w[k].at] /\ list[j] \in ts
        BY <1>6, <2>3, <3>2
      <4> QED BY <4>1, <4>2, <4>3
    <3>3. CASE j # h
      <4>1. list[j] # t
        BY <1>6, <3>3, SearchedOne
      <4>2. BehindIn(w, k, list[j]) = BehindIn(w, k - 1, list[j])
        BY <1>6, <3>1, <4>1, BehindNext
      <4>3. \A z : IsLastIn(z, w, k - 1, list[j], v) => IsLastIn(z, w, k, list[j], v)
        BY <1>6, <3>1, <4>1, LastNext
      <4>4. new[j].ident = x.idents[j].ident /\ (list[j] \in ts <=> list[j] \in x.types)
        BY <2>3, <3>3, <4>1
      <4> HIDE DEF new, ts
      <4> QED BY <1>1, <4>2, <4>3, <4>4
    <3> QED BY <3>2, <3>3
  <2>7. y.types = ts /\ y.idents = new
    BY <2>2
  <2> HIDE DEF new, ts, y
  <2> QED BY <1>3, <2>4, <2>5, <2>6, <2>7 DEF NotedUpTo
<1> HIDE DEF y
<1> QED BY <1>4, <1>5, <1>6 DEF y

LEMMA FoundList ==
    ASSUME NEW a, IsWritten(a), NEW n \in Nat, NEW m \in Nat, IsWholeUpTo(a, m),
           NEW list, IsSearched(list), NEW s, IsSearch(s, list),
           NEW r, r = Searched(a.bytes, s, ValuesOf(a, n))
    PROVE  /\ IsSearch(r.idents, list)
           /\ IsFound(r) <=> \A k \in 1 .. Len(list) : BehindIn(a.wrote, m, list[k]) # {}
           /\ IsFound(r) => \A k \in 1 .. Len(list) :
                IsLastIn(r.idents[k].ident, a.wrote, m, list[k], ValuesOf(a, n))
<1> DEFINE v == ValuesOf(a, n)
           w == a.wrote
<1>1. PICK N \in Nat : IsRead(a, n, Items(a.bytes), N, m)
  BY ArrayIsRead
<1>2. AreItems(Items(a.bytes), N, w) /\ AreValues(N, w, v)
  BY <1>1 DEF IsRead
<1> HIDE DEF v, w
<1>3. PICK f : /\ f[0] = [types |-> {}, idents |-> s]
               /\ \A i \in 1 .. N : f[i] = Noted(f[i - 1], w[i], v)
               /\ Searched(a.bytes, s, v) = f[N]
  <2>1. s \in Seq(SearchEntries)
    BY DEF IsSearch
  <2>2. N \in Nat
    OBVIOUS
  <2> DEFINE d == a.bytes
  <2> HIDE DEF d
  <2>3. AreItems(Items(d), N, w)
    BY <1>2 DEF d
  <2>4. \E f : /\ f[0] = [types |-> {}, idents |-> s]
               /\ \A i \in 1 .. N : f[i] = Noted(f[i - 1], w[i], v)
               /\ Searched(d, s, v) = f[N]
    BY ONLY <1>2, <2>1, <2>2, <2>3, SearchedRun, SMTT(30)
  <2> QED BY <2>4 DEF d
<1> DEFINE P == {i \in 0 .. N : NotedUpTo(f[i], w, i, list, v)}
<1>4. 0 \in P
  <2>1. \A t : BehindIn(w, 0, t) = {}
    BY DEF BehindIn
  <2>2. s \in Seq(SearchEntries)
    BY DEF IsSearch
  <2> DEFINE x == [types |-> {}, idents |-> s]
  <2>3. x \in SearchStates /\ x.types = {} /\ x.idents = s
    BY <2>2 DEF SearchStates
  <2> HIDE DEF x
  <2>4. NotedUpTo(x, w, 0, list, v)
    BY <2>1, <2>3 DEF NotedUpTo
  <2>5. 0 \in 0 .. N
    OBVIOUS
  <2> QED BY <1>3, <2>4, <2>5 DEF x
<1>5. ASSUME NEW i \in 0 .. N, i < N, i \in P PROVE i + 1 \in P
  <2> DEFINE k == i + 1
  <2>1. k \in 1 .. N /\ k - 1 = i /\ k \in 0 .. N /\ k \in Nat \ {0}
    BY <1>5
  <2> HIDE DEF k
  <2>2. w[k].type \in 0 .. 255 /\ v[w[k].at] \in Values
    BY <1>2, <2>1 DEF AreValues
  <2>3. NotedUpTo(f[k - 1], w, k - 1, list, v)
    BY <1>5, <2>1
  <2>4. NotedUpTo(f[k], w, k, list, v)
    BY <1>3, <2>1, <2>2, <2>3, NotedNext
  <2> QED BY <2>1, <2>4 DEF k
<1>6. NotedUpTo(r, w, N, list, v)
  <2>1. \A i \in 0 .. N : i \in P
    <3> HIDE DEF P
    <3> QED BY <1>4, <1>5, Climb
  <2>2. r = f[N]
    BY <1>3 DEF v
  <2> QED BY <2>1, <2>2
<1>7. \A k \in 1 .. Len(list) : BehindIn(w, N, list[k]) = BehindIn(w, m, list[k])
  <2> SUFFICES ASSUME NEW k \in 1 .. Len(list)
               PROVE  BehindIn(w, N, list[k]) = BehindIn(w, m, list[k])
    OBVIOUS
  <2> DEFINE t == list[k]
  <2>1. getIdentifySize[t] > 0
    BY SearchedOne
  <2> HIDE DEF t
  <2>2. BehindIn(w, N, t) = BehindIn(w, m, t)
    BY <1>1, <2>1, BehindWhole DEF w
  <2> QED BY <2>2 DEF t
<1>8. \A k \in 1 .. Len(list) : \A x :
        IsLastIn(x, w, N, list[k], v) <=> IsLastIn(x, w, m, list[k], v)
  BY <1>7 DEF IsLastIn
<1>9. /\ IsSearch(r.idents, list) /\ r.types \in SUBSET Range(list)
      /\ Len(r.idents) = Len(list)
      /\ \A k \in 1 .. Len(list) :
          /\ list[k] \in r.types <=> BehindIn(w, N, list[k]) # {}
          /\ list[k] \in r.types => IsLastIn(r.idents[k].ident, w, N, list[k], v)
  BY <1>6 DEF NotedUpTo, IsSearch
<1>10. IsFound(r) <=> \A k \in 1 .. Len(list) : list[k] \in r.types
  BY <1>9, AllNoted
<1> QED BY <1>7, <1>8, <1>9, <1>10 DEF w, v

LEMMA FoundFirst ==
    ASSUME NEW a, IsWritten(a), NEW n \in Nat, NEW m \in Nat, IsWholeUpTo(a, m),
           NEW t, ~ IsModule(t), getIdentifySize[t] > 0, NEW ident0,
           NEW r, r = ParseIdentify(a.bytes, t, ident0, ValuesOf(a, n))
    PROVE  /\ r = [found |-> r.found, ident |-> r.ident] /\ r.found \in BOOLEAN
           /\ r.found <=> \E i \in 1 .. m : a.wrote[i].type = t
           /\ r.found => \E i \in 1 .. m : /\ a.wrote[i].type = t
                                           /\ r.ident = ValuesOf(a, n)[a.wrote[i].at]
<1> DEFINE v == ValuesOf(a, n)
           w == a.wrote
           items == Items(a.bytes)
           I == {i \in 1 .. Len(items) : ~ IsModule(items[i].type) /\ items[i].type = t}
           hit == IF I # {} THEN Min(I) ELSE 0
<1>1. PICK N \in Nat : IsRead(a, n, items, N, m)
  BY ArrayIsRead
<1>2. /\ items = [i \in 1 .. N |-> w[i]] /\ N \in 0 .. m
      /\ \A i \in 1 .. m : SizeIn(a, i) > 0 => i <= N
  BY <1>1 DEF IsRead, AreItems
<1>3. r = IF hit = 0 THEN [found |-> FALSE, ident |-> ident0]
                     ELSE [found |-> TRUE, ident |-> v[items[hit].at]]
  BY DEF ParseIdentify, SelectInSeq
<1> HIDE DEF items, v, w
<1>4. Len(items) = N /\ \A i \in 1 .. N : items[i] = w[i] /\ i \in 1 .. m
  BY <1>2
<1>5. I = {i \in 1 .. N : w[i].type = t}
  BY <1>4
<1>6. \A i \in 1 .. m : w[i].type = t => i \in 1 .. N
  BY <1>2 DEF SizeIn, w
<1>7. I = {i \in 1 .. m : w[i].type = t}
  BY <1>4, <1>5, <1>6
<1> HIDE DEF I
<1>8. CASE I = {}
  <2>1. r = [found |-> FALSE, ident |-> ident0]
    BY <1>3, <1>8
  <2>2. r.found = FALSE /\ r.ident = ident0
    BY <2>1
  <2> QED BY <1>7, <1>8, <2>1, <2>2 DEF w
<1>9. CASE I # {}
  <2>1. I \in SUBSET Nat
    BY <1>7
  <2>2. \E i \in I : \A j \in I : i <= j
    BY <1>9, <2>1, LeastNumber
  <2>3. Min(I) \in I
    BY <2>2 DEF Min
  <2>4. hit \in I /\ hit # 0
    BY <1>7, <1>9, <2>3
  <2> HIDE DEF hit
  <2>5. r = [found |-> TRUE, ident |-> v[w[hit].at]]
    BY <1>3, <1>4, <1>5, <2>4
  <2>6. r.found = TRUE /\ r.ident = v[w[hit].at]
    BY <2>5
  <2>7. hit \in 1 .. m /\ w[hit].type = t
    BY <1>7, <2>4
  <2> QED BY <2>5, <2>6, <2>7 DEF v, w
<1> QED BY <1>8, <1>9
------------------------------------------------------------------------------
(***************************************************************************)
(* What the answers of the searches say, of the m whole identifiers of the *)
(* array a, the n-th.                                                      *)
(***************************************************************************)
IsInLast(a, m, list) == \A k \in 1 .. Len(list) : BehindIn(a.wrote, m, list[k]) # {}
IsGathered(a, n, m, list, s) ==
    \A k \in 1 .. Len(list) :
        IsLastIn(s[k].ident, a.wrote, m, list[k], ValuesOf(a, n))

IsFirstAnswer(a, n, m, t, r) ==
    /\ r = [found |-> r.found, ident |-> r.ident] /\ r.found \in BOOLEAN
    /\ r.found <=> \E i \in 1 .. m : a.wrote[i].type = t
    /\ r.found => \E i \in 1 .. m : /\ a.wrote[i].type = t
                                    /\ r.ident = ValuesOf(a, n)[a.wrote[i].at]
IsLastAnswer(a, n, m, t, r) ==
    /\ r = [found |-> r.found, ident |-> r.ident] /\ r.found \in BOOLEAN
    /\ r.found <=> BehindIn(a.wrote, m, t) # {}
    /\ r.found => IsLastIn(r.ident, a.wrote, m, t, ValuesOf(a, n))

IsSearchAnswer(a, n, m, s1, s2, res) ==
    /\ res.call = "first" => /\ IsFirstAnswer(a, n, m, res.type, res.r)
                             /\ IsLastAnswer(a, n, m, res.type, res.last)
    /\ res.call = "list" => /\ res.found <=> IsInLast(a, m, List1)
                            /\ res.found => IsGathered(a, n, m, List1, s1)
    /\ res.call = "lists" => /\ res.found = 1 <=> IsInLast(a, m, List1)
                             /\ res.found = 2 <=> ~ IsInLast(a, m, List1) /\ IsInLast(a, m, List2)
                             /\ res.found = 1 => IsGathered(a, n, m, List1, s1)
                             /\ res.found = 2 => IsGathered(a, n, m, List2, s2)

SearchInv ==
    /\ ArrayIs /\ IsSearch(search1, List1) /\ IsSearch(search2, List2)
    /\ \E m \in Nat : /\ IsWholeUpTo(array, m)
                      /\ IsSearchAnswer(array, received, m, search1, search2, result)

LEMMA SearchesOfStep ==
    ASSUME SdkNext
    PROVE  \/ \E a \in Arrays : Receive(a)
           \/ \E t \in Wanted : Find(t)
           \/ FindList \/ FindLists
           \/ /\ UNCHANGED <<array, received, search1, search2>>
              /\ result'.call \notin {"first", "list", "lists"}
<1>1. ASSUME NEW t, AllOff(t)
      PROVE  UNCHANGED <<array, received, search1, search2>> /\ result'.call = "all"
  BY <1>1 DEF AllOff, Calls
<1>2. ASSUME SeqOne \/ SeqTwo
      PROVE  UNCHANGED <<array, received, search1, search2>> /\ result'.call = "seq"
  BY <1>2 DEF SeqOne, SeqTwo, Calls
<1>3. ASSUME Number
      PROVE  UNCHANGED <<array, received, search1, search2>> /\ result'.call = "number"
  BY <1>3 DEF Number, kept
<1>4. ASSUME NEW x, NEW y, CompareModules(x, y)
      PROVE  UNCHANGED <<array, received, search1, search2>> /\ result'.call = "modules"
  BY <1>4 DEF CompareModules, kept
<1>5. ASSUME NEW x, NEW y, CompareLinks(x, y)
      PROVE  UNCHANGED <<array, received, search1, search2>> /\ result'.call = "links"
  BY <1>5 DEF CompareLinks, kept
<1>6. ASSUME NEW x, NEW y, Name(x, y)
      PROVE  UNCHANGED <<array, received, search1, search2>> /\ result'.call = "name"
  BY <1>6 DEF Name, kept
<1>7. ASSUME NEW put, TakeLast(put)
      PROVE  UNCHANGED <<array, received, search1, search2>> /\ result'.call = "take"
  BY <1>7 DEF TakeLast, TakesMore, Calls
<1>8. ASSUME TakeAll
      PROVE  UNCHANGED <<array, received, search1, search2>> /\ result'.call = "take"
  BY <1>8 DEF TakeAll, TakesMore, Calls
<1>9. ASSUME Clear
      PROVE  UNCHANGED <<array, received, search1, search2>> /\ result'.call = "clear"
  BY <1>9 DEF Clear
<1> QED BY <1>1, <1>2, <1>3, <1>4, <1>5, <1>6, <1>7, <1>8, <1>9 DEF SdkNext

LEMMA WantedIs ==
    ASSUME NEW t \in Wanted
    PROVE  t \in 0 .. 255 /\ ~ IsModule(t) /\ getIdentifySize[t] > 0
<1> DEFINE list == <<t>>
<1>1. IsSearched(list)
  BY SdkAssumption
<1>2. 1 \in 1 .. Len(list) /\ list[1] = t
  OBVIOUS
<1> HIDE DEF list
<1>3. list[1] \in 0 .. 255 /\ ~ IsModule(list[1]) /\ getIdentifySize[list[1]] > 0
  BY <1>1, <1>2, SearchedOne
<1> QED BY <1>2, <1>3

LEMMA SearchingStep ==
    ASSUME SearchInv, [SdkNext]_sdkVars
    PROVE  SearchInv'
<1>1. ArrayIs /\ IsSearch(search1, List1) /\ IsSearch(search2, List2)
  BY DEF SearchInv
<1>2. IsWritten(array) /\ received \in Nat /\ IsSearched(List1) /\ IsSearched(List2)
  BY <1>1, SdkAssumption DEF ArrayIs
<1>3. PICK m \in Nat : IsWholeUpTo(array, m)
  BY <1>2, WholeIsPrefix
<1>4. ASSUME UNCHANGED <<array, received>>
      PROVE  ArrayIs' /\ IsWholeUpTo(array', m) /\ Value = ValuesOf(array, received)
  BY <1>1, <1>3, <1>4 DEF ArrayIs, Value, ValuesOf, bytes
<1>5. ASSUME NEW a \in Arrays, Receive(a) PROVE SearchInv'
  <2>1. array' = a /\ received' = received + 1 /\ result' = NoCall /\ UNCHANGED <<search1, search2>>
    BY <1>5 DEF Receive, kept
  <2>2. ArrayIs' /\ IsWritten(a)
    BY <1>2, <2>1, SdkAssumption DEF ArrayIs
  <2>3. PICK k \in Nat : IsWholeUpTo(a, k)
    BY <2>2, WholeIsPrefix
  <2>4. result'.call = "none"
    BY <2>1 DEF NoCall
  <2>5. IsSearchAnswer(array', received', k, search1', search2', result')
    BY <2>4 DEF IsSearchAnswer
  <2> QED BY <1>1, <2>1, <2>2, <2>3, <2>5 DEF SearchInv
<1>6. ASSUME NEW t \in Wanted, Find(t) PROVE SearchInv'
  <2>1. /\ UNCHANGED <<array, received, search1, search2>>
        /\ result'.call = "first" /\ result'.type = t
        /\ result'.r = ParseIdentify(bytes, t, NoValue, Value)
        /\ result'.last = ParseLast(bytes, t, NoValue, Value)
    BY <1>6 DEF Find, Calls, kept
  <2>2. ArrayIs' /\ IsWholeUpTo(array', m) /\ Value = ValuesOf(array, received)
    BY <1>4, <2>1
  <2>3. ~ IsModule(t) /\ getIdentifySize[t] > 0 /\ NoValue \in Values
    BY WantedIs DEF NoValue, Values
  <2>4. IsFirstAnswer(array, received, m, t, result'.r)
    BY <1>2, <1>3, <2>1, <2>2, <2>3, FoundFirst, SMTT(30) DEF IsFirstAnswer, bytes
  <2>5. IsLastAnswer(array, received, m, t, result'.last)
    BY <1>2, <1>3, <2>1, <2>2, <2>3, FoundLast DEF IsLastAnswer, bytes
  <2>6. IsSearchAnswer(array', received', m, search1', search2', result')
    BY <2>1, <2>4, <2>5 DEF IsSearchAnswer
  <2> QED BY <1>1, <2>1, <2>2, <2>6 DEF SearchInv
<1>7. ASSUME FindList PROVE SearchInv'
  <2> DEFINE r == Searched(bytes, search1, Value)
  <2>1. /\ UNCHANGED <<array, received, search2>>
        /\ search1' = r.idents /\ result'.call = "list" /\ result'.found = IsFound(r)
    BY <1>7 DEF FindList, Calls, ParseLastList
  <2>2. ArrayIs' /\ IsWholeUpTo(array', m) /\ Value = ValuesOf(array, received)
    BY <1>4, <2>1
  <2>3. r = Searched(array.bytes, search1, ValuesOf(array, received))
    BY <2>2 DEF bytes
  <2> HIDE DEF r
  <2>4. /\ IsSearch(r.idents, List1)
        /\ IsFound(r) <=> IsInLast(array, m, List1)
        /\ IsFound(r) => IsGathered(array, received, m, List1, r.idents)
    BY <1>1, <1>2, <1>3, <2>3, FoundList DEF IsInLast, IsGathered
  <2>5. IsSearchAnswer(array', received', m, search1', search2', result')
    BY <2>1, <2>4 DEF IsSearchAnswer
  <2> QED BY <1>1, <2>1, <2>2, <2>4, <2>5 DEF SearchInv
<1>8. ASSUME FindLists PROVE SearchInv'
  <2> DEFINE r1 == Searched(bytes, search1, Value)
             r2 == Searched(bytes, search2, Value)
  <2>1. /\ UNCHANGED <<array, received>>
        /\ search1' = r1.idents /\ search2' = r2.idents /\ result'.call = "lists"
        /\ result'.found = IF IsFound(r1) THEN 1 ELSE IF IsFound(r2) THEN 2 ELSE 0
    BY <1>8 DEF FindLists, Calls, ParseLastLists
  <2>2. ArrayIs' /\ IsWholeUpTo(array', m) /\ Value = ValuesOf(array, received)
    BY <1>4, <2>1
  <2>3. /\ r1 = Searched(array.bytes, search1, ValuesOf(array, received))
        /\ r2 = Searched(array.bytes, search2, ValuesOf(array, received))
    BY <2>2 DEF bytes
  <2> HIDE DEF r1, r2
  <2>4. /\ IsSearch(r1.idents, List1)
        /\ IsFound(r1) <=> IsInLast(array, m, List1)
        /\ IsFound(r1) => IsGathered(array, received, m, List1, r1.idents)
    BY <1>1, <1>2, <1>3, <2>3, FoundList DEF IsInLast, IsGathered
  <2>5. /\ IsSearch(r2.idents, List2)
        /\ IsFound(r2) <=> IsInLast(array, m, List2)
        /\ IsFound(r2) => IsGathered(array, received, m, List2, r2.idents)
    BY <1>1, <1>2, <1>3, <2>3, FoundList DEF IsInLast, IsGathered
  <2>6. IsSearchAnswer(array', received', m, search1', search2', result')
    BY <2>1, <2>4, <2>5 DEF IsSearchAnswer
  <2> QED BY <1>1, <2>1, <2>2, <2>4, <2>5, <2>6 DEF SearchInv
<1>9. ASSUME UNCHANGED <<array, received, search1, search2>>,
             result'.call \notin {"first", "list", "lists"}
      PROVE  SearchInv'
  <2>1. ArrayIs' /\ IsWholeUpTo(array', m)
    BY <1>4, <1>9
  <2>2. IsSearchAnswer(array', received', m, search1', search2', result')
    BY <1>9 DEF IsSearchAnswer
  <2> QED BY <1>1, <1>9, <2>1, <2>2 DEF SearchInv
<1>10. ASSUME UNCHANGED sdkVars PROVE SearchInv'
  <2>1. /\ array' = array /\ received' = received /\ search1' = search1
        /\ search2' = search2 /\ result' = result
    BY <1>10 DEF sdkVars
  <2> QED BY <2>1 DEF SearchInv, ArrayIs
<1> QED BY <1>5, <1>6, <1>7, <1>8, <1>9, <1>10, SearchesOfStep

\* The same in the words of FoundInLastModule.
LEMMA WholeIs ==
    ASSUME ArrayIs, NEW m \in Nat, IsWholeUpTo(array, m), NEW t
    PROVE  /\ Whole = 1 .. m
           /\ Of(t) = {i \in 1 .. m : array.wrote[i].type = t}
           /\ Of(t) \cap BehindLast = BehindIn(array.wrote, m, t)
           /\ \A i \in 1 .. m :
                ValuesOf(array, received)[array.wrote[i].at] = <<received, array.wrote[i].at>>
<1>1. Whole = WholeOf(array)
  BY DEF Whole, WholeOf, SizeIn, bytes
<1>2. Whole = 1 .. m
  BY <1>1 DEF IsWholeUpTo
<1>3. Of(t) = {i \in 1 .. m : array.wrote[i].type = t}
  BY <1>2 DEF Of, TypeAt
<1>4. BehindLast = {i \in 1 .. m : \A j \in 1 .. m : IsModule(array.wrote[j].type) => j < i}
  BY <1>2 DEF BehindLast, TypeAt
<1>5. ASSUME NEW i \in 1 .. m
      PROVE  ValuesOf(array, received)[array.wrote[i].at] = <<received, array.wrote[i].at>>
  <2>1. i \in 1 .. Len(array.wrote)
    BY WrittenOne DEF ArrayIs, IsWholeUpTo
  <2>2. array.wrote[i].at \in 1 .. Len(array.bytes) /\ Len(array.bytes) \in Nat
    BY <2>1, WrittenOne DEF ArrayIs
  <2> QED BY <2>2 DEF ValuesOf
<1> QED BY <1>2, <1>3, <1>4, <1>5 DEF BehindIn

LEMMA LastValueIs ==
    ASSUME ArrayIs, NEW m \in Nat, IsWholeUpTo(array, m), NEW t, NEW x,
           IsLastIn(x, array.wrote, m, t, ValuesOf(array, received))
    PROVE  IsLastValue(x, t)
<1> DEFINE B == BehindIn(array.wrote, m, t)
<1>1. PICK i \in B : /\ x = ValuesOf(array, received)[array.wrote[i].at]
                     /\ \A j \in B : j <= i
  BY DEF IsLastIn
<1>2. B \in SUBSET (1 .. m)
  BY DEF BehindIn
<1>3. Of(t) \cap BehindLast = B /\ x = <<received, array.wrote[i].at>>
  BY <1>1, <1>2, WholeIs
<1> HIDE DEF B
<1>4. Max(B) \in B /\ \A y \in B : y <= Max(B)
  BY <1>1, <1>2, MaxOf
<1>5. Max(B) = i
  <2>1. i \in 1 .. m /\ Max(B) \in 1 .. m
    BY <1>1, <1>2, <1>4
  <2>2. i <= Max(B) /\ Max(B) <= i
    BY <1>1, <1>4
  <2> QED BY ONLY <2>1, <2>2
<1> QED BY <1>1, <1>3, <1>5 DEF IsLastValue, IsValueOf

\* FoundInLastModule: whatever an array holds, and wherever it is cut off,
\* ParseIdentifyFromLastModule finds what the last module wrote and nothing else,
\* although its lists still hold values of arrays and modules before; ParseIdentify
\* finds it, too, and gives one of its values if no earlier module wrote one.
THEOREM LastModuleIsFound == SdkSpec => []FoundInLastModule
<1>1. SdkInit => SearchInv
  <2> SUFFICES ASSUME SdkInit PROVE SearchInv
    OBVIOUS
  <2>1. /\ array = NoArray /\ received = 0 /\ result = NoCall
        /\ search1 = [k \in DOMAIN List1 |-> [type |-> List1[k], ident |-> NoValue]]
        /\ search2 = [k \in DOMAIN List2 |-> [type |-> List2[k], ident |-> NoValue]]
    BY DEF SdkInit
  <2>2. ArrayIs
    BY <2>1, NoArrayIsWritten DEF ArrayIs
  <2>3. PICK m \in Nat : IsWholeUpTo(array, m)
    BY <2>2, WholeIsPrefix DEF ArrayIs
  <2>4. IsSearchAnswer(array, received, m, search1, search2, result)
    BY <2>1 DEF IsSearchAnswer, NoCall
  <2>5. ASSUME NEW list, IsSearched(list)
        PROVE  IsSearch([k \in DOMAIN list |-> [type |-> list[k], ident |-> NoValue]], list)
    <3> DEFINE s == [k \in DOMAIN list |-> [type |-> list[k], ident |-> NoValue]]
    <3>1. /\ Len(list) \in Nat /\ DOMAIN list = 1 .. Len(list)
          /\ \A k \in 1 .. Len(list) : list[k] \in 0 .. 255
      BY <2>5, SearchedOne
    <3>2. NoValue \in Values
      BY DEF NoValue, Values
    <3>3. \A k \in 1 .. Len(list) : s[k].type = list[k] /\ s[k] \in SearchEntries
      BY <3>1, <3>2 DEF SearchEntries
    <3>4. s = [k \in 1 .. Len(list) |-> s[k]]
      BY <3>1
    <3> HIDE DEF s
    <3>5. s \in Seq(SearchEntries) /\ Len(s) = Len(list)
      BY <3>1, <3>3, <3>4
    <3>6. IsSearch(s, list)
      BY <3>3, <3>5 DEF IsSearch
    <3> QED BY <3>6 DEF s
  <2>6. IsSearch(search1, List1) /\ IsSearch(search2, List2)
    BY <2>1, <2>5, SdkAssumption
  <2> QED BY <2>2, <2>3, <2>4, <2>6 DEF SearchInv
<1>2. SearchInv /\ [SdkNext]_sdkVars => SearchInv'
  BY SearchingStep
<1>3. SearchInv => FoundInLastModule
  <2> SUFFICES ASSUME SearchInv PROVE FoundInLastModule
    OBVIOUS
  <2>1. PICK m \in Nat : /\ IsWholeUpTo(array, m)
                         /\ IsSearchAnswer(array, received, m, search1, search2, result)
    BY DEF SearchInv
  <2>2. ArrayIs /\ IsSearch(search1, List1) /\ IsSearch(search2, List2)
    BY DEF SearchInv
  <2>3. IsSearched(List1) /\ IsSearched(List2)
    BY SdkAssumption
  <2>4. ASSUME NEW list, IsSearched(list), NEW s, IsSearch(s, list)
        PROVE  /\ InLast(s) <=> IsInLast(array, m, list)
               /\ IsGathered(array, received, m, list, s) => Gathered(s)
    <3>1. /\ Len(list) \in Nat /\ DOMAIN s = 1 .. Len(list)
          /\ \A k \in 1 .. Len(list) : s[k].type = list[k]
      BY <2>4, SearchedOne DEF IsSearch
    <3>2. \A k \in 1 .. Len(list) : Of(list[k]) \cap BehindLast = BehindIn(array.wrote, m, list[k])
      BY <2>1, <2>2, WholeIs
    <3>3. InLast(s) <=> IsInLast(array, m, list)
      BY <3>1, <3>2 DEF InLast, IsInLast
    <3>4. IsGathered(array, received, m, list, s) => Gathered(s)
      BY <2>1, <2>2, <3>1, LastValueIs DEF IsGathered, Gathered
    <3> QED BY <3>3, <3>4
  <2>5. CASE result.call = "first"
    <3> DEFINE t == result.type
               r == result.r
               last == result.last
    <3>1. IsFirstAnswer(array, received, m, t, r) /\ IsLastAnswer(array, received, m, t, last)
      BY <2>1, <2>5 DEF IsSearchAnswer
    <3>2. /\ Of(t) = {i \in 1 .. m : array.wrote[i].type = t}
          /\ Of(t) \cap BehindLast = BehindIn(array.wrote, m, t)
      BY <2>1, <2>2, WholeIs
    <3> HIDE DEF t, r, last
    <3>3. last.found <=> Of(t) \cap BehindLast # {}
      BY <3>1, <3>2 DEF IsLastAnswer
    <3>4. last.found => IsLastValue(last.ident, t)
      BY <2>1, <2>2, <3>1, LastValueIs DEF IsLastAnswer
    <3>5. r.found <=> Of(t) # {}
      BY <3>1, <3>2 DEF IsFirstAnswer
    <3>6. r.found => \E i \in Of(t) : IsValueOf(r.ident, i)
      <4>1. SUFFICES ASSUME r.found PROVE \E i \in Of(t) : IsValueOf(r.ident, i)
        OBVIOUS
      <4>2. PICK i \in 1 .. m : /\ array.wrote[i].type = t
                                /\ r.ident = ValuesOf(array, received)[array.wrote[i].at]
        BY <3>1, <4>1 DEF IsFirstAnswer
      <4>3. i \in Of(t) /\ r.ident = <<received, array.wrote[i].at>>
        BY <2>1, <2>2, <3>2, <4>2, WholeIs
      <4> QED BY <4>3 DEF IsValueOf
    <3>7. Of(t) \cap BehindLast # {} => r.found
      BY <3>5
    <3> QED BY <2>5, <3>3, <3>4, <3>6, <3>7 DEF FoundInLastModule, t, r, last
  <2>6. CASE result.call = "list"
    <3>1. /\ result.found <=> IsInLast(array, m, List1)
          /\ result.found => IsGathered(array, received, m, List1, search1)
      BY <2>1, <2>6 DEF IsSearchAnswer
    <3> QED BY <2>2, <2>3, <2>4, <2>6, <3>1 DEF FoundInLastModule
  <2>7. CASE result.call = "lists"
    <3>1. /\ result.found = 1 <=> IsInLast(array, m, List1)
          /\ result.found = 2 <=> ~ IsInLast(array, m, List1) /\ IsInLast(array, m, List2)
          /\ result.found = 1 => IsGathered(array, received, m, List1, search1)
          /\ result.found = 2 => IsGathered(array, received, m, List2, search2)
      BY <2>1, <2>7 DEF IsSearchAnswer
    <3> QED BY <2>2, <2>3, <2>4, <2>7, <3>1 DEF FoundInLastModule
  <2>8. CASE result.call \notin {"first", "list", "lists"}
    BY <2>8 DEF FoundInLastModule
  <2> QED BY <2>5, <2>6, <2>7, <2>8
<1> QED BY <1>1, <1>2, <1>3, PTL DEF SdkSpec
------------------------------------------------------------------------------
(***************************************************************************)
(* Sequences of offsets, identifier by identifier.                         *)
(***************************************************************************)
OffEntries == [type : 0 .. 255, off : Values]
SeqStates == {r \in [idents : Seq(OffEntries), i : Nat, res : 0 .. 2] : r.i \in 1 .. Len(r.idents)}

\* An entry is filled in.
LEMMA OffsetSet ==
    ASSUME NEW s \in Seq(OffEntries), NEW h \in 1 .. Len(s), NEW x \in Values
    PROVE  /\ [s EXCEPT ![h].off = x] \in Seq(OffEntries)
           /\ Len([s EXCEPT ![h].off = x]) = Len(s)
           /\ \A k \in 1 .. Len(s) :
                /\ [s EXCEPT ![h].off = x][k].type = s[k].type
                /\ [s EXCEPT ![h].off = x][k].off = IF k = h THEN x ELSE s[k].off
<1> DEFINE z == [s EXCEPT ![h].off = x]
<1>1. /\ Len(s) \in Nat /\ DOMAIN s = 1 .. Len(s)
      /\ \A k \in 1 .. Len(s) : s[k] \in OffEntries
  BY IsElement
<1>2. ASSUME NEW k \in 1 .. Len(s)
      PROVE  /\ z[k] \in OffEntries /\ z[k].type = s[k].type
             /\ z[k].off = IF k = h THEN x ELSE s[k].off
  <2>1. CASE k = h
    <3>1. z[k] = [s[k] EXCEPT !.off = x]
      BY <1>1, <2>1
    <3>2. s[k] \in [type : 0 .. 255, off : Values]
      BY <1>1 DEF OffEntries
    <3>3. /\ [s[k] EXCEPT !.off = x] \in [type : 0 .. 255, off : Values]
          /\ [s[k] EXCEPT !.off = x].type = s[k].type
          /\ [s[k] EXCEPT !.off = x].off = x
      BY <3>2
    <3> HIDE DEF z
    <3> QED BY <2>1, <3>1, <3>3 DEF OffEntries
  <2>2. CASE k # h
    <3>1. z[k] = s[k]
      BY <1>1, <2>2
    <3> HIDE DEF z
    <3> QED BY <1>1, <2>2, <3>1
  <2> QED BY <2>1, <2>2
<1>3. DOMAIN z = 1 .. Len(s) /\ z = [k \in 1 .. Len(s) |-> z[k]]
  BY <1>1
<1> HIDE DEF z
<1>4. z \in [1 .. Len(s) -> OffEntries]
  BY <1>2, <1>3
<1>5. z \in Seq(OffEntries) /\ Len(z) = Len(s)
  BY <1>1, <1>4
<1> QED BY <1>2, <1>5 DEF z

IsStepOf(y, r, e, res, v) ==
    /\ y \in SeqStates
    /\ y.idents = [r.idents EXCEPT ![r.i].off = v[e.at]]
    /\ y.i = IF r.i = Len(r.idents) THEN 1 ELSE r.i + 1
    /\ y.res = IF r.i = Len(r.idents) THEN res ELSE 0

LEMMA SteppedIs ==
    ASSUME NEW r \in SeqStates, NEW e, NEW res \in 1 .. 2, NEW v, v[e.at] \in Values
    PROVE  IsStepOf(Stepped(r, e, res, v), r, e, res, v)
<1> DEFINE new == [r.idents EXCEPT ![r.i].off = v[e.at]]
           j == IF r.i = Len(r.idents) THEN 1 ELSE r.i + 1
           q == IF r.i = Len(r.idents) THEN res ELSE 0
<1>1. /\ r.idents \in Seq(OffEntries) /\ Len(r.idents) \in Nat
      /\ r.i \in 1 .. Len(r.idents)
  BY DEF SeqStates
<1>2. new \in Seq(OffEntries) /\ Len(new) = Len(r.idents)
  BY <1>1, OffsetSet
<1>3. j \in 1 .. Len(r.idents) /\ j \in Nat /\ q \in 0 .. 2
  BY <1>1
<1>4. Stepped(r, e, res, v) = [idents |-> new, i |-> j, res |-> q]
  BY DEF Stepped
<1> DEFINE z == [idents |-> new, i |-> j, res |-> q]
<1> HIDE DEF new, j, q
<1>5. z \in [idents : Seq(OffEntries), i : Nat, res : 0 .. 2] /\ z.i \in 1 .. Len(z.idents)
  BY <1>2, <1>3
<1>6. z.idents = new /\ z.i = j /\ z.res = q
  OBVIOUS
<1> HIDE DEF z
<1>7. z \in SeqStates
  BY <1>5 DEF SeqStates
<1> QED BY <1>4, <1>6, <1>7 DEF IsStepOf, z, new, j, q

NextOfSeq(r, e, v) == IF IsNext(r, e) THEN Stepped(r, e, 1, v) ELSE r
NextOfSeqs(r, e, v) ==
    IF IsNext(r.one, e)
    THEN LET s == Stepped(r.one, e, 1, v) IN [r EXCEPT !.one = s, !.res = s.res]
    ELSE IF IsNext(r.two, e)
    THEN LET s == Stepped(r.two, e, 2, v) IN [r EXCEPT !.two = s, !.res = s.res]
    ELSE r

LEMMA SeqRun ==
    ASSUME NEW d, NEW idents0 \in Seq(OffEntries), idents0 # << >>, NEW v, NEW N \in Nat,
           NEW w, AreItems(ItemsByOffset(d), N, w), AreValues(N, w, v)
    PROVE  \E f : /\ f[0] = [idents |-> idents0, i |-> 1, res |-> 0]
                  /\ \A n \in 1 .. N : f[n] = NextOfSeq(f[n - 1], w[n], v)
                  /\ ParseOffSeq(d, idents0, v) = f[N]
<1> USE DEF AreItems, AreValues
<1> DEFINE S == SeqStates
           base == [idents |-> idents0, i |-> 1, res |-> 0]
           items == [i \in 1 .. N |-> w[i]]
           step == [n \in 1 .. N |-> [r \in S |-> NextOfSeq(r, w[n], v)]]
           Iter(h) == [s \in SUBSET (DOMAIN items) |->
                         IF s = {} THEN base
                         ELSE NextOfSeq(h[s \ {Max(s)}], items[Max(s)], v)]
           G == CHOOSE h : h = Iter(h)
<1>1. ASSUME NEW n \in 1 .. N, NEW r \in S PROVE NextOfSeq(r, w[n], v) \in S
  <2>1. v[w[n].at] \in Values /\ 1 \in 1 .. 2
    OBVIOUS
  <2>2. Stepped(r, w[n], 1, v) \in S
    BY <2>1, SteppedIs DEF IsStepOf
  <2> QED BY <2>2 DEF NextOfSeq
<1>2. AreSteps(step, N, S) /\ base \in S
  <2>1. AreSteps(step, N, S)
    BY <1>1 DEF AreSteps
  <2>2. Len(idents0) \in Nat /\ 1 \in 1 .. Len(idents0)
    OBVIOUS
  <2> QED BY <2>1, <2>2 DEF SeqStates
<1>3. PICK g : IsFold(g, N, S, base, step)
  <2> HIDE DEF S, base, step
  <2> QED BY <1>2, FoldExists
<1>4. g = Iter(g)
  <2>1. DOMAIN items = 1 .. N
    OBVIOUS
  <2>2. ASSUME NEW s \in SUBSET (1 .. N), s # {}
        PROVE  g[s] = NextOfSeq(g[s \ {Max(s)}], items[Max(s)], v)
    <3>1. Max(s) \in 1 .. N /\ s \ {Max(s)} \in SUBSET (1 .. N)
      BY <2>2, MaxOf
    <3>2. g[s \ {Max(s)}] \in S
      BY <1>3, <3>1 DEF IsFold
    <3>3. g[s] = step[Max(s)][g[s \ {Max(s)}]]
      BY <1>3, <2>2 DEF IsFold
    <3> QED BY <3>1, <3>2, <3>3
  <2>3. g[{}] = base /\ g = [s \in SUBSET (1 .. N) |-> g[s]]
    BY <1>3 DEF IsFold
  <2> QED BY <2>1, <2>2, <2>3
<1>5. G = Iter(G)
  <2> HIDE DEF Iter
  <2> QED BY <1>4
<1>6. ParseOffSeq(d, idents0, v) = G[DOMAIN items]
  BY DEF ParseOffSeq, FoldLeft, MapThenFoldSet, NextOfSeq
<1>7. ASSUME NEW n \in 1 .. N
      PROVE  G[1 .. n] = NextOfSeq(G[1 .. n - 1], w[n], v)
  <2> DEFINE s == 1 .. n
  <2>1. /\ Max(s) = n /\ s \ {Max(s)} = 1 .. n - 1 /\ s # {}
        /\ s \in SUBSET (DOMAIN items) /\ items[n] = w[n]
    BY UpToLast
  <2> HIDE DEF s, items, base, G
  <2>2. G[s] = NextOfSeq(G[s \ {Max(s)}], items[Max(s)], v)
    BY <1>5, <2>1
  <2> QED BY <2>1, <2>2 DEF s
<1>8. G[1 .. 0] = base /\ DOMAIN items = 1 .. N
  <2>1. {} \in SUBSET (DOMAIN items) /\ 1 .. 0 = {} /\ DOMAIN items = 1 .. N
    OBVIOUS
  <2> HIDE DEF G, base, items
  <2>2. G[{}] = base
    BY <1>5, <2>1
  <2> QED BY <2>1, <2>2
<1> DEFINE f == [n \in 0 .. N |-> G[1 .. n]]
<1>9. \A n \in 1 .. N : n \in 0 .. N /\ n - 1 \in 0 .. N
  OBVIOUS
<1> HIDE DEF G, items, Iter
<1>10. f[0] = base /\ f[N] = G[DOMAIN items]
  BY <1>8
<1>11. \A n \in 1 .. N : f[n] = G[1 .. n] /\ f[n - 1] = G[1 .. n - 1]
  BY <1>9
<1> HIDE DEF f
<1>12. \A n \in 1 .. N : f[n] = NextOfSeq(f[n - 1], w[n], v)
  BY <1>7, <1>11
<1> QED BY <1>6, <1>10, <1>12

SeqsStates == [one : SeqStates, two : SeqStates, res : 0 .. 2]

LEMMA SeqsFieldSet ==
    ASSUME NEW r \in SeqsStates, NEW e
    PROVE  /\ [r EXCEPT !.one = e] = [one |-> e, two |-> r.two, res |-> r.res]
           /\ [r EXCEPT !.two = e] = [one |-> r.one, two |-> e, res |-> r.res]
           /\ [r EXCEPT !.res = e] = [one |-> r.one, two |-> r.two, res |-> e]
<1> DEFINE A == SeqStates  B == 0 .. 2
<1>1. r \in [one : A, two : A, res : B]
  BY DEF SeqsStates
<1> HIDE DEF A, B
<1>2. [r EXCEPT !.one = e] = [one |-> e, two |-> r.two, res |-> r.res]
  BY ONLY <1>1
<1>3. [r EXCEPT !.two = e] = [one |-> r.one, two |-> e, res |-> r.res]
  BY ONLY <1>1
<1>4. [r EXCEPT !.res = e] = [one |-> r.one, two |-> r.two, res |-> e]
  BY ONLY <1>1
<1> QED BY <1>2, <1>3, <1>4

LEMMA SeqsSet ==
    ASSUME NEW r \in SeqsStates, NEW s \in SeqStates, NEW q
    PROVE  /\ [r EXCEPT !.one = s, !.res = q] = [one |-> s, two |-> r.two, res |-> q]
           /\ [r EXCEPT !.two = s, !.res = q] = [one |-> r.one, two |-> s, res |-> q]
<1> DEFINE x == [one |-> s, two |-> r.two, res |-> r.res]
           y == [one |-> r.one, two |-> s, res |-> r.res]
<1>1. x \in SeqsStates /\ y \in SeqsStates
  BY DEF SeqsStates
<1>2. x.two = r.two /\ x.one = s /\ y.one = r.one /\ y.two = s
  OBVIOUS
<1>3. [r EXCEPT !.one = s] = x /\ [r EXCEPT !.two = s] = y
  BY SeqsFieldSet
<1> HIDE DEF x, y
<1>4. /\ [x EXCEPT !.res = q] = [one |-> x.one, two |-> x.two, res |-> q]
      /\ [y EXCEPT !.res = q] = [one |-> y.one, two |-> y.two, res |-> q]
  BY <1>1, SeqsFieldSet
<1>5. /\ [r EXCEPT !.one = s, !.res = q] = [[r EXCEPT !.one = s] EXCEPT !.res = q]
      /\ [r EXCEPT !.two = s, !.res = q] = [[r EXCEPT !.two = s] EXCEPT !.res = q]
  OBVIOUS
<1> QED BY ONLY <1>2, <1>3, <1>4, <1>5

LEMMA NextOfSeqsIs ==
    ASSUME NEW r \in SeqsStates, NEW e, NEW v, v[e.at] \in Values
    PROVE  /\ NextOfSeqs(r, e, v) \in SeqsStates
           /\ IsNext(r.one, e) =>
                LET s == Stepped(r.one, e, 1, v)
                IN  NextOfSeqs(r, e, v) = [one |-> s, two |-> r.two, res |-> s.res]
           /\ ~ IsNext(r.one, e) /\ IsNext(r.two, e) =>
                LET s == Stepped(r.two, e, 2, v)
                IN  NextOfSeqs(r, e, v) = [one |-> r.one, two |-> s, res |-> s.res]
           /\ ~ IsNext(r.one, e) /\ ~ IsNext(r.two, e) => NextOfSeqs(r, e, v) = r
<1> DEFINE s1 == Stepped(r.one, e, 1, v)
           s2 == Stepped(r.two, e, 2, v)
<1>1. r.one \in SeqStates /\ r.two \in SeqStates
  BY DEF SeqsStates
<1>2. s1 \in SeqStates /\ s2 \in SeqStates
  <2>1. 1 \in 1 .. 2 /\ 2 \in 1 .. 2
    OBVIOUS
  <2> QED BY <1>1, <2>1, SteppedIs DEF IsStepOf
<1>3. s1.res \in 0 .. 2 /\ s2.res \in 0 .. 2
  BY <1>2 DEF SeqStates
<1>4. /\ IsNext(r.one, e) => NextOfSeqs(r, e, v) = [r EXCEPT !.one = s1, !.res = s1.res]
      /\ ~ IsNext(r.one, e) /\ IsNext(r.two, e) =>
           NextOfSeqs(r, e, v) = [r EXCEPT !.two = s2, !.res = s2.res]
      /\ ~ IsNext(r.one, e) /\ ~ IsNext(r.two, e) => NextOfSeqs(r, e, v) = r
  BY DEF NextOfSeqs
<1> HIDE DEF s1, s2
<1>5. /\ [r EXCEPT !.one = s1, !.res = s1.res] = [one |-> s1, two |-> r.two, res |-> s1.res]
      /\ [r EXCEPT !.two = s2, !.res = s2.res] = [one |-> r.one, two |-> s2, res |-> s2.res]
  BY <1>2, SeqsSet
<1>6. NextOfSeqs(r, e, v) \in SeqsStates
  <2>1. /\ [one |-> s1, two |-> r.two, res |-> s1.res] \in SeqsStates
        /\ [one |-> r.one, two |-> s2, res |-> s2.res] \in SeqsStates
    BY <1>1, <1>2, <1>3 DEF SeqsStates
  <2> QED BY <1>4, <1>5, <2>1
<1> QED BY <1>4, <1>5, <1>6 DEF s1, s2

IsSeqsRun(f, N, w, v, idents1, idents2, last) ==
    /\ f[0] = [one |-> [idents |-> idents1, i |-> 1, res |-> 0],
               two |-> [idents |-> idents2, i |-> 1, res |-> 0], res |-> 0]
    /\ \A n \in 1 .. N : f[n] = NextOfSeqs(f[n - 1], w[n], v)
    /\ last = f[N]

LEMMA SeqsRun ==
    ASSUME NEW d, NEW idents1 \in Seq(OffEntries), idents1 # << >>,
           NEW idents2 \in Seq(OffEntries), idents2 # << >>, NEW v, NEW N \in Nat,
           NEW w, AreItems(ItemsByOffset(d), N, w), AreValues(N, w, v)
    PROVE  \E f : IsSeqsRun(f, N, w, v, idents1, idents2, ParseOffSeqs(d, idents1, idents2, v))
<1> USE DEF AreItems, AreValues
<1> DEFINE S == SeqsStates
           base == [one |-> [idents |-> idents1, i |-> 1, res |-> 0],
                    two |-> [idents |-> idents2, i |-> 1, res |-> 0], res |-> 0]
           items == [i \in 1 .. N |-> w[i]]
           step == [n \in 1 .. N |-> [r \in S |-> NextOfSeqs(r, w[n], v)]]
           Iter(h) == [s \in SUBSET (DOMAIN items) |->
                         IF s = {} THEN base
                         ELSE NextOfSeqs(h[s \ {Max(s)}], items[Max(s)], v)]
           G == CHOOSE h : h = Iter(h)
<1>1. ASSUME NEW n \in 1 .. N, NEW r \in S PROVE NextOfSeqs(r, w[n], v) \in S
  <2>1. v[w[n].at] \in Values
    OBVIOUS
  <2> QED BY <2>1, NextOfSeqsIs
<1>2. AreSteps(step, N, S) /\ base \in S
  <2>1. AreSteps(step, N, S)
    BY <1>1 DEF AreSteps
  <2>2. /\ Len(idents1) \in Nat /\ 1 \in 1 .. Len(idents1)
        /\ Len(idents2) \in Nat /\ 1 \in 1 .. Len(idents2)
    OBVIOUS
  <2>3. /\ [idents |-> idents1, i |-> 1, res |-> 0] \in SeqStates
        /\ [idents |-> idents2, i |-> 1, res |-> 0] \in SeqStates
    BY <2>2 DEF SeqStates
  <2> QED BY <2>1, <2>3 DEF SeqsStates
<1>3. PICK g : IsFold(g, N, S, base, step)
  <2> HIDE DEF S, base, step
  <2> QED BY <1>2, FoldExists
<1>4. g = Iter(g)
  <2>1. DOMAIN items = 1 .. N
    OBVIOUS
  <2>2. ASSUME NEW s \in SUBSET (1 .. N), s # {}
        PROVE  g[s] = NextOfSeqs(g[s \ {Max(s)}], items[Max(s)], v)
    <3>1. Max(s) \in 1 .. N /\ s \ {Max(s)} \in SUBSET (1 .. N)
      BY <2>2, MaxOf
    <3>2. g[s \ {Max(s)}] \in S
      BY <1>3, <3>1 DEF IsFold
    <3>3. g[s] = step[Max(s)][g[s \ {Max(s)}]]
      BY <1>3, <2>2 DEF IsFold
    <3> QED BY <3>1, <3>2, <3>3
  <2>3. g[{}] = base /\ g = [s \in SUBSET (1 .. N) |-> g[s]]
    BY <1>3 DEF IsFold
  <2> QED BY <2>1, <2>2, <2>3
<1>5. G = Iter(G)
  <2> HIDE DEF Iter
  <2> QED BY <1>4
<1>6. ParseOffSeqs(d, idents1, idents2, v) = G[DOMAIN items]
  <2>1. ItemsByOffset(d) = items /\ ~ (idents1 = << >> \/ idents2 = << >>)
    OBVIOUS
  <2> HIDE DEF AreItems, AreValues, items
  <2> QED BY ONLY <2>1 DEF ParseOffSeqs, FoldLeft, MapThenFoldSet, NextOfSeqs
<1>7. ASSUME NEW n \in 1 .. N
      PROVE  G[1 .. n] = NextOfSeqs(G[1 .. n - 1], w[n], v)
  <2> DEFINE s == 1 .. n
  <2>1. /\ Max(s) = n /\ s \ {Max(s)} = 1 .. n - 1 /\ s # {}
        /\ s \in SUBSET (DOMAIN items) /\ items[n] = w[n]
    BY UpToLast
  <2> HIDE DEF s, items, base, G
  <2>2. G[s] = NextOfSeqs(G[s \ {Max(s)}], items[Max(s)], v)
    BY <1>5, <2>1
  <2> QED BY <2>1, <2>2 DEF s
<1>8. G[1 .. 0] = base /\ DOMAIN items = 1 .. N
  <2>1. {} \in SUBSET (DOMAIN items) /\ 1 .. 0 = {} /\ DOMAIN items = 1 .. N
    OBVIOUS
  <2> HIDE DEF G, base, items
  <2>2. G[{}] = base
    BY <1>5, <2>1
  <2> QED BY <2>1, <2>2
<1> DEFINE f == [n \in 0 .. N |-> G[1 .. n]]
<1>9. \A n \in 1 .. N : n \in 0 .. N /\ n - 1 \in 0 .. N
  OBVIOUS
<1> HIDE DEF G, items, Iter
<1>10. f[0] = base /\ f[N] = G[DOMAIN items]
  BY <1>8
<1>11. \A n \in 1 .. N : f[n] = G[1 .. n] /\ f[n - 1] = G[1 .. n - 1]
  BY <1>9
<1> HIDE DEF f
<1>12. \A n \in 1 .. N : f[n] = NextOfSeqs(f[n - 1], w[n], v)
  BY <1>7, <1>11
<1>13. IsSeqsRun(f, N, w, v, idents1, idents2, ParseOffSeqs(d, idents1, idents2, v))
  BY <1>6, <1>10, <1>12 DEF IsSeqsRun
<1> QED BY <1>13

NextOfId(id, e, v) ==
    IF e.type = AID_MODULE THEN v[e.at]
    ELSE IF e.type = AID_MODULE_AND_SCHEME THEN v[e.at + 1]
    ELSE id

IsIdRun(f, N, w, v, junk, last) ==
    /\ f[0] = junk
    /\ \A n \in 1 .. N : f[n] = NextOfId(f[n - 1], w[n], v)
    /\ last = f[N]

LEMMA IdRun ==
    ASSUME NEW d, NEW junk, NEW v, NEW N \in Nat,
           NEW w, AreItems(ItemsByOffset(d), N, w)
    PROVE  \E f : IsIdRun(f, N, w, v, junk, ModuleId(d, junk, v))
<1> USE DEF AreItems, AreValues
<1> DEFINE S == {junk} \cup {v[w[i].at] : i \in 1 .. N} \cup
                 {v[w[i].at + 1] : i \in 1 .. N}
           base == junk
           items == [i \in 1 .. N |-> w[i]]
           step == [n \in 1 .. N |-> [r \in S |-> NextOfId(r, w[n], v)]]
           Iter(h) == [s \in SUBSET (DOMAIN items) |->
                         IF s = {} THEN base
                         ELSE NextOfId(h[s \ {Max(s)}], items[Max(s)], v)]
           G == CHOOSE h : h = Iter(h)
<1>1. ASSUME NEW n \in 1 .. N, NEW r \in S PROVE NextOfId(r, w[n], v) \in S
  BY DEF NextOfId
<1>2. AreSteps(step, N, S) /\ base \in S
  <2>1. AreSteps(step, N, S)
    BY <1>1 DEF AreSteps
  <2> QED BY <2>1
<1>3. PICK g : IsFold(g, N, S, base, step)
  <2> HIDE DEF S, base, step
  <2> QED BY <1>2, FoldExists
<1>4. g = Iter(g)
  <2>1. DOMAIN items = 1 .. N
    OBVIOUS
  <2>2. ASSUME NEW s \in SUBSET (1 .. N), s # {}
        PROVE  g[s] = NextOfId(g[s \ {Max(s)}], items[Max(s)], v)
    <3>1. Max(s) \in 1 .. N /\ s \ {Max(s)} \in SUBSET (1 .. N)
      BY <2>2, MaxOf
    <3>2. g[s \ {Max(s)}] \in S
      BY <1>3, <3>1 DEF IsFold
    <3>3. g[s] = step[Max(s)][g[s \ {Max(s)}]]
      BY <1>3, <2>2 DEF IsFold
    <3> QED BY <3>1, <3>2, <3>3
  <2>3. g[{}] = base /\ g = [s \in SUBSET (1 .. N) |-> g[s]]
    BY <1>3 DEF IsFold
  <2> QED BY <2>1, <2>2, <2>3
<1>5. G = Iter(G)
  <2> HIDE DEF Iter
  <2> QED BY <1>4
<1>6. ModuleId(d, junk, v) = G[DOMAIN items]
  BY DEF ModuleId, FoldLeft, MapThenFoldSet, NextOfId
<1>7. ASSUME NEW n \in 1 .. N
      PROVE  G[1 .. n] = NextOfId(G[1 .. n - 1], w[n], v)
  <2> DEFINE s == 1 .. n
  <2>1. /\ Max(s) = n /\ s \ {Max(s)} = 1 .. n - 1 /\ s # {}
        /\ s \in SUBSET (DOMAIN items) /\ items[n] = w[n]
    BY UpToLast
  <2> HIDE DEF s, items, base, G
  <2>2. G[s] = NextOfId(G[s \ {Max(s)}], items[Max(s)], v)
    BY <1>5, <2>1
  <2> QED BY <2>1, <2>2 DEF s
<1>8. G[1 .. 0] = base /\ DOMAIN items = 1 .. N
  <2>1. {} \in SUBSET (DOMAIN items) /\ 1 .. 0 = {} /\ DOMAIN items = 1 .. N
    OBVIOUS
  <2> HIDE DEF G, base, items
  <2>2. G[{}] = base
    BY <1>5, <2>1
  <2> QED BY <2>1, <2>2
<1> DEFINE f == [n \in 0 .. N |-> G[1 .. n]]
<1>9. \A n \in 1 .. N : n \in 0 .. N /\ n - 1 \in 0 .. N
  OBVIOUS
<1> HIDE DEF G, items, Iter
<1>10. f[0] = base /\ f[N] = G[DOMAIN items]
  BY <1>8
<1>11. \A n \in 1 .. N : f[n] = G[1 .. n] /\ f[n - 1] = G[1 .. n - 1]
  BY <1>9
<1> HIDE DEF f
<1>12. \A n \in 1 .. N : f[n] = NextOfId(f[n - 1], w[n], v)
  BY <1>7, <1>11
<1>13. IsIdRun(f, N, w, v, junk, ModuleId(d, junk, v))
  BY <1>6, <1>10, <1>12 DEF IsIdRun
<1> QED BY <1>13

\* The list s has an offset for each of list; the first entries are those of one
\* pass, one behind the other, through the first n identifiers.
IsOffs(s, list) ==
    /\ s \in Seq(OffEntries) /\ Len(s) = Len(list)
    /\ \A k \in 1 .. Len(list) : s[k].type = list[k]
IsFilledAt(s, k, w, n, list, v) ==
    /\ \E j \in 1 .. n : w[j].type = list[k] /\ s[k].off = v[w[j].at]
    /\ k > 1 => s[k - 1].off[2] < s[k].off[2]
IsRising(N, w, v) == \A i, j \in 1 .. N : i < j => v[w[i].at][2] < v[w[j].at][2]

PassLength(x) == IF x.res # 0 THEN Len(x.idents) ELSE x.i - 1
SeqUpTo(x, w, n, list, v) ==
    /\ x \in SeqStates /\ IsOffs(x.idents, list)
    /\ x.res # 0 => x.i = 1
    /\ \A k \in 1 .. PassLength(x) : IsFilledAt(x.idents, k, w, n, list, v)

LEMMA SeqOneMore ==
    ASSUME NEW x, NEW w, NEW n \in Nat \ {0}, NEW list, NEW v, SeqUpTo(x, w, n - 1, list, v)
    PROVE  SeqUpTo(x, w, n, list, v)
<1>1. \A j \in 1 .. n - 1 : j \in 1 .. n
  OBVIOUS
<1>2. \A k : IsFilledAt(x.idents, k, w, n - 1, list, v) => IsFilledAt(x.idents, k, w, n, list, v)
  BY <1>1 DEF IsFilledAt
<1> QED BY <1>2 DEF SeqUpTo

LEMMA SeqStepIs ==
    ASSUME NEW list, NEW N \in Nat, NEW w, NEW v, AreValues(N, w, v), IsRising(N, w, v),
           NEW n \in 1 .. N, NEW x, SeqUpTo(x, w, n - 1, list, v), IsNext(x, w[n]),
           NEW res \in 1 .. 2
    PROVE  /\ SeqUpTo(Stepped(x, w[n], res, v), w, n, list, v)
           /\ Stepped(x, w[n], res, v).res \in {0, res}
<1> DEFINE y == Stepped(x, w[n], res, v)
           h == x.i
           s == x.idents
           z == [s EXCEPT ![h].off = v[w[n].at]]
<1>1. /\ x \in SeqStates /\ s \in Seq(OffEntries) /\ Len(s) = Len(list) /\ Len(s) \in Nat
      /\ \A k \in 1 .. Len(s) : s[k].type = list[k]
      /\ h \in 1 .. Len(s) /\ (x.res # 0 => h = 1)
      /\ \A k \in 1 .. PassLength(x) : IsFilledAt(s, k, w, n - 1, list, v)
  BY DEF SeqUpTo, IsOffs, SeqStates
<1>2. v[w[n].at] \in Values
  BY DEF AreValues
<1>3. /\ y \in SeqStates /\ y.idents = z
      /\ y.i = IF h = Len(s) THEN 1 ELSE h + 1
      /\ y.res = IF h = Len(s) THEN res ELSE 0
  <2> DEFINE e == w[n]
  <2>1. v[e.at] \in Values /\ x \in SeqStates
    BY <1>1, <1>2
  <2> HIDE DEF e
  <2>2. IsStepOf(Stepped(x, e, res, v), x, e, res, v)
    BY <2>1, SteppedIs
  <2> QED BY <2>2 DEF e, IsStepOf
<1>4. /\ y.i = IF h = Len(s) THEN 1 ELSE h + 1
      /\ y.res = IF h = Len(s) THEN res ELSE 0
  BY <1>3
<1>5. /\ z \in Seq(OffEntries) /\ Len(z) = Len(s)
      /\ \A k \in 1 .. Len(s) : /\ z[k].type = s[k].type
                                /\ z[k].off = IF k = h THEN v[w[n].at] ELSE s[k].off
  BY <1>1, <1>2, OffsetSet
<1>6. IsOffs(z, list)
  BY <1>1, <1>5 DEF IsOffs
<1>7. w[n].type = list[h]
  BY <1>1 DEF IsNext
<1> HIDE DEF y, z
<1>8. PassLength(y) = h
  BY <1>1, <1>3, <1>4, <1>5 DEF PassLength
<1>9. \A k \in 1 .. h - 1 : IsFilledAt(s, k, w, n - 1, list, v) /\ k \in 1 .. Len(s) /\ k # h
  <2>1. h > 1 => PassLength(x) = h - 1
    BY <1>1 DEF PassLength
  <2>2. \A k \in 1 .. h - 1 : h > 1 /\ k \in 1 .. Len(s) /\ k # h
    BY <1>1
  <2> QED BY <1>1, <2>1, <2>2
<1> HIDE DEF h, s
<1>10. ASSUME NEW k \in 1 .. h - 1 PROVE IsFilledAt(z, k, w, n, list, v)
  <2>1. IsFilledAt(s, k, w, n - 1, list, v) /\ z[k].off = s[k].off
    BY <1>5, <1>9
  <2>2. k > 1 => k - 1 \in 1 .. h - 1
    BY <1>1
  <2>3. k > 1 => z[k - 1].off = s[k - 1].off
    BY <1>5, <1>9, <2>2
  <2>4. \A j \in 1 .. n - 1 : j \in 1 .. n
    OBVIOUS
  <2> QED BY <2>1, <2>3, <2>4 DEF IsFilledAt
<1>11. IsFilledAt(z, h, w, n, list, v)
  <2>1. z[h].off = v[w[n].at] /\ n \in 1 .. n
    BY <1>1, <1>5
  <2>2. ASSUME h > 1 PROVE z[h - 1].off[2] < z[h].off[2]
    <3>1. h - 1 \in 1 .. h - 1
      BY <1>1, <2>2
    <3>2. z[h - 1].off = s[h - 1].off /\ IsFilledAt(s, h - 1, w, n - 1, list, v)
      BY <1>5, <1>9, <3>1
    <3>3. PICK j \in 1 .. n - 1 : s[h - 1].off = v[w[j].at]
      BY <3>2 DEF IsFilledAt
    <3>4. j \in 1 .. N /\ j < n
      OBVIOUS
    <3>5. v[w[j].at][2] < v[w[n].at][2]
      BY <3>4 DEF IsRising
    <3> QED BY <2>1, <3>2, <3>3, <3>5
  <2> QED BY <1>7, <2>1, <2>2 DEF IsFilledAt
<1>12. \A k \in 1 .. h : k \in 1 .. h - 1 \/ k = h
  BY <1>1
<1>13. \A k \in 1 .. PassLength(y) : IsFilledAt(y.idents, k, w, n, list, v)
  BY <1>3, <1>8, <1>10, <1>11, <1>12
<1>14. (y.res # 0 => y.i = 1) /\ y.res \in {0, res}
  BY <1>4
<1>15. SeqUpTo(y, w, n, list, v)
  BY <1>3, <1>6, <1>13, <1>14 DEF SeqUpTo
<1> QED BY <1>14, <1>15 DEF y

LEMMA WrittenIsRising ==
    ASSUME NEW a, IsWritten(a), NEW n, NEW N \in Nat, N <= Len(a.wrote)
    PROVE  IsRising(N, a.wrote, ValuesOf(a, n))
<1> DEFINE w == a.wrote
           P == {k \in 0 .. N : \A i, j \in 1 .. k : i < j => w[i].at < w[j].at}
<1>1. Len(w) \in Nat /\ \A i \in 1 .. N : i \in 1 .. Len(w)
  BY WrittenOne
<1>2. \A i \in 1 .. N : w[i].at \in 1 .. Len(a.bytes) /\ Len(a.bytes) \in Nat
  BY <1>1, WrittenOne
<1>3. ASSUME NEW i \in 1 .. N, i > 1 PROVE w[i - 1].at < w[i].at
  <2>1. i - 1 \in 1 .. Len(w) /\ i \in 1 .. Len(w)
    BY <1>1, <1>3
  <2>2. /\ w[i].at = w[i - 1].at + SizeIn(a, i - 1) + 1
        /\ SizeIn(a, i - 1) \in Nat /\ w[i - 1].at \in 1 .. Len(a.bytes)
    BY <1>3, <2>1, WrittenOne, ZenonT(60)
  <2> HIDE DEF w
  <2> QED BY <2>2
<1> HIDE DEF w
<1>4. 0 \in P
  BY DEF P
<1>5. ASSUME NEW k \in 0 .. N, k < N, k \in P PROVE k + 1 \in P
  <2>1. k + 1 \in 1 .. N /\ k + 1 \in 0 .. N
    BY <1>5
  <2>2. ASSUME NEW i \in 1 .. k + 1, NEW j \in 1 .. k + 1, i < j PROVE w[i].at < w[j].at
    <3>1. CASE j # k + 1
      <4>1. i \in 1 .. k /\ j \in 1 .. k
        BY <2>2, <3>1
      <4> QED BY <1>5, <2>2, <4>1
    <3>2. CASE j = k + 1 /\ i = k
      <4>1. k + 1 > 1 /\ (k + 1) - 1 = k
        BY <3>2
      <4>2. w[(k + 1) - 1].at < w[k + 1].at
        BY <1>3, <2>1, <4>1
      <4> QED BY <3>2, <4>1, <4>2
    <3>3. CASE j = k + 1 /\ i # k
      <4>1. k + 1 > 1 /\ (k + 1) - 1 = k /\ i \in 1 .. k /\ k \in 1 .. k /\ i < k
        BY <2>2, <3>3
      <4>2. w[i].at < w[k].at
        BY <1>5, <4>1
      <4>3. w[(k + 1) - 1].at < w[k + 1].at
        BY <1>3, <2>1, <4>1
      <4>4. i \in 1 .. N /\ k \in 1 .. N
        BY <1>5, <4>1
      <4> QED BY <1>2, <2>1, <3>3, <4>1, <4>2, <4>3, <4>4
    <3> QED BY <3>1, <3>2, <3>3
  <2> QED BY <2>1, <2>2
<1>6. N \in P
  <2> HIDE DEF P
  <2>1. \A k \in 0 .. N : k \in P
    BY <1>4, <1>5, Climb
  <2> QED BY <2>1
<1>7. \A i \in 1 .. N : ValuesOf(a, n)[w[i].at] = <<n, w[i].at>>
  BY <1>2 DEF ValuesOf
<1>8. \A i, j \in 1 .. N : i < j => w[i].at < w[j].at
  BY <1>6
<1>9. ASSUME NEW i \in 1 .. N, NEW j \in 1 .. N, i < j
      PROVE  ValuesOf(a, n)[w[i].at][2] < ValuesOf(a, n)[w[j].at][2]
  <2>1. w[i].at < w[j].at
    BY <1>8, <1>9
  <2>2. \A k \in 1 .. N : ValuesOf(a, n)[w[k].at][2] = w[k].at
    <3> SUFFICES ASSUME NEW k \in 1 .. N PROVE ValuesOf(a, n)[w[k].at][2] = w[k].at
      OBVIOUS
    <3> DEFINE x == ValuesOf(a, n)[w[k].at]  y == w[k].at
    <3>1. x = <<n, y>>
      BY <1>7
    <3> HIDE DEF x, y
    <3>2. x[2] = y
      BY ONLY <3>1
    <3> QED BY <3>2 DEF x, y
  <2> QED BY <2>1, <2>2
<1> QED BY <1>9 DEF IsRising, w

\* All of list has been found, in this order, among the m whole identifiers.
IsSequence(a, n, m, list, s) ==
    \A k \in 1 .. Len(list) : IsFilledAt(s, k, a.wrote, m, list, ValuesOf(a, n))

LEMMA SequenceIs ==
    ASSUME NEW a, NEW n, NEW m \in Nat, NEW N \in 0 .. m, NEW list, NEW x,
           SeqUpTo(x, a.wrote, N, list, ValuesOf(a, n))
    PROVE  IsOffs(x.idents, list) /\ (x.res # 0 => IsSequence(a, n, m, list, x.idents))
<1>1. \A j \in 1 .. N : j \in 1 .. m
  OBVIOUS
<1>2. x.res # 0 => PassLength(x) = Len(list)
  BY DEF PassLength, SeqUpTo, IsOffs
<1>3. \A k : IsFilledAt(x.idents, k, a.wrote, N, list, ValuesOf(a, n)) =>
             IsFilledAt(x.idents, k, a.wrote, m, list, ValuesOf(a, n))
  BY <1>1 DEF IsFilledAt
<1> QED BY <1>2, <1>3 DEF SeqUpTo, IsSequence

LEMMA SeqStartIs ==
    ASSUME NEW list, NEW s, IsOffs(s, list), s # << >>, NEW w, NEW v
    PROVE  SeqUpTo([idents |-> s, i |-> 1, res |-> 0], w, 0, list, v)
<1> DEFINE x == [idents |-> s, i |-> 1, res |-> 0]
<1>1. s \in Seq(OffEntries)
  BY DEF IsOffs
<1>2. Len(s) \in Nat /\ 1 \in 1 .. Len(s)
  BY <1>1
<1>3. x \in SeqStates
  BY <1>1, <1>2 DEF SeqStates
<1>4. x.idents = s /\ x.i = 1 /\ x.res = 0
  OBVIOUS
<1> HIDE DEF x
<1>5. PassLength(x) = 0
  BY <1>4 DEF PassLength
<1>6. SeqUpTo(x, w, 0, list, v)
  BY <1>3, <1>4, <1>5 DEF SeqUpTo
<1> QED BY <1>6 DEF x

LEMMA OneSequence ==
    ASSUME NEW a, IsWritten(a), NEW n \in Nat, NEW m \in Nat, IsWholeUpTo(a, m),
           NEW list, NEW s, IsOffs(s, list),
           NEW r, r = ParseOffSeq(a.bytes, s, ValuesOf(a, n))
    PROVE  /\ IsOffs(r.idents, list) /\ r.res \in {0, 1}
           /\ r.res # 0 => IsSequence(a, n, m, list, r.idents)
<1> DEFINE v == ValuesOf(a, n)
           w == a.wrote
<1>1. PICK N \in Nat : IsRead(a, n, ItemsByOffset(a.bytes), N, m)
  BY ArrayIsRead
<1>2. /\ AreItems(ItemsByOffset(a.bytes), N, w) /\ AreValues(N, w, v)
      /\ N \in 0 .. m /\ N <= Len(w)
  <2>1. m <= Len(a.wrote) /\ Len(a.wrote) \in Nat
    BY WrittenOne DEF IsWholeUpTo
  <2> QED BY <1>1, <2>1 DEF IsRead
<1>3. IsRising(N, w, v)
  BY <1>2, WrittenIsRising
<1> HIDE DEF v, w
<1>4. CASE s = << >>
  <2>1. r.idents = s /\ r.res = 0
    BY <1>4 DEF ParseOffSeq
  <2> QED BY <2>1
<1>5. CASE s # << >>
  <2>1. s \in Seq(OffEntries)
    BY DEF IsOffs
  <2> DEFINE d == a.bytes
  <2> HIDE DEF d
  <2>2. AreItems(ItemsByOffset(d), N, w)
    BY <1>2 DEF d
  <2>3. PICK f : /\ f[0] = [idents |-> s, i |-> 1, res |-> 0]
                 /\ \A i \in 1 .. N : f[i] = NextOfSeq(f[i - 1], w[i], v)
                 /\ ParseOffSeq(d, s, v) = f[N]
    <3>1. AreValues(N, w, v) /\ N \in Nat
      BY <1>2
    <3> QED BY ONLY <1>5, <2>1, <2>2, <3>1, SeqRun
  <2> DEFINE P == {i \in 0 .. N : SeqUpTo(f[i], w, i, list, v) /\ f[i].res \in {0, 1}}
  <2>4. 0 \in P
    BY <1>5, <2>3, SeqStartIs
  <2>5. ASSUME NEW i \in 0 .. N, i < N, i \in P PROVE i + 1 \in P
    <3> DEFINE k == i + 1
    <3>1. k \in 1 .. N /\ k - 1 = i /\ k \in 0 .. N /\ k \in Nat \ {0}
      BY <2>5
    <3> HIDE DEF k
    <3>2. SeqUpTo(f[k - 1], w, k - 1, list, v) /\ f[k - 1].res \in {0, 1} /\ 1 \in 1 .. 2
      BY <2>5, <3>1
    <3>3. /\ SeqUpTo(NextOfSeq(f[k - 1], w[k], v), w, k, list, v)
          /\ NextOfSeq(f[k - 1], w[k], v).res \in {0, 1}
      BY <1>2, <1>3, <3>1, <3>2, SeqStepIs, SeqOneMore DEF NextOfSeq
    <3> QED BY <2>3, <3>1, <3>3 DEF k
  <2>6. SeqUpTo(f[N], w, N, list, v) /\ f[N].res \in {0, 1}
    <3>1. \A i \in 0 .. N : i \in P
      <4> HIDE DEF P
      <4> QED BY <2>4, <2>5, Climb
    <3> QED BY <3>1
  <2>7. r = f[N]
    BY <2>3 DEF v, d
  <2> QED BY <1>2, <2>6, <2>7, SequenceIs DEF v, w
<1> QED BY <1>4, <1>5

SeqsUpTo(x, w, n, list1, list2, v) ==
    /\ x \in SeqsStates
    /\ SeqUpTo(x.one, w, n, list1, v) /\ SeqUpTo(x.two, w, n, list2, v)
    /\ (x.res = 1 => x.one.res # 0) /\ (x.res = 2 => x.two.res # 0)

LEMMA SeqsStepIs ==
    ASSUME NEW list1, NEW list2, NEW N \in Nat, NEW w, NEW v,
           AreValues(N, w, v), IsRising(N, w, v),
           NEW n \in 1 .. N, NEW x, SeqsUpTo(x, w, n - 1, list1, list2, v)
    PROVE  SeqsUpTo(NextOfSeqs(x, w[n], v), w, n, list1, list2, v)
<1> DEFINE e == w[n]
           s1 == Stepped(x.one, e, 1, v)
           s2 == Stepped(x.two, e, 2, v)
           y == NextOfSeqs(x, e, v)
<1>1. /\ x \in SeqsStates /\ SeqUpTo(x.one, w, n - 1, list1, v) /\ SeqUpTo(x.two, w, n - 1, list2, v)
      /\ (x.res = 1 => x.one.res # 0) /\ (x.res = 2 => x.two.res # 0)
  BY DEF SeqsUpTo
<1>2. SeqUpTo(x.one, w, n, list1, v) /\ SeqUpTo(x.two, w, n, list2, v)
  <2>1. n \in Nat \ {0}
    OBVIOUS
  <2> QED BY <1>1, <2>1, SeqOneMore
<1>3. IsNext(x.one, e) => SeqUpTo(s1, w, n, list1, v) /\ s1.res \in {0, 1}
  <2>1. 1 \in 1 .. 2
    OBVIOUS
  <2> QED BY <1>1, <2>1, SeqStepIs
<1>4. IsNext(x.two, e) => SeqUpTo(s2, w, n, list2, v) /\ s2.res \in {0, 2}
  <2>1. 2 \in 1 .. 2
    OBVIOUS
  <2> QED BY <1>1, <2>1, SeqStepIs
<1>5. v[e.at] \in Values
  BY DEF AreValues
<1> HIDE DEF e
<1>6. /\ y \in SeqsStates
      /\ IsNext(x.one, e) => y = [one |-> s1, two |-> x.two, res |-> s1.res]
      /\ ~ IsNext(x.one, e) /\ IsNext(x.two, e) => y = [one |-> x.one, two |-> s2, res |-> s2.res]
      /\ ~ IsNext(x.one, e) /\ ~ IsNext(x.two, e) => y = x
  BY <1>1, <1>5, NextOfSeqsIs
<1> HIDE DEF y, s1, s2
<1>7. CASE IsNext(x.one, e)
  <2>1. y.one = s1 /\ y.two = x.two /\ y.res = s1.res
    BY <1>6, <1>7
  <2> QED BY <1>2, <1>3, <1>6, <1>7, <2>1 DEF SeqsUpTo, y, e
<1>8. CASE ~ IsNext(x.one, e) /\ IsNext(x.two, e)
  <2>1. y.one = x.one /\ y.two = s2 /\ y.res = s2.res
    BY <1>6, <1>8
  <2> QED BY <1>2, <1>4, <1>6, <1>8, <2>1 DEF SeqsUpTo, y, e
<1>9. CASE ~ IsNext(x.one, e) /\ ~ IsNext(x.two, e)
  BY <1>1, <1>2, <1>6, <1>9 DEF SeqsUpTo, y, e
<1> QED BY <1>7, <1>8, <1>9

LEMMA TwoSequences ==
    ASSUME NEW a, IsWritten(a), NEW n \in Nat, NEW m \in Nat, IsWholeUpTo(a, m),
           NEW list1, NEW s1, IsOffs(s1, list1), NEW list2, NEW s2, IsOffs(s2, list2),
           NEW r, r = ParseOffSeqs(a.bytes, s1, s2, ValuesOf(a, n))
    PROVE  /\ IsOffs(r.one.idents, list1) /\ IsOffs(r.two.idents, list2)
           /\ r.res = 1 => IsSequence(a, n, m, list1, r.one.idents)
           /\ r.res = 2 => IsSequence(a, n, m, list2, r.two.idents)
<1> DEFINE v == ValuesOf(a, n)
           w == a.wrote
           start == [one |-> [idents |-> s1, i |-> 1, res |-> 0],
                     two |-> [idents |-> s2, i |-> 1, res |-> 0], res |-> 0]
<1>1. PICK N \in Nat : IsRead(a, n, ItemsByOffset(a.bytes), N, m)
  BY ArrayIsRead
<1>2. /\ AreItems(ItemsByOffset(a.bytes), N, w) /\ AreValues(N, w, v)
      /\ N \in 0 .. m /\ N <= Len(w)
  <2>1. m <= Len(a.wrote) /\ Len(a.wrote) \in Nat
    BY WrittenOne DEF IsWholeUpTo
  <2> QED BY <1>1, <2>1 DEF IsRead
<1>3. IsRising(N, w, v)
  BY <1>2, WrittenIsRising
<1> HIDE DEF v, w
<1>4. CASE s1 = << >> \/ s2 = << >>
  <2>1. r = start
    BY <1>4 DEF ParseOffSeqs
  <2>2. r.one.idents = s1 /\ r.two.idents = s2 /\ r.res = 0
    BY <2>1
  <2> QED BY <2>2
<1>5. CASE ~ (s1 = << >> \/ s2 = << >>)
  <2>1. s1 \in Seq(OffEntries) /\ s2 \in Seq(OffEntries) /\ s1 # << >> /\ s2 # << >>
    BY <1>5 DEF IsOffs
  <2> DEFINE d == a.bytes
  <2> HIDE DEF d
  <2>2. AreItems(ItemsByOffset(d), N, w)
    BY <1>2 DEF d
  <2>3. \E f : /\ f[0] = start
               /\ \A i \in 1 .. N : f[i] = NextOfSeqs(f[i - 1], w[i], v)
               /\ ParseOffSeqs(d, s1, s2, v) = f[N]
    <3>1. AreValues(N, w, v) /\ N \in Nat
      BY <1>2
    <3>2. \E f : IsSeqsRun(f, N, w, v, s1, s2, ParseOffSeqs(d, s1, s2, v))
      BY ONLY <2>1, <2>2, <3>1, SeqsRun
    <3> QED BY ONLY <3>2 DEF IsSeqsRun
  <2> PICK f : /\ f[0] = start
               /\ \A i \in 1 .. N : f[i] = NextOfSeqs(f[i - 1], w[i], v)
               /\ ParseOffSeqs(d, s1, s2, v) = f[N]
    BY <2>3
  <2> DEFINE P == {i \in 0 .. N : SeqsUpTo(f[i], w, i, list1, list2, v)}
  <2>4. 0 \in P
    <3> DEFINE one == [idents |-> s1, i |-> 1, res |-> 0]
               two == [idents |-> s2, i |-> 1, res |-> 0]
    <3>1. SeqUpTo(one, w, 0, list1, v) /\ SeqUpTo(two, w, 0, list2, v)
      BY <2>1, SeqStartIs
    <3> HIDE DEF one, two
    <3> DEFINE x == [one |-> one, two |-> two, res |-> 0]
    <3>2. x \in SeqsStates
      BY <3>1 DEF SeqsStates, SeqUpTo
    <3>3. x.one = one /\ x.two = two /\ x.res = 0
      OBVIOUS
    <3> HIDE DEF x
    <3>4. SeqsUpTo(x, w, 0, list1, list2, v)
      BY <3>1, <3>2, <3>3 DEF SeqsUpTo
    <3>5. f[0] = x
      BY DEF x, one, two
    <3> QED BY <3>4, <3>5
  <2>5. ASSUME NEW i \in 0 .. N, i < N, i \in P PROVE i + 1 \in P
    <3> DEFINE k == i + 1
    <3>1. k \in 1 .. N /\ k - 1 = i /\ k \in 0 .. N
      BY <2>5
    <3> HIDE DEF k
    <3>2. SeqsUpTo(f[k - 1], w, k - 1, list1, list2, v)
      BY <2>5, <3>1
    <3>3. SeqsUpTo(NextOfSeqs(f[k - 1], w[k], v), w, k, list1, list2, v)
      BY <1>2, <1>3, <3>1, <3>2, SeqsStepIs
    <3> QED BY <3>1, <3>3 DEF k
  <2>6. SeqsUpTo(f[N], w, N, list1, list2, v)
    <3>1. \A i \in 0 .. N : i \in P
      <4> HIDE DEF P
      <4> QED BY <2>4, <2>5, Climb
    <3> QED BY <3>1
  <2>7. r = f[N]
    BY DEF v, d
  <2>8. /\ SeqUpTo(r.one, w, N, list1, v) /\ SeqUpTo(r.two, w, N, list2, v)
        /\ (r.res = 1 => r.one.res # 0) /\ (r.res = 2 => r.two.res # 0)
    BY <2>6, <2>7 DEF SeqsUpTo
  <2> QED BY <1>2, <2>8, SequenceIs DEF v, w
<1> QED BY <1>4, <1>5
------------------------------------------------------------------------------
(***************************************************************************)
(* The offsets of all identifiers.                                         *)
(***************************************************************************)
GivesEnds(T, s, t, none) ==
    /\ T = {} => GetOffIdent(s, t, none) = none /\ GetOffLastIdent(s, t, none) = none
    /\ T # {} => /\ \E i \in T : GetOffIdent(s, t, none) = s[i].off /\ \A j \in T : i <= j
                 /\ \E i \in T : GetOffLastIdent(s, t, none) = s[i].off /\ \A j \in T : j <= i

LEMMA LastOfIs ==
    ASSUME NEW X, NEW s \in Seq(X), NEW t, NEW none
    PROVE  GivesEnds({i \in 1 .. Len(s) : s[i].type = t}, s, t, none)
<1> DEFINE T == {i \in 1 .. Len(s) : s[i].type = t}
           first == IF T # {} THEN Min(T) ELSE 0
           last == IF T # {} THEN Max(T) ELSE 0
<1>1. /\ GetOffIdent(s, t, none) = IF first = 0 THEN none ELSE s[first].off
      /\ GetOffLastIdent(s, t, none) = IF last = 0 THEN none ELSE s[last].off
  BY DEF GetOffIdent, GetOffLastIdent, FirstOf, SelectInSeq, SelectLastInSeq
<1>2. T \in SUBSET (1 .. Len(s)) /\ T \in SUBSET Nat /\ Len(s) \in Nat
  OBVIOUS
<1> HIDE DEF T
<1>3. CASE T = {}
  BY <1>1, <1>3 DEF GivesEnds, T
<1>4. CASE T # {}
  <2>1. Max(T) \in T /\ \A j \in T : j <= Max(T)
    BY <1>2, <1>4, MaxOf
  <2>2. \E i \in T : \A j \in T : i <= j
    BY <1>2, <1>4, LeastNumber
  <2>3. Min(T) \in T /\ \A j \in T : Min(T) <= j
    BY <2>2 DEF Min
  <2>4. Min(T) # 0 /\ Max(T) # 0
    BY <1>2, <2>1, <2>3
  <2>5. GetOffIdent(s, t, none) = s[Min(T)].off /\ GetOffLastIdent(s, t, none) = s[Max(T)].off
    BY <1>1, <1>4, <2>4
  <2> QED BY <1>4, <2>1, <2>3, <2>5 DEF GivesEnds, T
<1> QED BY <1>3, <1>4

\* One byte behind the array is read if the loop comes to its end.
LEMMA PastIs ==
    ASSUME NEW a, IsWritten(a), NEW m \in Nat, IsWholeUpTo(a, m)
    PROVE  ReadsPast(a.bytes) <=> m = Len(a.wrote) /\ Len(a.bytes) > 1
<1> DEFINE items == ItemsByOffset(a.bytes)  w == a.wrote  L == Len(a.bytes)
<1>1. /\ m <= Len(w) /\ m >= Len(w) - 1 /\ Len(w) \in Nat /\ L \in Nat
      /\ m < Len(w) => w[m + 1].at + SizeIn(a, m + 1) > L
      /\ m = Len(w) /\ m > 0 => w[m].at + SizeIn(a, m) = L
      /\ Len(w) = 0 => L = 0
  BY WrittenOne DEF IsWholeUpTo
<1>2. /\ L > 1 => items = FirstOfArray(a, m)
      /\ L <= 1 => items = FirstOfArray(a, 0)
  BY ItemsByOffsetAre
<1>3. CASE L <= 1
  <2>1. items = << >>
    BY <1>2, <1>3 DEF FirstOfArray
  <2> QED BY <1>1, <1>3, <2>1 DEF ReadsPast
<1>4. CASE L > 1 /\ m = 0
  <2>1. items = << >>
    BY <1>2, <1>4 DEF FirstOfArray
  <2>2. m # Len(w)
    BY <1>1, <1>4
  <2> QED BY <2>1, <2>2 DEF ReadsPast
<1>5. CASE L > 1 /\ m > 0
  <2>1. items = [i \in 1 .. m |-> w[i]]
    BY <1>2, <1>5 DEF FirstOfArray
  <2> HIDE DEF items, w
  <2>2. Len(items) = m /\ items[m] = w[m] /\ items # << >>
    BY <1>5, <2>1
  <2>3. Last(items) = w[m]
    BY <2>2 DEF Last
  <2>4. ReadsPast(a.bytes) <=> w[m].at + SizeIn(a, m) = L
    BY <2>2, <2>3 DEF ReadsPast, SizeIn, items, w
  <2>5. ASSUME m < Len(w) PROVE w[m].at + SizeIn(a, m) # L
    <3>1. m + 1 \in 1 .. Len(w) /\ m \in 1 .. Len(w) /\ m + 1 > 1 /\ (m + 1) - 1 = m
      BY <1>1, <1>5, <2>5
    <3>2. w[m + 1].at = w[(m + 1) - 1].at + SizeIn(a, (m + 1) - 1) + 1 /\ w[m + 1].at \in 1 .. L
      BY <3>1, WrittenOne DEF w
    <3>3. w[m].at \in 1 .. L /\ SizeIn(a, m) \in Nat
      BY <3>1, WrittenOne DEF w
    <3>4. w[m + 1].at = w[m].at + SizeIn(a, m) + 1
      BY <3>1, <3>2
    <3> QED BY <1>1, <3>2, <3>3, <3>4
  <2> QED BY <1>1, <1>5, <2>4, <2>5 DEF w
<1>6. L <= 1 \/ (L > 1 /\ m = 0) \/ (L > 1 /\ m > 0)
  BY <1>1
<1> QED BY <1>3, <1>4, <1>5, <1>6

OffsetsOf(a, m, t) == {i \in 1 .. m : a.wrote[i].type = t}
IsFirstOff(x, a, n, O) ==
    \E i \in O : x = ValuesOf(a, n)[a.wrote[i].at] /\ \A j \in O : i <= j
IsLastOff(x, a, n, O) ==
    \E i \in O : x = ValuesOf(a, n)[a.wrote[i].at] /\ \A j \in O : j <= i

LEMMA AllOffsets ==
    ASSUME NEW a, IsWritten(a), NEW n \in Nat, NEW m \in Nat, IsWholeUpTo(a, m),
           NEW t, getIdentifySize[t] > 0, NEW none,
           NEW z, z = ParseAllOff(a.bytes, << >>, ValuesOf(a, n))
    PROVE  /\ GetOffIdent(z, t, none) = ParseOffIdentify(a.bytes, t, none, ValuesOf(a, n))
           /\ OffsetsOf(a, m, t) = {} => /\ GetOffIdent(z, t, none) = none
                                         /\ GetOffLastIdent(z, t, none) = none
           /\ OffsetsOf(a, m, t) # {} =>
                /\ IsFirstOff(GetOffIdent(z, t, none), a, n, OffsetsOf(a, m, t))
                /\ IsLastOff(GetOffLastIdent(z, t, none), a, n, OffsetsOf(a, m, t))
<1> DEFINE v == ValuesOf(a, n)
           w == a.wrote
           items == ItemsByOffset(a.bytes)
           O == OffsetsOf(a, m, t)
<1>1. PICK N \in Nat : IsRead(a, n, items, N, m)
  BY ArrayIsRead
<1>2. /\ items = [i \in 1 .. N |-> w[i]] /\ N \in 0 .. m
      /\ \A i \in 1 .. N : w[i].type \in 0 .. 255 /\ v[w[i].at] \in Values
      /\ \A i \in 1 .. m : SizeIn(a, i) > 0 => i <= N
  BY <1>1 DEF IsRead, AreItems, AreValues
<1>3. z = << >> \o [k \in DOMAIN items |-> [type |-> items[k].type, off |-> v[items[k].at]]]
  BY DEF ParseAllOff
<1> DEFINE y == [k \in 1 .. N |-> [type |-> w[k].type, off |-> v[w[k].at]]]
<1> HIDE DEF v, w, items
<1>4. DOMAIN items = 1 .. N /\ Len(items) = N /\ \A i \in 1 .. N : items[i] = w[i] /\ i \in 1 .. m
  BY <1>2
<1>5. y = [k \in DOMAIN items |-> [type |-> items[k].type, off |-> v[items[k].at]]]
  BY <1>4
<1>6. \A k \in 1 .. N : y[k].type = w[k].type /\ y[k].off = v[w[k].at] /\ y[k] \in OffEntries
  BY <1>2 DEF OffEntries
<1>7. y \in Seq(OffEntries) /\ Len(y) = N
  <2>1. y \in [1 .. N -> OffEntries]
    BY <1>6
  <2> HIDE DEF y
  <2> QED BY <2>1
<1>8. z = y
  <2> DEFINE x == y
  <2>1. z = << >> \o x /\ x \in Seq(OffEntries)
    BY <1>3, <1>5, <1>7
  <2> HIDE DEF x
  <2>2. << >> \o x = x
    BY <2>1
  <2> QED BY <2>1, <2>2 DEF x
<1> HIDE DEF y
<1>9. \A i \in 1 .. m : w[i].type = t => i \in 1 .. N
  BY <1>2 DEF SizeIn, w
<1>10. O = {i \in 1 .. Len(y) : y[i].type = t}
  BY <1>4, <1>6, <1>7, <1>9 DEF OffsetsOf, w
<1> HIDE DEF O
<1>11. /\ O = {} => GetOffIdent(y, t, none) = none /\ GetOffLastIdent(y, t, none) = none
       /\ O # {} => /\ \E i \in O : GetOffIdent(y, t, none) = y[i].off /\ \A j \in O : i <= j
                    /\ \E i \in O : GetOffLastIdent(y, t, none) = y[i].off /\ \A j \in O : j <= i
  <2>1. GivesEnds({i \in 1 .. Len(y) : y[i].type = t}, y, t, none)
    BY <1>7, LastOfIs
  <2>2. GivesEnds(O, y, t, none)
    BY <1>10, <2>1
  <2> QED BY <2>2 DEF GivesEnds
<1>12. O \in SUBSET (1 .. N)
  BY <1>7, <1>10
<1>13. \A i \in O : y[i].off = ValuesOf(a, n)[a.wrote[i].at]
  BY <1>6, <1>12 DEF v, w
<1>14. GetOffIdent(y, t, none) = ParseOffIdentify(a.bytes, t, none, v)
  <2>1. {i \in 1 .. Len(y) : y[i].type = t} = {i \in 1 .. Len(items) : items[i].type = t}
    BY <1>4, <1>6, <1>7
  <2>2. FirstOf(y, t) = FirstOf(items, t)
    BY <2>1 DEF FirstOf, SelectInSeq
  <2>3. FirstOf(y, t) = 0 \/ FirstOf(y, t) \in 1 .. N
    BY <1>7, FirstOfIs
  <2>4. FirstOf(y, t) # 0 => y[FirstOf(y, t)].off = v[items[FirstOf(y, t)].at]
    BY <1>4, <1>6, <2>3
  <2> QED BY <2>2, <2>4 DEF GetOffIdent, ParseOffIdentify, items
<1> QED BY <1>8, <1>11, <1>13, <1>14 DEF IsFirstOff, IsLastOff, O, v

\* The number of the last module, if there is one, is a value of the array.
LEMMA IdIs ==
    ASSUME NEW a, IsWritten(a), NEW n \in Nat, NEW m \in Nat, IsWholeUpTo(a, m)
    PROVE  ModuleId(a.bytes, NoId, ValuesOf(a, n)) = NoId <=>
             \A i \in 1 .. m : ~ IsModule(a.wrote[i].type)
<1> DEFINE v == ValuesOf(a, n)
           w == a.wrote
           L == Len(a.bytes)
<1>1. PICK N \in Nat : IsRead(a, n, ItemsByOffset(a.bytes), N, m)
  BY ArrayIsRead
<1>2. /\ AreItems(ItemsByOffset(a.bytes), N, w) /\ N \in 0 .. m /\ m <= Len(w)
      /\ Len(w) \in Nat /\ L \in Nat
      /\ \A i \in 1 .. m : SizeIn(a, i) > 0 => i <= N
  BY <1>1, WrittenOne DEF IsRead, IsWholeUpTo
<1>3. ASSUME NEW i \in 1 .. m
      PROVE  /\ w[i].type \in 0 .. 255 /\ w[i].at \in 1 .. L /\ SizeIn(a, i) \in Nat
             /\ w[i].at + SizeIn(a, i) <= L
             /\ IsModule(w[i].type) => SizeIn(a, i) > 0
  <2>1. i \in 1 .. Len(w) /\ i \in WholeOf(a)
    BY <1>2 DEF IsWholeUpTo
  <2>2. w[i].type \in 0 .. 255 /\ w[i].at \in 1 .. L /\ SizeIn(a, i) \in Nat
    BY <2>1, WrittenOne
  <2>3. w[i].at + SizeIn(a, i) <= L
    BY <2>1 DEF WholeOf
  <2> QED BY <2>2, <2>3, SizeIsNat DEF SizeIn
<1>4. ASSUME NEW i \in 1 .. m, IsModule(w[i].type)
      PROVE  v[w[i].at] # NoId /\ v[w[i].at + 1] # NoId
  <2> DEFINE at == w[i].at
  <2>1. at \in 0 .. L /\ at + 1 \in 0 .. L /\ at # 0 /\ at + 1 # 0
    BY <1>2, <1>3, <1>4, SMTT(30)
  <2> HIDE DEF at
  <2>2. v[at] = <<n, at>> /\ v[at + 1] = <<n, at + 1>>
    BY <2>1 DEF ValuesOf
  <2> HIDE DEF v
  <2>3. v[at] # NoId /\ v[at + 1] # NoId
    BY <2>1, <2>2 DEF NoId
  <2> QED BY <2>3 DEF at
<1> HIDE DEF v, w
<1>5. PICK f : /\ f[0] = NoId
               /\ \A i \in 1 .. N : f[i] = NextOfId(f[i - 1], w[i], v)
               /\ ModuleId(a.bytes, NoId, v) = f[N]
  <2> DEFINE d == a.bytes
  <2> HIDE DEF d
  <2>1. AreItems(ItemsByOffset(d), N, w) /\ N \in Nat
    BY <1>2 DEF d
  <2>2. \E f : IsIdRun(f, N, w, v, NoId, ModuleId(d, NoId, v))
    BY ONLY <2>1, IdRun
  <2> QED BY <2>2 DEF d, IsIdRun
<1> DEFINE P == {i \in 0 .. N : f[i] = NoId <=> \A j \in 1 .. i : ~ IsModule(w[j].type)}
<1>6. 0 \in P
  BY <1>5
<1>7. ASSUME NEW i \in 0 .. N, i < N, i \in P PROVE i + 1 \in P
  <2> DEFINE k == i + 1
  <2>1. /\ k \in 1 .. N /\ k - 1 = i /\ k \in 0 .. N /\ k \in 1 .. m
        /\ \A j \in 1 .. k : j \in 1 .. i \/ j = k
        /\ \A j \in 1 .. i : j \in 1 .. k
    BY <1>2, <1>7
  <2>2. f[k] = NextOfId(f[i], w[k], v) /\ k \in 1 .. k
    BY <1>5, <2>1
  <2> HIDE DEF k
  <2>3. f[i] = NoId <=> \A j \in 1 .. i : ~ IsModule(w[j].type)
    BY <1>7
  <2>4. IsModule(w[k].type) => f[k] # NoId
    BY <1>4, <2>1, <2>2 DEF NextOfId, IsModule
  <2>5. ~ IsModule(w[k].type) => f[k] = f[i]
    BY <2>2 DEF NextOfId, IsModule
  <2>6. f[k] = NoId <=> \A j \in 1 .. k : ~ IsModule(w[j].type)
    BY <2>1, <2>2, <2>3, <2>4, <2>5
  <2> QED BY <2>1, <2>6 DEF k
<1>8. f[N] = NoId <=> \A j \in 1 .. N : ~ IsModule(w[j].type)
  <2>1. \A i \in 0 .. N : i \in P
    <3> HIDE DEF P
    <3> QED BY <1>6, <1>7, Climb
  <2> QED BY <2>1
<1>9. \A j \in 1 .. m : IsModule(w[j].type) => j \in 1 .. N
  BY <1>2, <1>3
<1>10. \A j \in 1 .. N : j \in 1 .. m
  BY <1>2
<1> QED BY <1>5, <1>8, <1>9, <1>10 DEF v, w
------------------------------------------------------------------------------
(***************************************************************************)
(* What the answers about offsets say.                                     *)
(***************************************************************************)
IsAllAnswer(a, n, m, res) ==
    LET O == OffsetsOf(a, m, res.type)
    IN  /\ res.first = res.off
        /\ O = {} => res.first = NoOffset /\ res.last = NoOffset
        /\ O # {} => IsFirstOff(res.first, a, n, O) /\ IsLastOff(res.last, a, n, O)
        /\ res.id = NoId <=> \A i \in 1 .. m : ~ IsModule(a.wrote[i].type)
        /\ res.past <=> m = Len(a.wrote) /\ Len(a.bytes) > 1

IsOffAnswer(a, n, m, o1, o2, res) ==
    /\ res.call = "seq" => /\ res.res = 1 => IsSequence(a, n, m, List1, o1)
                           /\ res.res = 2 => IsSequence(a, n, m, List2, o2)
    /\ res.call = "all" => IsAllAnswer(a, n, m, res)

OffsInv ==
    /\ ArrayIs /\ IsOffs(offs1, List1) /\ IsOffs(offs2, List2)
    /\ \E m \in Nat : /\ IsWholeUpTo(array, m)
                      /\ IsOffAnswer(array, received, m, offs1, offs2, result)

LEMMA OffsetsOfStep ==
    ASSUME SdkNext
    PROVE  \/ \E a \in Arrays : Receive(a)
           \/ \E t \in Wanted : AllOff(t)
           \/ SeqOne \/ SeqTwo
           \/ /\ UNCHANGED <<array, received, offs1, offs2>>
              /\ result'.call \notin {"seq", "all"}
<1>1. ASSUME NEW t, Find(t)
      PROVE  UNCHANGED <<array, received, offs1, offs2>> /\ result'.call = "first"
  BY <1>1 DEF Find, Calls, kept
<1>2. ASSUME FindList
      PROVE  UNCHANGED <<array, received, offs1, offs2>> /\ result'.call = "list"
  BY <1>2 DEF FindList, Calls
<1>3. ASSUME FindLists
      PROVE  UNCHANGED <<array, received, offs1, offs2>> /\ result'.call = "lists"
  BY <1>3 DEF FindLists, Calls
<1>4. ASSUME Number
      PROVE  UNCHANGED <<array, received, offs1, offs2>> /\ result'.call = "number"
  BY <1>4 DEF Number, kept
<1>5. ASSUME NEW x, NEW y, CompareModules(x, y)
      PROVE  UNCHANGED <<array, received, offs1, offs2>> /\ result'.call = "modules"
  BY <1>5 DEF CompareModules, kept
<1>6. ASSUME NEW x, NEW y, CompareLinks(x, y)
      PROVE  UNCHANGED <<array, received, offs1, offs2>> /\ result'.call = "links"
  BY <1>6 DEF CompareLinks, kept
<1>7. ASSUME NEW x, NEW y, Name(x, y)
      PROVE  UNCHANGED <<array, received, offs1, offs2>> /\ result'.call = "name"
  BY <1>7 DEF Name, kept
<1>8. ASSUME NEW put, TakeLast(put)
      PROVE  UNCHANGED <<array, received, offs1, offs2>> /\ result'.call = "take"
  BY <1>8 DEF TakeLast, TakesMore, Calls
<1>9. ASSUME TakeAll
      PROVE  UNCHANGED <<array, received, offs1, offs2>> /\ result'.call = "take"
  BY <1>9 DEF TakeAll, TakesMore, Calls
<1>10. ASSUME Clear
      PROVE  UNCHANGED <<array, received, offs1, offs2>> /\ result'.call = "clear"
  BY <1>10 DEF Clear
<1> QED BY <1>1, <1>2, <1>3, <1>4, <1>5, <1>6, <1>7, <1>8, <1>9, <1>10 DEF SdkNext

LEMMA OffsetsStep ==
    ASSUME OffsInv, [SdkNext]_sdkVars
    PROVE  OffsInv'
<1>1. ArrayIs /\ IsOffs(offs1, List1) /\ IsOffs(offs2, List2)
  BY DEF OffsInv
<1>2. IsWritten(array) /\ received \in Nat
  BY <1>1 DEF ArrayIs
<1>3. PICK m \in Nat : IsWholeUpTo(array, m)
  BY <1>2, WholeIsPrefix
<1>4. ASSUME UNCHANGED <<array, received>>
      PROVE  ArrayIs' /\ IsWholeUpTo(array', m) /\ Value = ValuesOf(array, received)
  BY <1>1, <1>3, <1>4 DEF ArrayIs, Value, ValuesOf, bytes
<1>5. ASSUME NEW a \in Arrays, Receive(a) PROVE OffsInv'
  <2>1. array' = a /\ received' = received + 1 /\ result' = NoCall /\ UNCHANGED <<offs1, offs2>>
    BY <1>5 DEF Receive, kept
  <2>2. ArrayIs' /\ IsWritten(a)
    BY <1>2, <2>1, SdkAssumption DEF ArrayIs
  <2>3. PICK k \in Nat : IsWholeUpTo(a, k)
    BY <2>2, WholeIsPrefix
  <2>4. result'.call = "none"
    BY <2>1 DEF NoCall
  <2>5. IsOffAnswer(array', received', k, offs1', offs2', result')
    BY <2>4 DEF IsOffAnswer
  <2> QED BY <1>1, <2>1, <2>2, <2>3, <2>5 DEF OffsInv
<1>6. ASSUME SeqOne PROVE OffsInv'
  <2> DEFINE r == ParseOffSeq(bytes, offs1, Value)
  <2>1. /\ UNCHANGED <<array, received, offs2>>
        /\ offs1' = r.idents /\ result'.call = "seq" /\ result'.res = r.res
    BY <1>6 DEF SeqOne, Calls
  <2>2. ArrayIs' /\ IsWholeUpTo(array', m) /\ Value = ValuesOf(array, received)
    BY <1>4, <2>1
  <2>3. r = ParseOffSeq(array.bytes, offs1, ValuesOf(array, received))
    BY <2>2 DEF bytes
  <2> HIDE DEF r
  <2>4. /\ IsOffs(r.idents, List1)
        /\ r.res # 0 => IsSequence(array, received, m, List1, r.idents)
        /\ r.res \in {0, 1}
    BY <1>1, <1>2, <1>3, <2>3, OneSequence
  <2>5. IsOffAnswer(array', received', m, offs1', offs2', result')
    BY <2>1, <2>4 DEF IsOffAnswer
  <2> QED BY <1>1, <2>1, <2>2, <2>4, <2>5 DEF OffsInv
<1>7. ASSUME SeqTwo PROVE OffsInv'
  <2> DEFINE r == ParseOffSeqs(bytes, offs1, offs2, Value)
  <2>1. /\ UNCHANGED <<array, received>>
        /\ offs1' = r.one.idents /\ offs2' = r.two.idents
        /\ result'.call = "seq" /\ result'.res = r.res
    BY <1>7 DEF SeqTwo, Calls
  <2>2. ArrayIs' /\ IsWholeUpTo(array', m) /\ Value = ValuesOf(array, received)
    BY <1>4, <2>1
  <2>3. r = ParseOffSeqs(array.bytes, offs1, offs2, ValuesOf(array, received))
    BY <2>2 DEF bytes
  <2> HIDE DEF r
  <2>4. /\ IsOffs(r.one.idents, List1) /\ IsOffs(r.two.idents, List2)
        /\ r.res = 1 => IsSequence(array, received, m, List1, r.one.idents)
        /\ r.res = 2 => IsSequence(array, received, m, List2, r.two.idents)
    BY <1>1, <1>2, <1>3, <2>3, TwoSequences
  <2>5. IsOffAnswer(array', received', m, offs1', offs2', result')
    BY <2>1, <2>4 DEF IsOffAnswer
  <2> QED BY <1>1, <2>1, <2>2, <2>4, <2>5 DEF OffsInv
<1>8. ASSUME NEW t \in Wanted, AllOff(t) PROVE OffsInv'
  <2> DEFINE z == ParseAllOff(bytes, << >>, Value)
  <2>1. /\ UNCHANGED <<array, received, offs1, offs2>>
        /\ result'.call = "all" /\ result'.type = t
        /\ result'.id = ModuleId(bytes, NoId, Value) /\ result'.past = ReadsPast(bytes)
        /\ result'.first = GetOffIdent(z, t, NoOffset)
        /\ result'.last = GetOffLastIdent(z, t, NoOffset)
        /\ result'.off = ParseOffIdentify(bytes, t, NoOffset, Value)
    BY <1>8 DEF AllOff, Calls
  <2>2. ArrayIs' /\ IsWholeUpTo(array', m) /\ Value = ValuesOf(array, received)
    BY <1>4, <2>1
  <2>3. z = ParseAllOff(array.bytes, << >>, ValuesOf(array, received))
    BY <2>2 DEF bytes
  <2> HIDE DEF z
  <2>4. /\ GetOffIdent(z, t, NoOffset) =
             ParseOffIdentify(array.bytes, t, NoOffset, ValuesOf(array, received))
        /\ OffsetsOf(array, m, t) = {} => /\ GetOffIdent(z, t, NoOffset) = NoOffset
                                          /\ GetOffLastIdent(z, t, NoOffset) = NoOffset
        /\ OffsetsOf(array, m, t) # {} =>
             /\ IsFirstOff(GetOffIdent(z, t, NoOffset), array, received, OffsetsOf(array, m, t))
             /\ IsLastOff(GetOffLastIdent(z, t, NoOffset), array, received, OffsetsOf(array, m, t))
    BY <1>2, <1>3, <2>3, WantedIs, AllOffsets
  <2>5. ModuleId(array.bytes, NoId, ValuesOf(array, received)) = NoId <=>
          \A i \in 1 .. m : ~ IsModule(array.wrote[i].type)
    BY <1>2, <1>3, IdIs
  <2>6. ReadsPast(array.bytes) <=> m = Len(array.wrote) /\ Len(array.bytes) > 1
    BY <1>2, <1>3, PastIs
  <2>7. IsAllAnswer(array, received, m, result')
    BY <2>1, <2>2, <2>4, <2>5, <2>6 DEF IsAllAnswer, bytes
  <2>8. IsOffAnswer(array', received', m, offs1', offs2', result')
    BY <2>1, <2>7 DEF IsOffAnswer
  <2> QED BY <1>1, <2>1, <2>2, <2>8 DEF OffsInv
<1>9. ASSUME UNCHANGED <<array, received, offs1, offs2>>, result'.call \notin {"seq", "all"}
      PROVE  OffsInv'
  <2>1. ArrayIs' /\ IsWholeUpTo(array', m)
    BY <1>4, <1>9
  <2>2. IsOffAnswer(array', received', m, offs1', offs2', result')
    BY <1>9 DEF IsOffAnswer
  <2> QED BY <1>1, <1>9, <2>1, <2>2 DEF OffsInv
<1>10. ASSUME UNCHANGED sdkVars PROVE OffsInv'
  <2>1. /\ array' = array /\ received' = received /\ offs1' = offs1
        /\ offs2' = offs2 /\ result' = result
    BY <1>10 DEF sdkVars
  <2> QED BY <2>1 DEF OffsInv, ArrayIs
<1> QED BY <1>5, <1>6, <1>7, <1>8, <1>9, <1>10, OffsetsOfStep

LEMMA SequenceInOrder ==
    ASSUME ArrayIs, NEW m \in Nat, IsWholeUpTo(array, m), NEW list, NEW s, IsOffs(s, list),
           IsSequence(array, received, m, list, s)
    PROVE  InOrder(s)
<1>1. /\ DOMAIN s = 1 .. Len(list)
      /\ \A k \in 1 .. Len(list) : s[k].type = list[k]
  BY DEF IsOffs
<1>2. ASSUME NEW k \in 1 .. Len(list)
      PROVE  /\ \E i \in Of(s[k].type) : IsValueOf(s[k].off, i)
             /\ k > 1 => s[k - 1].off[2] < s[k].off[2]
  <2>1. IsFilledAt(s, k, array.wrote, m, list, ValuesOf(array, received))
    BY DEF IsSequence
  <2>2. PICK j \in 1 .. m : /\ array.wrote[j].type = list[k]
                            /\ s[k].off = ValuesOf(array, received)[array.wrote[j].at]
    BY <2>1 DEF IsFilledAt
  <2>3. j \in Of(list[k]) /\ s[k].off = <<received, array.wrote[j].at>>
    BY <2>2, WholeIs
  <2> QED BY <1>1, <2>1, <2>3 DEF IsFilledAt, IsValueOf
<1> QED BY <1>1, <1>2 DEF InOrder

LEMMA EndsOf ==
    ASSUME ArrayIs, NEW m \in Nat, IsWholeUpTo(array, m), NEW t, NEW x
    PROVE  /\ IsFirstOff(x, array, received, Of(t)) => IsValueOf(x, Min(Of(t)))
           /\ IsLastOff(x, array, received, Of(t)) => IsValueOf(x, Max(Of(t)))
<1> DEFINE O == Of(t)
<1>1. O \in SUBSET (1 .. m) /\ O \in SUBSET Nat
  BY WholeIs
<1>2. \A i \in 1 .. m : ValuesOf(array, received)[array.wrote[i].at] = <<received, array.wrote[i].at>>
  BY WholeIs
<1> HIDE DEF O
<1>3. ASSUME NEW i \in O, \A j \in O : i <= j PROVE Min(O) = i
  <2>1. Min(O) \in O /\ \A j \in O : Min(O) <= j
    BY <1>3 DEF Min
  <2>2. i \in Nat /\ Min(O) \in Nat /\ i <= Min(O) /\ Min(O) <= i
    BY <1>1, <1>3, <2>1
  <2> QED BY ONLY <2>2
<1>4. ASSUME NEW i \in O, \A j \in O : j <= i PROVE Max(O) = i
  <2>1. Max(O) \in O /\ \A j \in O : j <= Max(O)
    BY <1>1, <1>4, MaxOf
  <2>2. i \in Nat /\ Max(O) \in Nat /\ i <= Max(O) /\ Max(O) <= i
    BY <1>1, <1>4, <2>1
  <2> QED BY ONLY <2>2
<1>5. ASSUME IsFirstOff(x, array, received, O) PROVE IsValueOf(x, Min(O))
  <2>1. PICK i \in O : /\ x = ValuesOf(array, received)[array.wrote[i].at]
                       /\ \A j \in O : i <= j
    BY <1>5 DEF IsFirstOff
  <2> QED BY <1>1, <1>2, <1>3, <2>1 DEF IsValueOf
<1>6. ASSUME IsLastOff(x, array, received, O) PROVE IsValueOf(x, Max(O))
  <2>1. PICK i \in O : /\ x = ValuesOf(array, received)[array.wrote[i].at]
                       /\ \A j \in O : j <= i
    BY <1>6 DEF IsLastOff
  <2> QED BY <1>1, <1>2, <1>4, <2>1 DEF IsValueOf
<1> QED BY <1>5, <1>6 DEF O

\* OffsetsHold: whatever an array holds, and wherever it is cut off, a sequence that
\* is reported is one pass through this array, although the lists still hold offsets
\* of passes and arrays before; the ways to ask for one offset agree; and nothing
\* is found behind the array.
THEOREM OffsetsAreRight == SdkSpec => []OffsetsHold
<1>1. SdkInit => OffsInv
  <2> SUFFICES ASSUME SdkInit PROVE OffsInv
    OBVIOUS
  <2>1. /\ array = NoArray /\ received = 0 /\ result = NoCall
        /\ offs1 = SearchOffs(List1, NoOffset) /\ offs2 = SearchOffs(List2, NoOffset)
    BY DEF SdkInit
  <2>2. ArrayIs
    BY <2>1, NoArrayIsWritten DEF ArrayIs
  <2>3. PICK m \in Nat : IsWholeUpTo(array, m)
    BY <2>2, WholeIsPrefix DEF ArrayIs
  <2>4. IsOffAnswer(array, received, m, offs1, offs2, result)
    BY <2>1 DEF IsOffAnswer, NoCall
  <2>5. ASSUME NEW list, IsSearched(list)
        PROVE  IsOffs(SearchOffs(list, NoOffset), list)
    <3> DEFINE s == SearchOffs(list, NoOffset)
    <3>1. /\ Len(list) \in Nat /\ DOMAIN list = 1 .. Len(list)
          /\ \A k \in 1 .. Len(list) : list[k] \in 0 .. 255
      BY <2>5, SearchedOne
    <3>2. NoOffset \in Values
      BY DEF NoOffset, Values
    <3>3. \A k \in 1 .. Len(list) : s[k].type = list[k] /\ s[k] \in OffEntries
      BY <3>1, <3>2 DEF OffEntries, SearchOffs
    <3>4. s = [k \in 1 .. Len(list) |-> s[k]]
      BY <3>1 DEF SearchOffs
    <3> HIDE DEF s
    <3>5. s \in Seq(OffEntries) /\ Len(s) = Len(list)
      BY <3>1, <3>3, <3>4
    <3>6. IsOffs(s, list)
      BY <3>3, <3>5 DEF IsOffs
    <3> QED BY <3>6 DEF s
  <2>6. IsOffs(offs1, List1) /\ IsOffs(offs2, List2)
    BY <2>1, <2>5, SdkAssumption
  <2> QED BY <2>2, <2>3, <2>4, <2>6 DEF OffsInv
<1>2. OffsInv /\ [SdkNext]_sdkVars => OffsInv'
  BY OffsetsStep
<1>3. OffsInv => OffsetsHold
  <2> SUFFICES ASSUME OffsInv PROVE OffsetsHold
    OBVIOUS
  <2>1. PICK m \in Nat : /\ IsWholeUpTo(array, m)
                         /\ IsOffAnswer(array, received, m, offs1, offs2, result)
    BY DEF OffsInv
  <2>2. ArrayIs /\ IsOffs(offs1, List1) /\ IsOffs(offs2, List2)
    BY DEF OffsInv
  <2>3. CASE result.call = "seq"
    <3>1. /\ result.res = 1 => IsSequence(array, received, m, List1, offs1)
          /\ result.res = 2 => IsSequence(array, received, m, List2, offs2)
      BY <2>1, <2>3 DEF IsOffAnswer
    <3>2. (result.res = 1 => InOrder(offs1)) /\ (result.res = 2 => InOrder(offs2))
      BY <2>1, <2>2, <3>1, SequenceInOrder
    <3> QED BY <2>3, <3>2 DEF OffsetsHold
  <2>4. CASE result.call = "all"
    <3> DEFINE t == result.type
               modules == {i \in Whole : IsModule(TypeAt(i))}
    <3>1. IsAllAnswer(array, received, m, result)
      BY <2>1, <2>4 DEF IsOffAnswer
    <3>2. Whole = 1 .. m /\ Of(t) = OffsetsOf(array, m, t)
      BY <2>1, <2>2, WholeIs DEF OffsetsOf
    <3>3. /\ result.first = result.off
          /\ Of(t) = {} => {result.first, result.last} = {NoOffset}
          /\ Of(t) # {} => /\ IsFirstOff(result.first, array, received, Of(t))
                           /\ IsLastOff(result.last, array, received, Of(t))
      BY <3>1, <3>2 DEF IsAllAnswer
    <3>4. Of(t) # {} => /\ IsValueOf(result.first, Min(Of(t)))
                        /\ IsValueOf(result.last, Max(Of(t)))
      BY <2>1, <2>2, <3>3, EndsOf
    <3>5. modules = {} <=> result.id = NoId
      BY <3>1, <3>2 DEF IsAllAnswer, TypeAt
    <3>6. result.past => Whole = DOMAIN array.wrote
      <4>1. DOMAIN array.wrote = 1 .. Len(array.wrote) /\ Len(array.wrote) \in Nat
        BY <2>2, WrittenOne DEF ArrayIs
      <4>2. 1 .. m = 1 .. Len(array.wrote) <=> m = Len(array.wrote)
        BY <4>1
      <4> QED BY <3>1, <3>2, <4>1, <4>2 DEF IsAllAnswer, bytes
    <3> QED BY <2>4, <3>3, <3>4, <3>5, <3>6 DEF OffsetsHold
  <2>5. CASE result.call \notin {"seq", "all"}
    BY <2>5 DEF OffsetsHold
  <2> QED BY <2>3, <2>4, <2>5
<1> QED BY <1>1, <1>2, <1>3, PTL DEF SdkSpec
------------------------------------------------------------------------------
(***************************************************************************)
(* The loops over digits, parameters and options, round by round.          *)
(***************************************************************************)
NextOfNumber(r, digit, radix) == Wrap(r * radix + digit)

LEMMA WrapIs == \A n \in Int : Wrap(n) \in Ints
BY IntAssumption DEF Wrap, Ints, Smallest

NextOfAmount(r, digit, radix) == r * radix + digit

LEMMA NumberRun ==
    ASSUME NEW ds, NEW radix \in Nat, NEW N \in Nat,
           NEW w, AreItems(ds, N, w), \A i \in 1 .. N : w[i] \in Nat
    PROVE  \E f : /\ f[0] = 0
                  /\ \A n \in 1 .. N : f[n] = NextOfNumber(f[n - 1], w[n], radix)
                  /\ NumberOf(radix, ds) = f[N]
<1> USE DEF AreItems
<1> DEFINE S == Int
           base == 0
           items == [i \in 1 .. N |-> w[i]]
           step == [n \in 1 .. N |-> [r \in S |-> NextOfNumber(r, w[n], radix)]]
           Iter(h) == [s \in SUBSET (DOMAIN items) |->
                         IF s = {} THEN base
                         ELSE NextOfNumber(h[s \ {Max(s)}], items[Max(s)], radix)]
           G == CHOOSE h : h = Iter(h)
<1>1. ASSUME NEW n \in 1 .. N, NEW r \in S PROVE NextOfNumber(r, w[n], radix) \in S
  <2>1. r * radix + w[n] \in Int
    OBVIOUS
  <2>2. Wrap(r * radix + w[n]) \in Ints
    BY <2>1, WrapIs
  <2>3. Ints \in SUBSET Int
    BY IntAssumption DEF Ints, Smallest
  <2> QED BY <2>2, <2>3 DEF NextOfNumber
<1>2. AreSteps(step, N, S) /\ base \in S
  <2>1. AreSteps(step, N, S)
    BY <1>1 DEF AreSteps
  <2> QED BY <2>1
<1>3. PICK g : IsFold(g, N, S, base, step)
  <2> HIDE DEF S, base, step
  <2> QED BY <1>2, FoldExists
<1>4. g = Iter(g)
  <2>1. DOMAIN items = 1 .. N
    OBVIOUS
  <2>2. ASSUME NEW s \in SUBSET (1 .. N), s # {}
        PROVE  g[s] = NextOfNumber(g[s \ {Max(s)}], items[Max(s)], radix)
    <3>1. Max(s) \in 1 .. N /\ s \ {Max(s)} \in SUBSET (1 .. N)
      BY <2>2, MaxOf
    <3>2. g[s \ {Max(s)}] \in S
      BY <1>3, <3>1 DEF IsFold
    <3>3. g[s] = step[Max(s)][g[s \ {Max(s)}]]
      BY <1>3, <2>2 DEF IsFold
    <3> QED BY <3>1, <3>2, <3>3
  <2>3. g[{}] = base /\ g = [s \in SUBSET (1 .. N) |-> g[s]]
    BY <1>3 DEF IsFold
  <2> QED BY <2>1, <2>2, <2>3
<1>5. G = Iter(G)
  <2> HIDE DEF Iter
  <2> QED BY <1>4
<1>6. NumberOf(radix, ds) = G[DOMAIN items]
  BY DEF NumberOf, FoldLeft, MapThenFoldSet, NextOfNumber
<1>7. ASSUME NEW n \in 1 .. N
      PROVE  G[1 .. n] = NextOfNumber(G[1 .. n - 1], w[n], radix)
  <2> DEFINE s == 1 .. n
  <2>1. /\ Max(s) = n /\ s \ {Max(s)} = 1 .. n - 1 /\ s # {}
        /\ s \in SUBSET (DOMAIN items) /\ items[n] = w[n]
    BY UpToLast
  <2> HIDE DEF s, items, base, G
  <2>2. G[s] = NextOfNumber(G[s \ {Max(s)}], items[Max(s)], radix)
    BY <1>5, <2>1
  <2> QED BY <2>1, <2>2 DEF s
<1>8. G[1 .. 0] = base /\ DOMAIN items = 1 .. N
  <2>1. {} \in SUBSET (DOMAIN items) /\ 1 .. 0 = {} /\ DOMAIN items = 1 .. N
    OBVIOUS
  <2> HIDE DEF G, base, items
  <2>2. G[{}] = base
    BY <1>5, <2>1
  <2> QED BY <2>1, <2>2
<1> DEFINE f == [n \in 0 .. N |-> G[1 .. n]]
<1>9. \A n \in 1 .. N : n \in 0 .. N /\ n - 1 \in 0 .. N
  OBVIOUS
<1> HIDE DEF G, items, Iter
<1>10. f[0] = base /\ f[N] = G[DOMAIN items]
  BY <1>8
<1>11. \A n \in 1 .. N : f[n] = G[1 .. n] /\ f[n - 1] = G[1 .. n - 1]
  BY <1>9
<1> HIDE DEF f
<1>12. \A n \in 1 .. N : f[n] = NextOfNumber(f[n - 1], w[n], radix)
  BY <1>7, <1>11
<1> QED BY <1>6, <1>10, <1>12

LEMMA AmountRun ==
    ASSUME NEW ds, NEW radix \in Nat, NEW N \in Nat,
           NEW w, AreItems(ds, N, w), \A i \in 1 .. N : w[i] \in Nat
    PROVE  \E f : /\ f[0] = 0
                  /\ \A n \in 1 .. N : f[n] = NextOfAmount(f[n - 1], w[n], radix)
                  /\ Amount(radix, ds) = f[N]
<1> USE DEF AreItems
<1> DEFINE S == Int
           base == 0
           items == [i \in 1 .. N |-> w[i]]
           step == [n \in 1 .. N |-> [r \in S |-> NextOfAmount(r, w[n], radix)]]
           Iter(h) == [s \in SUBSET (DOMAIN items) |->
                         IF s = {} THEN base
                         ELSE NextOfAmount(h[s \ {Max(s)}], items[Max(s)], radix)]
           G == CHOOSE h : h = Iter(h)
<1>1. ASSUME NEW n \in 1 .. N, NEW r \in S PROVE NextOfAmount(r, w[n], radix) \in S
  BY DEF NextOfAmount
<1>2. AreSteps(step, N, S) /\ base \in S
  <2>1. AreSteps(step, N, S)
    BY <1>1 DEF AreSteps
  <2> QED BY <2>1
<1>3. PICK g : IsFold(g, N, S, base, step)
  <2> HIDE DEF S, base, step
  <2> QED BY <1>2, FoldExists
<1>4. g = Iter(g)
  <2>1. DOMAIN items = 1 .. N
    OBVIOUS
  <2>2. ASSUME NEW s \in SUBSET (1 .. N), s # {}
        PROVE  g[s] = NextOfAmount(g[s \ {Max(s)}], items[Max(s)], radix)
    <3>1. Max(s) \in 1 .. N /\ s \ {Max(s)} \in SUBSET (1 .. N)
      BY <2>2, MaxOf
    <3>2. g[s \ {Max(s)}] \in S
      BY <1>3, <3>1 DEF IsFold
    <3>3. g[s] = step[Max(s)][g[s \ {Max(s)}]]
      BY <1>3, <2>2 DEF IsFold
    <3> QED BY <3>1, <3>2, <3>3
  <2>3. g[{}] = base /\ g = [s \in SUBSET (1 .. N) |-> g[s]]
    BY <1>3 DEF IsFold
  <2> QED BY <2>1, <2>2, <2>3
<1>5. G = Iter(G)
  <2> HIDE DEF Iter
  <2> QED BY <1>4
<1>6. Amount(radix, ds) = G[DOMAIN items]
  BY DEF Amount, FoldLeft, MapThenFoldSet, NextOfAmount
<1>7. ASSUME NEW n \in 1 .. N
      PROVE  G[1 .. n] = NextOfAmount(G[1 .. n - 1], w[n], radix)
  <2> DEFINE s == 1 .. n
  <2>1. /\ Max(s) = n /\ s \ {Max(s)} = 1 .. n - 1 /\ s # {}
        /\ s \in SUBSET (DOMAIN items) /\ items[n] = w[n]
    BY UpToLast
  <2> HIDE DEF s, items, base, G
  <2>2. G[s] = NextOfAmount(G[s \ {Max(s)}], items[Max(s)], radix)
    BY <1>5, <2>1
  <2> QED BY <2>1, <2>2 DEF s
<1>8. G[1 .. 0] = base /\ DOMAIN items = 1 .. N
  <2>1. {} \in SUBSET (DOMAIN items) /\ 1 .. 0 = {} /\ DOMAIN items = 1 .. N
    OBVIOUS
  <2> HIDE DEF G, base, items
  <2>2. G[{}] = base
    BY <1>5, <2>1
  <2> QED BY <2>1, <2>2
<1> DEFINE f == [n \in 0 .. N |-> G[1 .. n]]
<1>9. \A n \in 1 .. N : n \in 0 .. N /\ n - 1 \in 0 .. N
  OBVIOUS
<1> HIDE DEF G, items, Iter
<1>10. f[0] = base /\ f[N] = G[DOMAIN items]
  BY <1>8
<1>11. \A n \in 1 .. N : f[n] = G[1 .. n] /\ f[n - 1] = G[1 .. n - 1]
  BY <1>9
<1> HIDE DEF f
<1>12. \A n \in 1 .. N : f[n] = NextOfAmount(f[n - 1], w[n], radix)
  BY <1>7, <1>11
<1> QED BY <1>6, <1>10, <1>12

IsFilled(f, v, w, N, defs, r) ==
    /\ f[0] = v /\ \A n \in 1 .. N : f[n] = PutParam(f[n - 1], w[n], defs)
    /\ r = f[N]
PutsRows(N, w, defs) == \A i \in 1 .. N : \A r \in Rows : PutParam(r, w[i], defs) \in Rows

LEMMA FilledRun ==
    ASSUME NEW ps, NEW v \in Rows, NEW defs, NEW N \in Nat, NEW w, AreItems(ps, N, w),
           PutsRows(N, w, defs)
    PROVE  \E f : IsFilled(f, v, w, N, defs, Filled(v, ps, defs))
<1> USE DEF AreItems, PutsRows
<1> DEFINE S == Rows
           base == v
           items == [i \in 1 .. N |-> w[i]]
           step == [n \in 1 .. N |-> [r \in S |-> PutParam(r, w[n], defs)]]
           Iter(h) == [s \in SUBSET (DOMAIN items) |->
                         IF s = {} THEN base
                         ELSE PutParam(h[s \ {Max(s)}], items[Max(s)], defs)]
           G == CHOOSE h : h = Iter(h)
<1>1. ASSUME NEW n \in 1 .. N, NEW r \in S PROVE PutParam(r, w[n], defs) \in S
  OBVIOUS
<1>2. AreSteps(step, N, S) /\ base \in S
  <2>1. AreSteps(step, N, S)
    BY <1>1 DEF AreSteps
  <2> QED BY <2>1
<1>3. PICK g : IsFold(g, N, S, base, step)
  <2> HIDE DEF S, base, step
  <2> QED BY <1>2, FoldExists
<1>4. g = Iter(g)
  <2>1. DOMAIN items = 1 .. N
    OBVIOUS
  <2>2. ASSUME NEW s \in SUBSET (1 .. N), s # {}
        PROVE  g[s] = PutParam(g[s \ {Max(s)}], items[Max(s)], defs)
    <3>1. Max(s) \in 1 .. N /\ s \ {Max(s)} \in SUBSET (1 .. N)
      BY <2>2, MaxOf
    <3>2. g[s \ {Max(s)}] \in S
      BY <1>3, <3>1 DEF IsFold
    <3>3. g[s] = step[Max(s)][g[s \ {Max(s)}]]
      BY <1>3, <2>2 DEF IsFold
    <3> QED BY <3>1, <3>2, <3>3
  <2>3. g[{}] = base /\ g = [s \in SUBSET (1 .. N) |-> g[s]]
    BY <1>3 DEF IsFold
  <2> QED BY <2>1, <2>2, <2>3
<1>5. G = Iter(G)
  <2> HIDE DEF Iter
  <2> QED BY <1>4
<1>6. Filled(v, ps, defs) = G[DOMAIN items]
  BY DEF Filled, FoldLeft, MapThenFoldSet, AreItems
<1>7. ASSUME NEW n \in 1 .. N
      PROVE  G[1 .. n] = PutParam(G[1 .. n - 1], w[n], defs)
  <2> DEFINE s == 1 .. n
  <2>1. /\ Max(s) = n /\ s \ {Max(s)} = 1 .. n - 1 /\ s # {}
        /\ s \in SUBSET (DOMAIN items) /\ items[n] = w[n]
    BY UpToLast
  <2> HIDE DEF s, items, base, G
  <2>2. G[s] = PutParam(G[s \ {Max(s)}], items[Max(s)], defs)
    BY <1>5, <2>1
  <2> QED BY <2>1, <2>2 DEF s
<1>8. G[1 .. 0] = base /\ DOMAIN items = 1 .. N
  <2>1. {} \in SUBSET (DOMAIN items) /\ 1 .. 0 = {} /\ DOMAIN items = 1 .. N
    OBVIOUS
  <2> HIDE DEF G, base, items
  <2>2. G[{}] = base
    BY <1>5, <2>1
  <2> QED BY <2>1, <2>2
<1> DEFINE f == [n \in 0 .. N |-> G[1 .. n]]
<1>9. \A n \in 1 .. N : n \in 0 .. N /\ n - 1 \in 0 .. N
  OBVIOUS
<1> HIDE DEF G, items, Iter
<1>10. f[0] = base /\ f[N] = G[DOMAIN items]
  BY <1>8
<1>11. \A n \in 1 .. N : f[n] = G[1 .. n] /\ f[n - 1] = G[1 .. n - 1]
  BY <1>9
<1> HIDE DEF f
<1>12. \A n \in 1 .. N : f[n] = PutParam(f[n - 1], w[n], defs)
  BY <1>7, <1>11
<1> QED BY <1>6, <1>10, <1>12 DEF IsFilled

IsApplied(f, v, w, N, r) ==
    /\ f[0] = v /\ \A n \in 1 .. N : f[n] = ApplyParam(f[n - 1], w[n])
    /\ r = f[N]
PutsChosen(N, w) == \A i \in 1 .. N : \A r \in Chosen : ApplyParam(r, w[i]) \in Chosen

LEMMA AppliedRun ==
    ASSUME NEW ps, NEW v \in Chosen, NEW N \in Nat, NEW w, AreItems(ps, N, w),
           PutsChosen(N, w)
    PROVE  \E f : IsApplied(f, v, w, N, Applied(v, ps))
<1> USE DEF AreItems, PutsChosen
<1> DEFINE S == Chosen
           base == v
           items == [i \in 1 .. N |-> w[i]]
           step == [n \in 1 .. N |-> [r \in S |-> ApplyParam(r, w[n])]]
           Iter(h) == [s \in SUBSET (DOMAIN items) |->
                         IF s = {} THEN base
                         ELSE ApplyParam(h[s \ {Max(s)}], items[Max(s)])]
           G == CHOOSE h : h = Iter(h)
<1>1. ASSUME NEW n \in 1 .. N, NEW r \in S PROVE ApplyParam(r, w[n]) \in S
  OBVIOUS
<1>2. AreSteps(step, N, S) /\ base \in S
  <2>1. AreSteps(step, N, S)
    BY <1>1 DEF AreSteps
  <2> QED BY <2>1
<1>3. PICK g : IsFold(g, N, S, base, step)
  <2> HIDE DEF S, base, step
  <2> QED BY <1>2, FoldExists
<1>4. g = Iter(g)
  <2>1. DOMAIN items = 1 .. N
    OBVIOUS
  <2>2. ASSUME NEW s \in SUBSET (1 .. N), s # {}
        PROVE  g[s] = ApplyParam(g[s \ {Max(s)}], items[Max(s)])
    <3>1. Max(s) \in 1 .. N /\ s \ {Max(s)} \in SUBSET (1 .. N)
      BY <2>2, MaxOf
    <3>2. g[s \ {Max(s)}] \in S
      BY <1>3, <3>1 DEF IsFold
    <3>3. g[s] = step[Max(s)][g[s \ {Max(s)}]]
      BY <1>3, <2>2 DEF IsFold
    <3> QED BY <3>1, <3>2, <3>3
  <2>3. g[{}] = base /\ g = [s \in SUBSET (1 .. N) |-> g[s]]
    BY <1>3 DEF IsFold
  <2> QED BY <2>1, <2>2, <2>3
<1>5. G = Iter(G)
  <2> HIDE DEF Iter
  <2> QED BY <1>4
<1>6. Applied(v, ps) = G[DOMAIN items]
  BY DEF Applied, FoldLeft, MapThenFoldSet, AreItems
<1>7. ASSUME NEW n \in 1 .. N
      PROVE  G[1 .. n] = ApplyParam(G[1 .. n - 1], w[n])
  <2> DEFINE s == 1 .. n
  <2>1. /\ Max(s) = n /\ s \ {Max(s)} = 1 .. n - 1 /\ s # {}
        /\ s \in SUBSET (DOMAIN items) /\ items[n] = w[n]
    BY UpToLast
  <2> HIDE DEF s, items, base, G
  <2>2. G[s] = ApplyParam(G[s \ {Max(s)}], items[Max(s)])
    BY <1>5, <2>1
  <2> QED BY <2>1, <2>2 DEF s
<1>8. G[1 .. 0] = base /\ DOMAIN items = 1 .. N
  <2>1. {} \in SUBSET (DOMAIN items) /\ 1 .. 0 = {} /\ DOMAIN items = 1 .. N
    OBVIOUS
  <2> HIDE DEF G, base, items
  <2>2. G[{}] = base
    BY <1>5, <2>1
  <2> QED BY <2>1, <2>2
<1> DEFINE f == [n \in 0 .. N |-> G[1 .. n]]
<1>9. \A n \in 1 .. N : n \in 0 .. N /\ n - 1 \in 0 .. N
  OBVIOUS
<1> HIDE DEF G, items, Iter
<1>10. f[0] = base /\ f[N] = G[DOMAIN items]
  BY <1>8
<1>11. \A n \in 1 .. N : f[n] = G[1 .. n] /\ f[n - 1] = G[1 .. n - 1]
  BY <1>9
<1> HIDE DEF f
<1>12. \A n \in 1 .. N : f[n] = ApplyParam(f[n - 1], w[n])
  BY <1>7, <1>11
<1> QED BY <1>6, <1>10, <1>12 DEF IsApplied

IsListing(f, w, N, r) ==
    /\ f[0] = << >> /\ \A n \in 1 .. N : f[n] = AddRow(f[n - 1], w[n])
    /\ r = f[N]
AddsRows(N, w) == \A i \in 1 .. N : \A rs \in Seq(Rows) : AddRow(rs, w[i]) \in Seq(Rows)

LEMMA RowsRun ==
    ASSUME NEW args, NEW N \in Nat, NEW w, AreItems(args, N, w),
           AddsRows(N, w)
    PROVE  \E f : IsListing(f, w, N, RowsOf(args))
<1> USE DEF AreItems, AddsRows
<1> DEFINE S == Seq(Rows)
           base == << >>
           items == [i \in 1 .. N |-> w[i]]
           step == [n \in 1 .. N |-> [r \in S |-> AddRow(r, w[n])]]
           Iter(h) == [s \in SUBSET (DOMAIN items) |->
                         IF s = {} THEN base
                         ELSE AddRow(h[s \ {Max(s)}], items[Max(s)])]
           G == CHOOSE h : h = Iter(h)
<1>1. ASSUME NEW n \in 1 .. N, NEW r \in S PROVE AddRow(r, w[n]) \in S
  OBVIOUS
<1>2. AreSteps(step, N, S) /\ base \in S
  <2>1. AreSteps(step, N, S)
    BY <1>1 DEF AreSteps
  <2> QED BY <2>1
<1>3. PICK g : IsFold(g, N, S, base, step)
  <2> HIDE DEF S, base, step
  <2> QED BY <1>2, FoldExists
<1>4. g = Iter(g)
  <2>1. DOMAIN items = 1 .. N
    OBVIOUS
  <2>2. ASSUME NEW s \in SUBSET (1 .. N), s # {}
        PROVE  g[s] = AddRow(g[s \ {Max(s)}], items[Max(s)])
    <3>1. Max(s) \in 1 .. N /\ s \ {Max(s)} \in SUBSET (1 .. N)
      BY <2>2, MaxOf
    <3>2. g[s \ {Max(s)}] \in S
      BY <1>3, <3>1 DEF IsFold
    <3>3. g[s] = step[Max(s)][g[s \ {Max(s)}]]
      BY <1>3, <2>2 DEF IsFold
    <3> QED BY <3>1, <3>2, <3>3
  <2>3. g[{}] = base /\ g = [s \in SUBSET (1 .. N) |-> g[s]]
    BY <1>3 DEF IsFold
  <2> QED BY <2>1, <2>2, <2>3
<1>5. G = Iter(G)
  <2> HIDE DEF Iter
  <2> QED BY <1>4
<1>6. RowsOf(args) = G[DOMAIN items]
  BY DEF RowsOf, FoldLeft, MapThenFoldSet, AreItems
<1>7. ASSUME NEW n \in 1 .. N
      PROVE  G[1 .. n] = AddRow(G[1 .. n - 1], w[n])
  <2> DEFINE s == 1 .. n
  <2>1. /\ Max(s) = n /\ s \ {Max(s)} = 1 .. n - 1 /\ s # {}
        /\ s \in SUBSET (DOMAIN items) /\ items[n] = w[n]
    BY UpToLast
  <2> HIDE DEF s, items, base, G
  <2>2. G[s] = AddRow(G[s \ {Max(s)}], items[Max(s)])
    BY <1>5, <2>1
  <2> QED BY <2>1, <2>2 DEF s
<1>8. G[1 .. 0] = base /\ DOMAIN items = 1 .. N
  <2>1. {} \in SUBSET (DOMAIN items) /\ 1 .. 0 = {} /\ DOMAIN items = 1 .. N
    OBVIOUS
  <2> HIDE DEF G, base, items
  <2>2. G[{}] = base
    BY <1>5, <2>1
  <2> QED BY <2>1, <2>2
<1> DEFINE f == [n \in 0 .. N |-> G[1 .. n]]
<1>9. \A n \in 1 .. N : n \in 0 .. N /\ n - 1 \in 0 .. N
  OBVIOUS
<1> HIDE DEF G, items, Iter
<1>10. f[0] = base /\ f[N] = G[DOMAIN items]
  BY <1>8
<1>11. \A n \in 1 .. N : f[n] = G[1 .. n] /\ f[n - 1] = G[1 .. n - 1]
  BY <1>9
<1> HIDE DEF f
<1>12. \A n \in 1 .. N : f[n] = AddRow(f[n - 1], w[n])
  BY <1>7, <1>11
<1> QED BY <1>6, <1>10, <1>12 DEF IsListing
------------------------------------------------------------------------------
(***************************************************************************)
(* A number that is written to a text and read again is the same.          *)
(***************************************************************************)
IntCount == 2 * (INT_MAX + 1)

LEMMA IntsAre ==
    /\ IntCount \in Nat \ {0} /\ Smallest \in Int /\ Ints \in SUBSET Int
    /\ -Smallest \in Nat /\ Smallest + IntCount - 1 = INT_MAX /\ 0 \in Ints
    /\ \A n : Wrap(n) = ((n - Smallest) % IntCount) + Smallest
BY IntAssumption DEF IntCount, Smallest, Ints, Wrap

\* Numbers that are a multiple of the count of ints apart wrap alike.
LEMMA WrapsAlike ==
    ASSUME NEW a \in Int, NEW q \in Int
    PROVE  Wrap(a + IntCount * q) = Wrap(a)
<1> DEFINE x == a - Smallest
           p == x \div IntCount
           r == x % IntCount
           y == x + IntCount * q
<1>1. IntCount \in Nat \ {0} /\ x \in Int
  BY IntsAre
<1>2. x = IntCount * p + r /\ p \in Int /\ r \in 0 .. (IntCount - 1)
  <2> HIDE DEF x
  <2> QED BY <1>1
<1> HIDE DEF p, r
<1>3. y = IntCount * (p + q) + r /\ p + q \in Int /\ y \in Int
  <2>1. IntCount * (p + q) = IntCount * p + IntCount * q /\ IntCount * q \in Int
    BY <1>1, <1>2
  <2> HIDE DEF x
  <2> QED BY <1>1, <1>2, <2>1
<1>4. y % IntCount = r
  <2> HIDE DEF y, x
  <2> QED BY <1>1, <1>2, <1>3, RemainderUnique
<1>5. (a + IntCount * q) - Smallest = y
  <2>1. IntCount * q \in Int
    BY <1>1
  <2> QED BY <2>1, IntsAre
<1>6. Wrap(a + IntCount * q) = r + Smallest /\ Wrap(a) = r + Smallest
  <2> HIDE DEF y
  <2> QED BY <1>4, <1>5, IntsAre DEF x, r
<1> QED BY <1>6

LEMMA WrapIsAway ==
    ASSUME NEW a \in Int
    PROVE  \E q \in Int : Wrap(a) = a + IntCount * q
<1> DEFINE x == a - Smallest
           p == x \div IntCount
           r == x % IntCount
<1>1. IntCount \in Nat \ {0} /\ x \in Int
  BY IntsAre
<1>2. x = IntCount * p + r /\ p \in Int /\ r \in 0 .. (IntCount - 1)
  <2> HIDE DEF x
  <2> QED BY <1>1
<1>3. Wrap(a) = r + Smallest
  BY IntsAre
<1> HIDE DEF p, r
<1>4. IntCount * (-p) = -(IntCount * p) /\ IntCount * p \in Int /\ -p \in Int
  BY <1>1, <1>2
<1>5. Wrap(a) = a + IntCount * (-p)
  BY <1>1, <1>2, <1>3, <1>4, IntsAre
<1> QED BY <1>4, <1>5

LEMMA WrapOfInt == ASSUME NEW n \in Ints PROVE Wrap(n) = n
<1> DEFINE x == n - Smallest
<1>1. x \in 0 .. (IntCount - 1) /\ x \in Int /\ n \in Int
  BY IntsAre, IntAssumption DEF Ints, Smallest, IntCount
<1>2. x = IntCount * 0 + x /\ IntCount \in Nat \ {0}
  BY <1>1, IntsAre
<1>3. x % IntCount = x
  <2> HIDE DEF x
  <2> QED BY <1>1, <1>2, RemainderUnique
<1> QED BY <1>1, <1>3, IntsAre

\* One more digit, and a sign, after wrapping or before.
LEMMA WrapDigit ==
    ASSUME NEW a \in Int, NEW d \in Int, NEW radix \in {10, 16}
    PROVE  /\ Wrap(Wrap(a) * radix + d) = Wrap(a * radix + d)
           /\ Wrap(-Wrap(a)) = Wrap(-a)
<1>1. PICK q \in Int : Wrap(a) = a + IntCount * q
  BY WrapIsAway
<1> DEFINE e == IntCount * q
<1>2. IntCount \in Int /\ e \in Int
  BY IntsAre
<1>3. IntCount * (q * 10) = e * 10 /\ IntCount * (q * 16) = e * 16 /\ IntCount * (-q) = -e
  BY <1>2
<1> HIDE DEF e
<1>4. IntCount * (q * radix) = e * radix /\ e * radix \in Int /\ a * radix \in Int
      /\ (a + e) * radix = a * radix + e * radix
  <2>1. CASE radix = 10
    BY <1>2, <1>3, <2>1
  <2>2. CASE radix = 16
    BY <1>2, <1>3, <2>2
  <2> QED BY <2>1, <2>2
<1>5. Wrap(a) = a + e
  BY <1>1 DEF e
<1>6. /\ Wrap(a) * radix + d = (a * radix + d) + e * radix
      /\ -Wrap(a) = -a + -e
  <2> DEFINE x == a * radix
             y == e * radix
  <2>1. (a + e) * radix = x + y /\ x \in Int /\ y \in Int
    BY <1>4
  <2> HIDE DEF x, y
  <2>2. (a + e) * radix + d = (x + d) + y
    BY <2>1
  <2>3. -(a + e) = -a + -e
    BY <1>2
  <2> QED BY <1>5, <2>2, <2>3 DEF x, y
<1>7. a * radix + d \in Int /\ -a \in Int /\ q * radix \in Int /\ -q \in Int
  BY <1>4
<1>8. /\ Wrap(a) * radix + d = (a * radix + d) + IntCount * (q * radix)
      /\ -Wrap(a) = -a + IntCount * (-q)
  BY <1>3, <1>4, <1>6
<1> QED BY <1>7, <1>8, WrapsAlike

IsAmountRun(f, radix, ds) ==
    /\ f[0] = 0 /\ \A n \in 1 .. Len(ds) : f[n] = f[n - 1] * radix + ds[n]
    /\ Amount(radix, ds) = f[Len(ds)]

LEMMA AmountRuns ==
    ASSUME NEW radix \in Nat, NEW ds \in Seq(Nat)
    PROVE  \E f : IsAmountRun(f, radix, ds)
<1> DEFINE N == Len(ds)
<1>1. radix \in Nat /\ N \in Nat /\ AreItems(ds, N, ds) /\ \A i \in 1 .. N : ds[i] \in Nat
  BY DEF AreItems
<1>2. \E f : /\ f[0] = 0 /\ \A n \in 1 .. N : f[n] = NextOfAmount(f[n - 1], ds[n], radix)
             /\ Amount(radix, ds) = f[N]
  <2> HIDE DEF N
  <2> QED BY ONLY <1>1, AmountRun
<1> QED BY <1>2 DEF IsAmountRun, NextOfAmount

\* Wrapping in every round, or once in the end.
LEMMA NumberWraps ==
    ASSUME NEW radix \in {10, 16}, NEW ds \in Seq(Nat)
    PROVE  Amount(radix, ds) \in Int /\ NumberOf(radix, ds) = Wrap(Amount(radix, ds))
<1> DEFINE N == Len(ds)
<1>1. N \in Nat /\ AreItems(ds, N, ds) /\ (\A i \in 1 .. N : ds[i] \in Nat) /\ radix \in Nat
  BY DEF AreItems
<1>2. PICK f : IsAmountRun(f, radix, ds)
  BY <1>1, AmountRuns
<1>3. /\ f[0] = 0 /\ \A n \in 1 .. N : f[n] = f[n - 1] * radix + ds[n]
      /\ Amount(radix, ds) = f[N]
  BY <1>2 DEF IsAmountRun
<1> HIDE DEF N
<1>4. PICK g : /\ g[0] = 0 /\ \A n \in 1 .. N : g[n] = NextOfNumber(g[n - 1], ds[n], radix)
               /\ NumberOf(radix, ds) = g[N]
  BY ONLY <1>1, NumberRun
<1> DEFINE P == {n \in 0 .. N : f[n] \in Int /\ g[n] = Wrap(f[n])}
<1>5. 0 \in P
  <2>1. 0 \in 0 .. N /\ 0 \in Int /\ Wrap(0) = 0
    BY <1>1, IntsAre, WrapOfInt
  <2> QED BY <1>3, <1>4, <2>1
<1>6. ASSUME NEW n \in 0 .. N, n < N, n \in P PROVE n + 1 \in P
  <2> DEFINE i == n + 1
  <2>1. i \in 1 .. N /\ i \in 0 .. N /\ i - 1 = n
    BY <1>1, <1>6
  <2> HIDE DEF i
  <2>2. f[i] = f[n] * radix + ds[i] /\ g[i] = Wrap(g[n] * radix + ds[i])
    BY <1>3, <1>4, <2>1 DEF NextOfNumber
  <2>3. f[n] \in Int /\ g[n] = Wrap(f[n]) /\ ds[i] \in Nat
    BY <1>1, <1>6, <2>1
  <2>4. f[i] \in Int
    BY <1>1, <2>2, <2>3
  <2>5. Wrap(Wrap(f[n]) * radix + ds[i]) = Wrap(f[n] * radix + ds[i])
    <3> DEFINE x == f[n]
               y == ds[i]
    <3>1. x \in Int /\ y \in Int
      BY <2>3
    <3> HIDE DEF x, y
    <3>2. Wrap(Wrap(x) * radix + y) = Wrap(x * radix + y)
      BY <3>1, WrapDigit
    <3> QED BY <3>2 DEF x, y
  <2> QED BY <2>1, <2>2, <2>3, <2>4, <2>5 DEF i
<1>7. N \in P
  <2> HIDE DEF P
  <2>1. \A n \in 0 .. N : n \in P
    BY <1>1, <1>5, <1>6, Climb
  <2> QED BY <1>1, <2>1
<1> QED BY <1>3, <1>4, <1>7

LEMMA AmountIs ==
    ASSUME NEW ds \in Seq(Nat), NEW d \in Nat
    PROVE  /\ Amount(10, << >>) = 0
           /\ Amount(10, Append(ds, d)) = Amount(10, ds) * 10 + d
<1>1. << >> \in Seq(Nat) /\ Len(<< >>) = 0 /\ 10 \in Nat
  OBVIOUS
<1>2. Amount(10, << >>) = 0
  <2> DEFINE e == << >>
  <2>1. e \in Seq(Nat) /\ Len(e) = 0
    BY <1>1
  <2> HIDE DEF e
  <2>2. PICK f : IsAmountRun(f, 10, e)
    BY <1>1, <2>1, AmountRuns
  <2> QED BY <2>1, <2>2 DEF IsAmountRun, e
<1> DEFINE N == Len(ds)
           es == Append(ds, d)
<1>3. /\ N \in Nat /\ es \in Seq(Nat) /\ Len(es) = N + 1
      /\ \A i \in 1 .. N : es[i] = ds[i]
      /\ es[N + 1] = d
  OBVIOUS
<1>4. PICK f : IsAmountRun(f, 10, ds)
  BY <1>1, AmountRuns
<1>5. PICK g : IsAmountRun(g, 10, es)
  <2> HIDE DEF es
  <2> QED BY <1>1, <1>3, AmountRuns
<1> HIDE DEF N, es
<1>6. /\ f[0] = 0 /\ \A n \in 1 .. N : f[n] = f[n - 1] * 10 + ds[n]
      /\ Amount(10, ds) = f[N]
  BY <1>4 DEF IsAmountRun, N
<1>7. /\ g[0] = 0 /\ \A n \in 1 .. N + 1 : g[n] = g[n - 1] * 10 + es[n]
      /\ Amount(10, es) = g[N + 1]
  BY <1>3, <1>5 DEF IsAmountRun
<1> DEFINE P == {n \in 0 .. N : f[n] = g[n]}
<1>8. 0 \in P
  BY <1>3, <1>6, <1>7
<1>9. ASSUME NEW n \in 0 .. N, n < N, n \in P PROVE n + 1 \in P
  <2>1. n + 1 \in 1 .. N /\ n + 1 \in 1 .. N + 1 /\ (n + 1) - 1 = n /\ n + 1 \in 0 .. N
    BY <1>3, <1>9
  <2>2. f[n + 1] = f[n] * 10 + ds[n + 1]
    BY <1>6, <2>1
  <2>3. g[n + 1] = g[n] * 10 + es[n + 1]
    BY <1>7, <2>1
  <2> QED BY <1>3, <1>9, <2>1, <2>2, <2>3
<1>10. N \in P
  <2> HIDE DEF P
  <2>1. \A n \in 0 .. N : n \in P
    BY <1>3, <1>8, <1>9, Climb
  <2> QED BY <1>3, <2>1
<1>11. N + 1 \in 1 .. N + 1 /\ (N + 1) - 1 = N
  BY <1>3
<1>12. g[N + 1] = f[N] * 10 + d
  BY <1>3, <1>7, <1>10, <1>11
<1> QED BY <1>2, <1>6, <1>7, <1>12 DEF es

\* What a text stands for is what getIntValue reads, digit by digit.
LEMMA ReadsNumber ==
    ASSUME NEW text, NEW n \in Ints, StandsFor(text, n)
    PROVE  getIntValue(text) = n
<1> DEFINE radix == IF text.hex THEN 16 ELSE 10
           amount == Amount(radix, text.digits)
           signed == IF text.neg THEN -amount ELSE amount
<1>1. /\ text.digits \in Seq(Nat) /\ text.neg \in BOOLEAN /\ text.hex \in BOOLEAN
      /\ ~ (text.neg /\ text.hex)
      /\ (n - signed) % IntCount = 0
  BY DEF StandsFor, IntCount
<1>2. amount \in Int /\ NumberOf(radix, text.digits) = Wrap(amount)
  <2>1. radix \in {10, 16}
    OBVIOUS
  <2> HIDE DEF radix
  <2> QED BY <1>1, <2>1, NumberWraps
<1> HIDE DEF amount
<1>3. signed \in Int /\ n \in Int
  BY <1>2, IntsAre
<1>4. Wrap(signed) = n
  <2> DEFINE x == n - signed
             q == x \div IntCount
  <2>1. x \in Int /\ IntCount \in Nat \ {0} /\ x % IntCount = 0
    BY <1>1, <1>3, IntsAre
  <2> HIDE DEF x
  <2>2. x = IntCount * q /\ q \in Int
    BY <2>1
  <2> HIDE DEF q, signed
  <2>3. n = signed + IntCount * q
    BY <1>3, <2>2 DEF x
  <2>4. Wrap(n) = Wrap(signed)
    BY <1>3, <2>2, <2>3, WrapsAlike
  <2> QED BY <2>4, WrapOfInt
<1>5. CASE text.hex
  <2>1. getIntValue(text) = Wrap(amount) /\ signed = amount
    BY <1>1, <1>2, <1>5 DEF getIntValue
  <2> QED BY <1>4, <2>1
<1>6. CASE ~ text.hex
  <2>1. getIntValue(text) = Wrap(IF text.neg THEN -Wrap(amount) ELSE Wrap(amount))
    BY <1>2, <1>6 DEF getIntValue
  <2>2. Wrap(-Wrap(amount)) = Wrap(-amount)
    BY <1>2, WrapDigit
  <2>3. Wrap(Wrap(amount)) = Wrap(amount)
    BY <1>2, WrapIs, WrapOfInt
  <2>4. getIntValue(text) = Wrap(signed)
    BY <2>1, <2>2, <2>3
  <2> QED BY <1>4, <2>4
<1> QED BY <1>5, <1>6

\* The digits of all numbers up to m, by the recursion of getStrIntValue.
IsDigits(f, m) ==
    /\ f = [n \in 0 .. m |-> f[n]]
    /\ \A n \in 0 .. m : f[n] = IF n < 10 THEN <<n>> ELSE Append(f[n \div 10], n % 10)

LEMMA TenthOf ==
    ASSUME NEW k \in Nat, k >= 10
    PROVE  /\ k \div 10 \in 0 .. k - 1 /\ k % 10 \in 0 .. 9
           /\ k = (k \div 10) * 10 + (k % 10)
OBVIOUS

LEMMA DigitsExist ==
    ASSUME NEW K \in Nat
    PROVE  \E f : IsDigits(f, K)
<1> DEFINE P == {m \in 0 .. K : \E f : IsDigits(f, m)}
<1>1. 0 \in P
  <2> DEFINE f == [n \in 0 .. 0 |-> <<0>>]
  <2>1. \A n \in 0 .. 0 : n = 0 /\ n < 10 /\ f[n] = <<n>>
    OBVIOUS
  <2>2. IsDigits(f, 0)
    BY <2>1 DEF IsDigits
  <2> QED BY <2>2
<1>2. ASSUME NEW m \in 0 .. K, m < K, m \in P PROVE m + 1 \in P
  <2>1. PICK f : IsDigits(f, m)
    BY <1>2
  <2> DEFINE k == m + 1
             new == IF k < 10 THEN <<k>> ELSE Append(f[k \div 10], k % 10)
             g == [n \in 0 .. k |-> IF n = k THEN new ELSE f[n]]
  <2>2. /\ k \in Nat /\ k \in 0 .. K /\ k \in 0 .. k
        /\ \A n \in 0 .. k : n # k => n \in 0 .. m
        /\ \A n \in 0 .. m : n \in 0 .. k /\ n # k
    BY <1>2
  <2>3. \A n \in 0 .. k : n \in Nat /\ (n >= 10 => n \div 10 \in 0 .. m)
    BY <1>2
  <2> HIDE DEF k, new
  <2>4. g[k] = new /\ \A n \in 0 .. m : g[n] = f[n]
    BY <2>2
  <2>5. g = [n \in 0 .. k |-> g[n]]
    OBVIOUS
  <2> HIDE DEF g
  <2>6. new = IF k < 10 THEN <<k>> ELSE Append(g[k \div 10], k % 10)
    BY <2>2, <2>3, <2>4 DEF new
  <2>7. ASSUME NEW n \in 0 .. k
        PROVE  g[n] = IF n < 10 THEN <<n>> ELSE Append(g[n \div 10], n % 10)
    <3>1. CASE n = k
      BY <2>4, <2>6, <3>1
    <3>2. CASE n # k
      <4>1. n \in 0 .. m /\ n \in Nat /\ (n >= 10 => n \div 10 \in 0 .. m)
        BY <2>2, <2>3, <3>2
      <4>2. f[n] = IF n < 10 THEN <<n>> ELSE Append(f[n \div 10], n % 10)
        BY <2>1, <4>1 DEF IsDigits
      <4>3. ~ (n < 10) => n >= 10
        BY <4>1
      <4> QED BY <2>4, <4>1, <4>2, <4>3
    <3> QED BY <3>1, <3>2
  <2>8. IsDigits(g, k)
    BY <2>5, <2>7 DEF IsDigits
  <2> QED BY <2>2, <2>8 DEF k
<1>3. \A m \in 0 .. K : m \in P
  <2> HIDE DEF P
  <2> QED BY <1>1, <1>2, Climb
<1>4. K \in 0 .. K
  OBVIOUS
<1> QED BY <1>3, <1>4

LEMMA DigitsRead ==
    ASSUME NEW K \in Nat, NEW f, IsDigits(f, K)
    PROVE  \A n \in 0 .. K : f[n] \in Seq(Nat) /\ Amount(10, f[n]) = n
<1> DEFINE Fine(n) == f[n] \in Seq(Nat) /\ Amount(10, f[n]) = n
           P == {m \in 0 .. K : \A n \in 0 .. m : Fine(n)}
<1>1. ASSUME NEW n \in 0 .. K, n < 10 PROVE Fine(n)
  <2>0. \A i \in 0 .. K : f[i] = IF i < 10 THEN <<i>> ELSE Append(f[i \div 10], i % 10)
    BY DEF IsDigits
  <2>1. f[n] = <<n>> /\ n \in Nat
    <3>1. f[n] = IF n < 10 THEN <<n>> ELSE Append(f[n \div 10], n % 10)
      BY <2>0, Zenon
    <3>2. n \in Nat
      OBVIOUS
    <3> QED BY ONLY <1>1, <3>1, <3>2
  <2>2. <<n>> = Append(<< >>, n) /\ << >> \in Seq(Nat) /\ <<n>> \in Seq(Nat)
    BY <2>1
  <2>3. Amount(10, <<n>>) = 0 * 10 + n
    BY <2>1, <2>2, AmountIs
  <2>4. 0 * 10 + n = n
    BY <2>1
  <2> QED BY <2>1, <2>2, <2>3, <2>4
<1>2. ASSUME NEW n \in 0 .. K, n >= 10, Fine(n \div 10) PROVE Fine(n)
  <2>1. n \in Nat /\ ~ (n < 10)
    BY <1>2
  <2> DEFINE j == n \div 10
             d == n % 10
  <2>2. j \in Nat /\ d \in Nat /\ j * 10 + d = n
    BY <1>2, <2>1, TenthOf
  <2>3. f[n] = Append(f[j], d)
    BY <1>2, <2>1 DEF IsDigits
  <2> HIDE DEF j, d
  <2>4. f[j] \in Seq(Nat) /\ Amount(10, f[j]) = j
    BY <1>2 DEF j
  <2>5. Amount(10, f[n]) = j * 10 + d
    BY <2>2, <2>3, <2>4, AmountIs
  <2>6. f[n] \in Seq(Nat)
    BY <2>2, <2>3, <2>4
  <2> QED BY <2>2, <2>5, <2>6
<1> HIDE DEF Fine
<1>3. 0 \in P
  BY <1>1
<1>4. ASSUME NEW m \in 0 .. K, m < K, m \in P PROVE m + 1 \in P
  <2> DEFINE k == m + 1
  <2>1. k \in Nat /\ k \in 0 .. K /\ \A n \in 0 .. k : n # k => n \in 0 .. m
    BY <1>4
  <2>2. k >= 10 => k \div 10 \in 0 .. m
    BY <1>4
  <2>3. k >= 10 \/ k < 10
    BY <2>1
  <2>4. Fine(k)
    <3> HIDE DEF k
    <3>1. \A n \in 0 .. m : Fine(n)
      BY <1>4
    <3> QED BY <1>1, <1>2, <2>1, <2>2, <2>3, <3>1
  <2> HIDE DEF k
  <2>5. \A n \in 0 .. k : Fine(n)
    BY <1>4, <2>1, <2>4
  <2> QED BY <2>1, <2>5 DEF k
<1>5. \A m \in 0 .. K : m \in P
  <2> HIDE DEF P
  <2> QED BY <1>3, <1>4, Climb
<1>6. K \in 0 .. K
  OBVIOUS
<1> QED BY <1>5, <1>6 DEF Fine

\* What getStrIntValue writes stands for the number it is given.
LEMMA IntSurvives ==
    ASSUME NEW v \in Ints
    PROVE  StandsFor(getStrIntValue(v), v)
<1> DEFINE K == -Smallest
           F(h) == [n \in 0 .. K |-> IF n < 10 THEN <<n>> ELSE Append(h[n \div 10], n % 10)]
           f == CHOOSE h : h = F(h)
<1>1. K \in Nat
  BY IntsAre
<1>2. f = F(f)
  <2>1. PICK h : IsDigits(h, K)
    BY <1>1, DigitsExist
  <2>2. h = F(h)
    BY <2>1 DEF IsDigits
  <2> HIDE DEF F
  <2> QED BY <2>2
<1>3. IsDigits(f, K)
  <2> HIDE DEF f, K
  <2> QED BY <1>2 DEF IsDigits
<1> DEFINE n == IF v < 0 THEN -v ELSE v
           text == [neg |-> v < 0, hex |-> FALSE, digits |-> f[n]]
<1>4. getStrIntValue(v) = text
  BY DEF getStrIntValue
<1>5. n \in 0 .. K /\ n \in Int /\ v \in Int /\ v = IF v < 0 THEN -n ELSE n
  BY IntsAre, IntAssumption DEF Ints, Smallest
<1> HIDE DEF f, n, K
<1>6. /\ text.digits \in Seq(Nat) /\ Amount(10, text.digits) = n
      /\ text.neg = (v < 0) /\ text.hex = FALSE
  BY <1>1, <1>3, <1>5, DigitsRead
<1> HIDE DEF text
<1>7. v - (IF text.neg THEN -n ELSE n) = 0
  <2>1. CASE v < 0
    <3>1. v = -n /\ text.neg
      BY <1>5, <1>6, <2>1
    <3> QED BY <1>5, <3>1
  <2>2. CASE ~ (v < 0)
    <3>1. v = n /\ ~ text.neg
      BY <1>5, <1>6, <2>2
    <3> QED BY <1>5, <3>1
  <2> QED BY <2>1, <2>2
<1>8. 0 % (2 * (INT_MAX + 1)) = 0
  BY IntAssumption
<1>9. StandsFor(text, v)
  <2>1. Amount(IF text.hex THEN 16 ELSE 10, text.digits) = n
    BY <1>6
  <2>2. text.hex \in BOOLEAN /\ ~ text.hex
    BY <1>6
  <2>3. text.neg \in BOOLEAN
    <3>1. CASE v < 0
      BY <1>6, <3>1
    <3>2. CASE ~ (v < 0)
      BY <1>6, <3>2
    <3> QED BY <3>1, <3>2
  <2> QED BY <1>6, <1>7, <1>8, <2>1, <2>2, <2>3 DEF StandsFor
<1> QED BY <1>4, <1>9
------------------------------------------------------------------------------
(***************************************************************************)
(* What is read of parameters is what they say.                            *)
(***************************************************************************)
Defs == {defaultSetting, defaultOption}

LEMMA ThreeAre ==
    ASSUME NEW a, NEW b, NEW c
    PROVE  LET s == <<a, b, c>>
           IN  /\ Len(s) = 3 /\ s[1] = a /\ s[2] = b /\ s[3] = c
               /\ Range(s) = {a, b, c} /\ s \in Seq(Range(s))
<1> DEFINE s == <<a, b, c>>
<1>1. Len(s) = 3 /\ s[1] = a /\ s[2] = b /\ s[3] = c /\ s \in Seq({a, b, c})
  OBVIOUS
<1>2. DOMAIN s = 1 .. 3 /\ \A i \in 1 .. 3 : i = 1 \/ i = 2 \/ i = 3
  OBVIOUS
<1>3. 1 \in 1 .. 3 /\ 2 \in 1 .. 3 /\ 3 \in 1 .. 3
  OBVIOUS
<1> HIDE DEF s
<1>4. Range(s) = {a, b, c}
  BY <1>1, <1>2, <1>3 DEF Range
<1> QED BY <1>1, <1>4 DEF s

LEMMA DefsAre ==
    ASSUME NEW defs \in Defs
    PROVE  /\ Len(defs) = 3 /\ defs \in Seq(Range(defs))
           /\ defs[1].name # defs[2].name /\ defs[1].name # defs[3].name
           /\ defs[2].name # defs[3].name
<1>1. CASE defs = defaultSetting
  BY <1>1, ThreeAre DEF defaultSetting, Pair
<1>2. CASE defs = defaultOption
  BY <1>2, ThreeAre DEF defaultOption, Pair
<1> QED BY <1>1, <1>2 DEF Defs

LEMMA IndexIs ==
    ASSUME NEW defs \in Defs, NEW name
    PROVE  LET k == getSettingIndex(name, defs)
           IN  /\ name = defs[1].name => k = 1
               /\ name = defs[2].name => k = 2
               /\ name = defs[3].name => k = 3
               /\ (\A j \in 1 .. 3 : name # defs[j].name) => k = 4
<1> DEFINE I == {j \in 1 .. Len(defs) : defs[j].name = name}
           hit == IF I # {} THEN Min(I) ELSE 0
<1>1. getSettingIndex(name, defs) = IF hit = 0 THEN Len(defs) + 1 ELSE hit
  BY DEF getSettingIndex, SelectInSeq
<1>2. ASSUME NEW k \in 1 .. 3, name = defs[k].name PROVE hit = k
  <2>1. I = {k}
    BY <1>2, DefsAre
  <2> HIDE DEF I
  <2>2. Min({k}) = k
    BY DEF Min
  <2> QED BY <2>1, <2>2
<1>3. ASSUME \A j \in 1 .. 3 : name # defs[j].name PROVE hit = 0
  <2>1. I = {}
    BY <1>3, DefsAre
  <2> HIDE DEF I
  <2> QED BY <2>1
<1>4. Len(defs) = 3 /\ 1 \in 1 .. 3 /\ 2 \in 1 .. 3 /\ 3 \in 1 .. 3
  BY DefsAre
<1> HIDE DEF hit
<1> QED BY <1>1, <1>2, <1>3, <1>4

LEMMA RowSet ==
    ASSUME NEW v \in Rows
    PROVE  /\ \A x : [v EXCEPT !.str = x] = [str |-> x, bool |-> v.bool, int |-> v.int]
           /\ \A x : [v EXCEPT !.bool = x] = [str |-> v.str, bool |-> x, int |-> v.int]
           /\ \A x : [v EXCEPT !.int = x] = [str |-> v.str, bool |-> v.bool, int |-> x]
           /\ v = [str |-> v.str, bool |-> v.bool, int |-> v.int]
           /\ v.str \in Texts /\ v.bool \in BOOLEAN /\ v.int \in Ints
BY DEF Rows

\* What a parameter p of params does to a row, if params say m.
LEMMA PutParamIs ==
    ASSUME NEW defs \in Defs, NEW params, NEW m \in Rows, Says(params, m, defs),
           NEW p \in Range(params), NEW v \in Rows
    PROVE  LET w == PutParam(v, p, defs)
           IN  /\ w \in Rows
               /\ w.str = IF p.name = defs[1].name THEN m.str ELSE v.str
               /\ w.bool = IF p.name = defs[2].name THEN m.bool ELSE v.bool
               /\ w.int = IF p.name = defs[3].name THEN m.int ELSE v.int
<1> DEFINE w == PutParam(v, p, defs)
           k == getSettingIndex(p.name, defs)
<1>1. w = CASE k = 1 -> [v EXCEPT !.str = p.value]
            [] k = 2 -> [v EXCEPT !.bool = getBoolValue(p.value)]
            [] k = 3 -> [v EXCEPT !.int = getIntValue(p.value)]
            [] OTHER -> v
  BY DEF PutParam
<1>2. /\ p.name = defs[1].name => m.str = p.value
      /\ p.name = defs[2].name => m.bool = getBoolValue(p.value)
      /\ p.name = defs[3].name => m.int = getIntValue(p.value)
  BY RowSet, ReadsNumber DEF Says, getBoolValue
<1>3. /\ p.name = defs[1].name => k = 1
      /\ p.name = defs[2].name => k = 2
      /\ p.name = defs[3].name => k = 3
      /\ (\A j \in 1 .. 3 : p.name # defs[j].name) => k = 4
  BY IndexIs
<1> HIDE DEF w, k
<1>4. CASE p.name = defs[1].name
  <2>1. w = [str |-> m.str, bool |-> v.bool, int |-> v.int]
    BY <1>1, <1>2, <1>3, <1>4, RowSet
  <2> QED BY <1>4, <2>1, DefsAre, RowSet DEF Rows, w
<1>5. CASE p.name = defs[2].name
  <2>1. w = [str |-> v.str, bool |-> m.bool, int |-> v.int]
    BY <1>1, <1>2, <1>3, <1>5, RowSet
  <2> QED BY <1>5, <2>1, DefsAre, RowSet DEF Rows, w
<1>6. CASE p.name = defs[3].name
  <2>1. w = [str |-> v.str, bool |-> v.bool, int |-> m.int]
    BY <1>1, <1>2, <1>3, <1>6, RowSet
  <2> QED BY <1>6, <2>1, DefsAre, RowSet DEF Rows, w
<1>7. CASE \A j \in 1 .. 3 : p.name # defs[j].name
  <2>1. w = v
    BY <1>1, <1>3, <1>7
  <2>2. p.name # defs[1].name /\ p.name # defs[2].name /\ p.name # defs[3].name
    BY <1>7
  <2> QED BY <2>1, <2>2 DEF w
<1>8. \A j \in 1 .. 3 : j = 1 \/ j = 2 \/ j = 3
  OBVIOUS
<1> QED BY <1>4, <1>5, <1>6, <1>7, <1>8

\* Parameters in their order.
LEMMA ListOne ==
    ASSUME NEW s, s \in Seq(Range(s))
    PROVE  /\ Len(s) \in Nat /\ DOMAIN s = 1 .. Len(s) /\ AreItems(s, Len(s), s)
           /\ \A i \in 1 .. Len(s) : s[i] \in Range(s)
           /\ \A x \in Range(s) : \E i \in 1 .. Len(s) : x = s[i]
BY DEF Range, AreItems

LEMMA FilledRuns ==
    ASSUME NEW defs \in Defs, NEW params, params \in Seq(Range(params)),
           NEW m \in Rows, Says(params, m, defs), NEW v \in Rows
    PROVE  \E f : IsFilled(f, v, params, Len(params), defs, Filled(v, params, defs))
<1>1. Len(params) \in Nat /\ AreItems(params, Len(params), params)
  BY ListOne
<1>2. PutsRows(Len(params), params, defs)
  BY ListOne, PutParamIs DEF PutsRows
<1> QED BY <1>1, <1>2, FilledRun

LEMMA FilledIs ==
    ASSUME NEW defs \in Defs, NEW params, params \in Seq(Range(params)),
           NEW m \in Rows, Says(params, m, defs), NEW v \in Rows
    PROVE  Filled(v, params, defs) = m
<1> DEFINE N == Len(params)
           Seen(k, i) == \E j \in 1 .. i : params[j].name = defs[k].name
<1>1. PICK f : IsFilled(f, v, params, N, defs, Filled(v, params, defs))
  BY FilledRuns
<1>2. /\ f[0] = v /\ \A n \in 1 .. N : f[n] = PutParam(f[n - 1], params[n], defs)
      /\ Filled(v, params, defs) = f[N]
  BY <1>1 DEF IsFilled
<1>3. N \in Nat /\ \A i \in 1 .. N : params[i] \in Range(params)
  BY ListOne
<1> DEFINE P == {i \in 0 .. N : /\ f[i] \in Rows
                                /\ Seen(1, i) => f[i].str = m.str
                                /\ Seen(2, i) => f[i].bool = m.bool
                                /\ Seen(3, i) => f[i].int = m.int}
<1> HIDE DEF N
<1>4. 0 \in P
  <2>1. \A k : ~ Seen(k, 0)
    OBVIOUS
  <2> QED BY <1>2, <1>3, <2>1
<1>5. ASSUME NEW n \in 0 .. N, n < N, n \in P PROVE n + 1 \in P
  <2> DEFINE i == n + 1
  <2>1. i \in 1 .. N /\ i - 1 = n /\ i \in 0 .. N /\ \A j \in 1 .. i : j = i \/ j \in 1 .. n
    BY <1>3, <1>5
  <2> HIDE DEF i
  <2>2. f[i] = PutParam(f[n], params[i], defs) /\ f[n] \in Rows
    BY <1>2, <1>5, <2>1
  <2>3. \A k : Seen(k, i) => Seen(k, n) \/ params[i].name = defs[k].name
    BY <2>1
  <2>4. /\ f[i] \in Rows
        /\ f[i].str = IF params[i].name = defs[1].name THEN m.str ELSE f[n].str
        /\ f[i].bool = IF params[i].name = defs[2].name THEN m.bool ELSE f[n].bool
        /\ f[i].int = IF params[i].name = defs[3].name THEN m.int ELSE f[n].int
    BY <1>3, <2>1, <2>2, PutParamIs
  <2>5. /\ Seen(1, n) => f[n].str = m.str
        /\ Seen(2, n) => f[n].bool = m.bool
        /\ Seen(3, n) => f[n].int = m.int
    BY <1>5
  <2> HIDE DEF Seen
  <2> QED BY <2>1, <2>3, <2>4, <2>5 DEF i
<1>6. N \in P
  <2> HIDE DEF P
  <2>1. \A n \in 0 .. N : n \in P
    BY <1>3, <1>4, <1>5, Climb
  <2> QED BY <1>3, <2>1
<1>7. Seen(1, N) /\ Seen(2, N) /\ Seen(3, N)
  <2>1. \A k \in 1 .. 3 : \E p \in Range(params) : p.name = defs[k].name
    BY DEF Says
  <2>2. \A p \in Range(params) : \E j \in 1 .. N : p = params[j]
    BY ListOne DEF N
  <2>3. 1 \in 1 .. 3 /\ 2 \in 1 .. 3 /\ 3 \in 1 .. 3
    OBVIOUS
  <2> QED BY <2>1, <2>2, <2>3
<1>8. f[N] \in Rows /\ f[N].str = m.str /\ f[N].bool = m.bool /\ f[N].int = m.int
  BY <1>6, <1>7
<1>9. f[N] = m
  BY <1>8, RowSet
<1> QED BY <1>2, <1>9
------------------------------------------------------------------------------
(***************************************************************************)
(* What is written to texts says what was written.                         *)
(***************************************************************************)
Written(v, defs) ==
    setIntValue(setBoolValue(SetText(defs, 1, v.str, defs), 2, v.bool, defs), 3, v.int, defs)

LEMMA BoolSurvives ==
    ASSUME NEW b \in BOOLEAN
    PROVE  (getStrBoolValue(b) = "true") = b
BY DEF getStrBoolValue

LEMMA SetOne ==
    ASSUME NEW a, NEW b, NEW c, NEW text, NEW defs
    PROVE  LET s == <<a, b, c>>
           IN  /\ SetText(s, 1, text, defs) = <<Pair(defs[1].name, text), b, c>>
               /\ SetText(s, 2, text, defs) = <<a, Pair(defs[2].name, text), c>>
               /\ SetText(s, 3, text, defs) = <<a, b, Pair(defs[3].name, text)>>
<1> DEFINE s == <<a, b, c>>
<1>1. s # << >>
  OBVIOUS
<1>2. /\ [s EXCEPT ![1] = Pair(defs[1].name, text)] = <<Pair(defs[1].name, text), b, c>>
      /\ [s EXCEPT ![2] = Pair(defs[2].name, text)] = <<a, Pair(defs[2].name, text), c>>
      /\ [s EXCEPT ![3] = Pair(defs[3].name, text)] = <<a, b, Pair(defs[3].name, text)>>
  OBVIOUS
<1> HIDE DEF s
<1>3. /\ SetText(s, 1, text, defs) = [s EXCEPT ![1] = Pair(defs[1].name, text)]
      /\ SetText(s, 2, text, defs) = [s EXCEPT ![2] = Pair(defs[2].name, text)]
      /\ SetText(s, 3, text, defs) = [s EXCEPT ![3] = Pair(defs[3].name, text)]
  BY <1>1 DEF SetText, Pair
<1> QED BY <1>2, <1>3 DEF s

\* Three parameters by the names of the defaults say what their texts are.
LEMMA ThreeSay ==
    ASSUME NEW defs \in Defs, NEW v, NEW a, NEW b, NEW c,
           a.name = defs[1].name, b.name = defs[2].name, c.name = defs[3].name,
           v.str = a.value, v.bool = (b.value = "true"), StandsFor(c.value, v.int)
    PROVE  Says(<<a, b, c>>, v, defs)
<1> DEFINE s == <<a, b, c>>
<1>1. Range(s) = {a, b, c}
  BY ThreeAre
<1> HIDE DEF s
<1>2. \A k \in 1 .. 3 : k = 1 \/ k = 2 \/ k = 3
  OBVIOUS
<1>3. \A k \in 1 .. 3 : \E p \in Range(s) : p.name = defs[k].name
  BY <1>1, <1>2
<1>4. \A p \in Range(s) : p = a \/ p = b \/ p = c
  BY <1>1
<1>5. ASSUME NEW p \in Range(s)
      PROVE  /\ p.name = defs[1].name => v.str = p.value
             /\ p.name = defs[2].name => v.bool = (p.value = "true")
             /\ p.name = defs[3].name => StandsFor(p.value, v.int)
  BY <1>4, DefsAre
<1>6. Says(s, v, defs)
  BY <1>3, <1>5 DEF Says
<1> QED BY <1>6 DEF s

LEMMA WrittenSays ==
    ASSUME NEW defs \in Defs, NEW v \in Rows
    PROVE  /\ Len(Written(v, defs)) = 3 /\ Written(v, defs) \in Seq(Range(Written(v, defs)))
           /\ Says(Written(v, defs), v, defs)
<1> DEFINE a == Pair(defs[1].name, v.str)
           b == Pair(defs[2].name, getStrBoolValue(v.bool))
           c == Pair(defs[3].name, getStrIntValue(v.int))
<1>1. defs = <<defs[1], defs[2], defs[3]>>
  <2>1. defs = defaultSetting \/ defs = defaultOption
    BY DEF Defs
  <2>2. PICK x, y, z : defs = <<x, y, z>>
    BY <2>1 DEF defaultSetting, defaultOption
  <2>3. defs[1] = x /\ defs[2] = y /\ defs[3] = z
    BY <2>2
  <2> QED BY <2>2, <2>3
<1>2. SetText(<<defs[1], defs[2], defs[3]>>, 1, v.str, defs) = <<a, defs[2], defs[3]>>
  BY SetOne
<1> HIDE DEF a
<1>3. SetText(<<a, defs[2], defs[3]>>, 2, getStrBoolValue(v.bool), defs) = <<a, b, defs[3]>>
  BY SetOne
<1> HIDE DEF b
<1>4. SetText(<<a, b, defs[3]>>, 3, getStrIntValue(v.int), defs) = <<a, b, c>>
  BY SetOne
<1>5. Written(v, defs) = <<a, b, c>>
  BY <1>1, <1>2, <1>3, <1>4 DEF Written, setIntValue, setBoolValue
<1>6. /\ a.name = defs[1].name /\ b.name = defs[2].name /\ c.name = defs[3].name
      /\ v.str = a.value /\ v.bool = (b.value = "true") /\ StandsFor(c.value, v.int)
  BY RowSet, BoolSurvives, IntSurvives DEF a, b, Pair
<1> HIDE DEF c
<1>7. Says(<<a, b, c>>, v, defs)
  BY <1>6, ThreeSay
<1> QED BY <1>5, <1>7, ThreeAre

LEMMA ZeroIs == StandsFor(Zero, 0)
<1>1. <<0>> = Append(<< >>, 0) /\ << >> \in Seq(Nat) /\ <<0>> \in Seq(Nat)
  OBVIOUS
<1>2. Amount(10, <<0>>) = 0 * 10 + 0
  BY <1>1, AmountIs
<1>3. Amount(10, <<0>>) = 0
  BY <1>2
<1>4. (0 - 0) % (2 * (INT_MAX + 1)) = 0
  BY IntAssumption
<1> QED BY <1>1, <1>3, <1>4 DEF StandsFor, Zero

DefaultLine(b) == [str |-> "Line", bool |-> b, int |-> 0]

LEMMA DefaultsSay ==
    /\ DefaultLine(FALSE) \in Rows /\ Says(defaultSetting, DefaultLine(FALSE), defaultSetting)
    /\ DefaultLine(TRUE) \in Rows /\ Says(defaultOption, DefaultLine(TRUE), defaultOption)
<1>1. DefaultLine(FALSE) \in Rows /\ DefaultLine(TRUE) \in Rows
  <2>1. "Line" \in Texts
    BY SaidAssumption
  <2>2. 0 \in Ints /\ TRUE \in BOOLEAN /\ FALSE \in BOOLEAN
    BY IntsAre
  <2> QED BY <2>1, <2>2 DEF DefaultLine, Rows
<1>2. "false" # "true"
  OBVIOUS
<1>3. Says(defaultSetting, DefaultLine(FALSE), defaultSetting)
  <2> DEFINE a == Pair("str", "Line")
             b == Pair("bool", "false")
             c == Pair("int", Zero)
             v == DefaultLine(FALSE)
  <2>1. defaultSetting = <<a, b, c>> /\ defaultSetting \in Defs
    BY DEF defaultSetting, Defs
  <2>2. defaultSetting[1] = a /\ defaultSetting[2] = b /\ defaultSetting[3] = c
    BY DEF defaultSetting
  <2>3. v.str = a.value /\ v.bool = (b.value = "true") /\ StandsFor(c.value, v.int)
    BY <1>2, ZeroIs DEF DefaultLine, Pair
  <2> HIDE DEF a, b, c, v
  <2> QED BY <2>1, <2>2, <2>3, ThreeSay DEF v
<1>4. Says(defaultOption, DefaultLine(TRUE), defaultOption)
  <2> DEFINE a == Pair("str option", "Line")
             b == Pair("bool option", "true")
             c == Pair("int option", Zero)
             v == DefaultLine(TRUE)
  <2>1. defaultOption = <<a, b, c>> /\ defaultOption \in Defs
    BY DEF defaultOption, Defs
  <2>2. defaultOption[1] = a /\ defaultOption[2] = b /\ defaultOption[3] = c
    BY DEF defaultOption
  <2>3. v.str = a.value /\ v.bool = (b.value = "true") /\ StandsFor(c.value, v.int)
    BY <1>2, ZeroIs DEF DefaultLine, Pair
  <2> HIDE DEF a, b, c, v
  <2> QED BY <2>1, <2>2, <2>3, ThreeSay DEF v
<1> QED BY <1>1, <1>3, <1>4
------------------------------------------------------------------------------
(***************************************************************************)
(* The same of the plug-in.                                                *)
(***************************************************************************)
LEMMA ChosenSet ==
    ASSUME NEW v \in Chosen
    PROVE  /\ \A x : [v EXCEPT !.filter = x] = [filter |-> x, coordinatesOnly |-> v.coordinatesOnly]
           /\ \A x : [v EXCEPT !.coordinatesOnly = x] = [filter |-> v.filter, coordinatesOnly |-> x]
           /\ v = [filter |-> v.filter, coordinatesOnly |-> v.coordinatesOnly]
           /\ v.filter \in {"all", "nmea", "ais"} /\ v.coordinatesOnly \in BOOLEAN
BY DEF Chosen

LEMMA ApplyParamIs ==
    ASSUME NEW params, NEW m \in Chosen, Chooses(params, m),
           NEW p \in Range(params), NEW v \in Chosen
    PROVE  LET w == ApplyParam(v, p)
           IN  /\ w \in Chosen
               /\ w.filter = IF p.name = "message_type" THEN m.filter ELSE v.filter
               /\ w.coordinatesOnly = IF p.name = "coordinates_only" THEN m.coordinatesOnly
                                      ELSE v.coordinatesOnly
<1> DEFINE w == ApplyParam(v, p)
<1>1. /\ p.name = "message_type" =>
           m.filter = IF p.value \in {"nmea", "ais"} THEN p.value ELSE "all"
      /\ p.name = "coordinates_only" => m.coordinatesOnly = (p.value \in {"true", "1"})
  BY DEF Chooses
<1>2. "message_type" # "coordinates_only"
  OBVIOUS
<1>3. CASE p.name = "message_type"
  <2>1. w = [filter |-> m.filter, coordinatesOnly |-> v.coordinatesOnly]
    BY <1>1, <1>2, <1>3, ChosenSet DEF ApplyParam
  <2> HIDE DEF w
  <2> QED BY <1>2, <1>3, <2>1, ChosenSet DEF Chosen, w
<1>4. CASE p.name = "coordinates_only"
  <2>1. w = [filter |-> v.filter, coordinatesOnly |-> m.coordinatesOnly]
    BY <1>1, <1>2, <1>4, ChosenSet DEF ApplyParam
  <2> HIDE DEF w
  <2> QED BY <1>2, <1>4, <2>1, ChosenSet DEF Chosen, w
<1>5. CASE p.name \notin {"message_type", "coordinates_only"}
  <2>1. w = v
    BY <1>5 DEF ApplyParam
  <2> QED BY <1>5, <2>1
<1> QED BY <1>3, <1>4, <1>5

LEMMA AppliedIs ==
    ASSUME NEW params, params \in Seq(Range(params)),
           NEW m \in Chosen, Chooses(params, m), NEW v \in Chosen
    PROVE  Applied(v, params) = m
<1> DEFINE N == Len(params)
           Seen(name, i) == \E j \in 1 .. i : params[j].name = name
<1>1. N \in Nat /\ AreItems(params, N, params) /\ \A i \in 1 .. N : params[i] \in Range(params)
  BY ListOne
<1>2. PutsChosen(N, params)
  BY <1>1, ApplyParamIs DEF PutsChosen
<1>3. PICK f : IsApplied(f, v, params, N, Applied(v, params))
  BY <1>1, <1>2, AppliedRun
<1>4. /\ f[0] = v /\ \A n \in 1 .. N : f[n] = ApplyParam(f[n - 1], params[n])
      /\ Applied(v, params) = f[N]
  BY <1>3 DEF IsApplied
<1> DEFINE P == {i \in 0 .. N : /\ f[i] \in Chosen
                                /\ Seen("message_type", i) => f[i].filter = m.filter
                                /\ Seen("coordinates_only", i) =>
                                     f[i].coordinatesOnly = m.coordinatesOnly}
<1> HIDE DEF N
<1>5. 0 \in P
  <2>1. \A name : ~ Seen(name, 0)
    OBVIOUS
  <2> QED BY <1>1, <1>4, <2>1
<1>6. ASSUME NEW n \in 0 .. N, n < N, n \in P PROVE n + 1 \in P
  <2> DEFINE i == n + 1
  <2>1. i \in 1 .. N /\ i - 1 = n /\ i \in 0 .. N /\ \A j \in 1 .. i : j = i \/ j \in 1 .. n
    BY <1>1, <1>6
  <2> HIDE DEF i
  <2>2. f[i] = ApplyParam(f[n], params[i]) /\ f[n] \in Chosen
    BY <1>4, <1>6, <2>1
  <2>3. \A name : Seen(name, i) => Seen(name, n) \/ params[i].name = name
    BY <2>1
  <2>4. /\ f[i] \in Chosen
        /\ f[i].filter = IF params[i].name = "message_type" THEN m.filter ELSE f[n].filter
        /\ f[i].coordinatesOnly = IF params[i].name = "coordinates_only" THEN m.coordinatesOnly
                                  ELSE f[n].coordinatesOnly
    BY <1>1, <2>1, <2>2, ApplyParamIs
  <2>5. /\ Seen("message_type", n) => f[n].filter = m.filter
        /\ Seen("coordinates_only", n) => f[n].coordinatesOnly = m.coordinatesOnly
    BY <1>6
  <2> HIDE DEF Seen
  <2> QED BY <2>1, <2>3, <2>4, <2>5 DEF i
<1>7. N \in P
  <2> HIDE DEF P
  <2>1. \A n \in 0 .. N : n \in P
    BY <1>1, <1>5, <1>6, Climb
  <2> QED BY <1>1, <2>1
<1>8. Seen("message_type", N) /\ Seen("coordinates_only", N)
  <2>1. \A name \in {"message_type", "coordinates_only"} :
           \E p \in Range(params) : p.name = name
    BY DEF Chooses
  <2>2. \A p \in Range(params) : \E j \in 1 .. N : p = params[j]
    BY ListOne DEF N
  <2> QED BY <2>1, <2>2
<1>9. /\ f[N] \in Chosen /\ f[N].filter = m.filter
      /\ f[N].coordinatesOnly = m.coordinatesOnly
  BY <1>7, <1>8
<1>10. f[N] = m
  BY <1>9, ChosenSet
<1> QED BY <1>4, <1>10

LEMMA PrintedChooses ==
    ASSUME NEW v \in Chosen
    PROVE  LET s == Printed(v)
           IN  /\ s.cnt = 2 /\ Len(s.params) = 2 /\ s.params \in Seq(Range(s.params))
               /\ Chooses(s.params, v)
<1> DEFINE a == Pair("message_type", v.filter)
           b == Pair("coordinates_only", getStrBoolValue(v.coordinatesOnly))
           s == <<a, b>>
<1>1. Printed(v).cnt = 2 /\ Printed(v).params = s
  BY DEF Printed
<1>2. /\ a.name = "message_type" /\ b.name = "coordinates_only" /\ a.value = v.filter
      /\ (b.value \in {"true", "1"}) = v.coordinatesOnly
  BY ChosenSet DEF Pair, getStrBoolValue
<1> HIDE DEF a, b
<1>3. Len(s) = 2 /\ s[1] = a /\ s[2] = b /\ s \in Seq({a, b}) /\ DOMAIN s = 1 .. 2
  OBVIOUS
<1>4. 1 \in 1 .. 2 /\ 2 \in 1 .. 2 /\ \A i \in 1 .. 2 : i = 1 \/ i = 2
  OBVIOUS
<1> HIDE DEF s
<1>5. Range(s) = {a, b}
  BY <1>3, <1>4 DEF Range
<1>6. v.filter = IF a.value \in {"nmea", "ais"} THEN a.value ELSE "all"
  BY <1>2, ChosenSet
<1>7. "message_type" # "coordinates_only"
  OBVIOUS
<1>8. Chooses(s, v)
  BY <1>2, <1>5, <1>6, <1>7 DEF Chooses
<1> QED BY <1>1, <1>3, <1>5, <1>8
------------------------------------------------------------------------------
(***************************************************************************)
(* Options: the rows are those of the filters among them, in their order.  *)
(***************************************************************************)
FiltersOf(args, n) == {j \in 1 .. n : args[j].name = DEFAULT_NAME_OPTION}
CountOf(args, n) == Cardinality(FiltersOf(args, n))

LEMMA CountIs ==
    ASSUME NEW args
    PROVE  /\ CountOf(args, 0) = 0
           /\ \A n \in Nat : CountOf(args, n) \in Nat /\ IsFiniteSet(FiltersOf(args, n))
           /\ \A n \in Nat : CountOf(args, n + 1) =
                IF args[n + 1].name = DEFAULT_NAME_OPTION THEN CountOf(args, n) + 1
                ELSE CountOf(args, n)
<1>1. FiltersOf(args, 0) = {}
  BY DEF FiltersOf
<1>2. ASSUME NEW n \in Nat
      PROVE  CountOf(args, n) \in Nat /\ IsFiniteSet(FiltersOf(args, n))
  <2>1. IsFiniteSet(1 .. n)
    BY FS_Interval
  <2>2. FiltersOf(args, n) \in SUBSET (1 .. n)
    BY DEF FiltersOf
  <2>3. IsFiniteSet(FiltersOf(args, n))
    BY <2>1, <2>2, FS_Subset
  <2> QED BY <2>3, FS_CardinalityType DEF CountOf
<1>3. ASSUME NEW n \in Nat
      PROVE  CountOf(args, n + 1) =
                IF args[n + 1].name = DEFAULT_NAME_OPTION THEN CountOf(args, n) + 1
                ELSE CountOf(args, n)
  <2> DEFINE k == n + 1
  <2>1. /\ k \in 1 .. k /\ \A j \in 1 .. k : j = k \/ j \in 1 .. n
        /\ \A j \in 1 .. n : j \in 1 .. k /\ j # k
    OBVIOUS
  <2>2. IsFiniteSet(FiltersOf(args, n)) /\ k \notin FiltersOf(args, n)
    BY <1>2, <2>1 DEF FiltersOf
  <2> HIDE DEF k
  <2>3. CASE args[k].name = DEFAULT_NAME_OPTION
    <3>1. FiltersOf(args, k) = FiltersOf(args, n) \cup {k}
      BY <2>1, <2>3 DEF FiltersOf
    <3>2. Cardinality(FiltersOf(args, n) \cup {k}) = Cardinality(FiltersOf(args, n)) + 1
      BY <2>2, FS_AddElement
    <3> QED BY <2>3, <3>1, <3>2 DEF CountOf, k
  <2>4. CASE args[k].name # DEFAULT_NAME_OPTION
    <3>1. FiltersOf(args, k) = FiltersOf(args, n)
      BY <2>1, <2>4 DEF FiltersOf
    <3> QED BY <2>4, <3>1 DEF CountOf, k
  <2> QED BY <2>3, <2>4
<1>4. CountOf(args, 0) = 0
  BY <1>1, FS_EmptySet DEF CountOf
<1> QED BY <1>2, <1>3, <1>4

\* The counts grow.
LEMMA CountsAre ==
    ASSUME NEW args, NEW N \in Nat
    PROVE  /\ \A n \in 0 .. N : CountOf(args, n) <= CountOf(args, N)
           /\ \A n \in 1 .. N : args[n].name = DEFAULT_NAME_OPTION =>
                                  CountOf(args, n) \in 1 .. CountOf(args, N)
<1> DEFINE c(n) == CountOf(args, n)
           P == {i \in 0 .. N : c(N - i) <= c(N)}
<1>1. \A n \in Nat : c(n) \in Nat /\ (c(n + 1) = c(n) \/ c(n + 1) = c(n) + 1)
  BY CountIs
<1>2. 0 \in P
  <2>1. N - 0 = N /\ c(N) \in Nat
    BY <1>1
  <2> HIDE DEF c
  <2> QED BY <2>1
<1>3. ASSUME NEW i \in 0 .. N, i < N, i \in P PROVE i + 1 \in P
  <2> DEFINE n == N - (i + 1)
  <2>1. n \in Nat /\ n + 1 = N - i /\ i + 1 \in 0 .. N
    BY <1>3
  <2> HIDE DEF n
  <2>2. c(n + 1) <= c(N)
    BY <1>3, <2>1
  <2>3. c(n) \in Nat /\ c(n + 1) \in Nat /\ c(N) \in Nat /\ c(n) <= c(n + 1)
    <3>1. n + 1 \in Nat
      BY <2>1
    <3> HIDE DEF c
    <3> QED BY <1>1, <2>1, <3>1
  <2>4. c(n) <= c(N)
    <3> HIDE DEF c
    <3> QED BY <2>2, <2>3
  <2> QED BY <2>1, <2>4 DEF n
<1>4. \A i \in 0 .. N : i \in P
  <2> HIDE DEF P
  <2> QED BY <1>2, <1>3, Climb
<1>5. ASSUME NEW n \in 0 .. N PROVE c(n) <= c(N)
  <2>1. N - n \in 0 .. N /\ N - (N - n) = n
    OBVIOUS
  <2>2. c(N - (N - n)) <= c(N)
    BY <1>4, <2>1
  <2> QED BY <2>1, <2>2
<1>6. ASSUME NEW n \in 1 .. N, args[n].name = DEFAULT_NAME_OPTION PROVE c(n) \in 1 .. c(N)
  <2>1. n - 1 \in Nat /\ (n - 1) + 1 = n /\ n \in 0 .. N
    OBVIOUS
  <2>2. c(n) = c(n - 1) + 1
    BY <1>6, <2>1, CountIs
  <2>3. c(n - 1) \in Nat /\ c(N) \in Nat /\ c(n) <= c(N)
    BY <1>1, <1>5, <2>1
  <2> HIDE DEF c
  <2> QED BY <2>2, <2>3
<1> QED BY <1>5, <1>6

LEMMA ListsIs ==
    ASSUME NEW args, args \in Seq(Range(args)), NEW rs \in Seq(Rows)
    PROVE  Lists(args, rs) <=>
             /\ Len(rs) = CountOf(args, Len(args))
             /\ \A i \in 1 .. Len(args) : args[i].name = DEFAULT_NAME_OPTION =>
                  /\ args[i].params \in Seq(Range(args[i].params))
                  /\ Says(args[i].params, rs[CountOf(args, i)], defaultOption)
<1>1. \A i : i \in FiltersOf(args, Len(args)) <=>
               i \in 1 .. Len(args) /\ args[i].name = DEFAULT_NAME_OPTION
  BY DEF FiltersOf
<1>2. Lists(args, rs) <=>
        /\ Len(rs) = Cardinality(FiltersOf(args, Len(args)))
        /\ \A i \in FiltersOf(args, Len(args)) :
             /\ args[i].params \in Seq(Range(args[i].params))
             /\ Says(args[i].params, rs[Cardinality(FiltersOf(args, i))], defaultOption)
  BY DEF Lists, FiltersOf
<1> QED BY <1>1, <1>2 DEF CountOf

LEMMA RowsAre ==
    ASSUME NEW args, args \in Seq(Range(args)), NEW rs \in Seq(Rows), Lists(args, rs)
    PROVE  RowsOf(args) = rs
<1> DEFINE N == Len(args)
           c(n) == CountOf(args, n)
           Upto(n) == [k \in 1 .. c(n) |-> rs[k]]
<1>1. N \in Nat /\ AreItems(args, N, args)
  BY ListOne
<1>2. /\ Len(rs) = c(N) /\ c(N) \in Nat
      /\ \A i \in 1 .. N : args[i].name = DEFAULT_NAME_OPTION =>
           /\ args[i].params \in Seq(Range(args[i].params))
           /\ Says(args[i].params, rs[c(i)], defaultOption)
  BY <1>1, ListsIs, CountIs
<1>3. ASSUME NEW i \in 1 .. N, args[i].name = DEFAULT_NAME_OPTION
      PROVE  Filled(NewRow, args[i].params, defaultOption) = rs[c(i)] /\ rs[c(i)] \in Rows
  <2>1. c(i) \in 1 .. Len(rs)
    BY <1>1, <1>2, <1>3, CountsAre
  <2>2. rs[c(i)] \in Rows
    BY <2>1
  <2>3. defaultOption \in Defs /\ NewRow \in Rows
    BY SaidAssumption, IntsAre DEF Defs, NewRow, Rows
  <2> HIDE DEF c
  <2> QED BY <1>2, <1>3, <2>2, <2>3, FilledIs
<1>4. AddsRows(N, args)
  BY <1>3 DEF AddsRows, AddRow
<1>5. PICK f : IsListing(f, args, N, RowsOf(args))
  BY <1>1, <1>4, RowsRun
<1>6. /\ f[0] = << >> /\ \A n \in 1 .. N : f[n] = AddRow(f[n - 1], args[n])
      /\ RowsOf(args) = f[N]
  BY <1>5 DEF IsListing
<1> DEFINE P == {n \in 0 .. N : f[n] = Upto(n)}
<1> HIDE DEF N
<1>7. 0 \in P
  <2>1. c(0) = 0
    BY CountIs
  <2>2. Upto(0) = << >>
    BY <2>1
  <2>3. 0 \in 0 .. N /\ f[0] = << >>
    BY <1>1, <1>6
  <2> HIDE DEF Upto
  <2> QED BY <2>2, <2>3
<1>8. ASSUME NEW n \in 0 .. N, n < N, n \in P PROVE n + 1 \in P
  <2> DEFINE i == n + 1
  <2>1. n \in Nat /\ i \in 1 .. N /\ i - 1 = n /\ i \in 0 .. N
    BY <1>1, <1>8
  <2>2. c(n) \in Nat /\ c(i) = IF args[i].name = DEFAULT_NAME_OPTION THEN c(n) + 1 ELSE c(n)
    BY <2>1, CountIs
  <2> HIDE DEF i, c
  <2>3. f[i] = AddRow(Upto(n), args[i])
    BY <1>6, <1>8, <2>1
  <2>4. CASE args[i].name = DEFAULT_NAME_OPTION
    <3>1. f[i] = Append(Upto(n), rs[c(i)])
      BY <1>3, <2>1, <2>3, <2>4 DEF AddRow
    <3>2. c(i) = c(n) + 1
      BY <2>2, <2>4
    <3>3. Append([k \in 1 .. c(n) |-> rs[k]], rs[c(n) + 1]) = [k \in 1 .. c(n) + 1 |-> rs[k]]
      <4> DEFINE m == c(n)
      <4> HIDE DEF m
      <4>1. m \in Nat
        BY <2>2 DEF m
      <4>2. Append([k \in 1 .. m |-> rs[k]], rs[m + 1]) = [k \in 1 .. m + 1 |-> rs[k]]
        <5> DEFINE u == [k \in 1 .. m |-> rs[k]]
                   w == [k \in 1 .. m + 1 |-> rs[k]]
        <5>1. u \in Seq({rs[k] : k \in 1 .. m + 1}) /\ Len(u) = m
          BY <4>1
        <5>2. w \in Seq({rs[k] : k \in 1 .. m + 1}) /\ Len(w) = m + 1
          BY <4>1
        <5>3. /\ Append(u, rs[m + 1]) \in Seq({rs[k] : k \in 1 .. m + 1})
              /\ Len(Append(u, rs[m + 1])) = m + 1
          BY <4>1, <5>1
        <5>4. \A k \in 1 .. m + 1 : Append(u, rs[m + 1])[k] = w[k]
          BY <4>1, <5>1
        <5> HIDE DEF u, w
        <5>5. Append(u, rs[m + 1]) = w
          BY <4>1, <5>2, <5>3, <5>4
        <5> QED BY <5>5 DEF u, w
      <4> QED BY <4>2 DEF m
    <3>4. f[i] = Upto(i)
      BY <3>1, <3>2, <3>3
    <3> QED BY <2>1, <3>4 DEF i
  <2>5. CASE args[i].name # DEFAULT_NAME_OPTION
    <3>1. f[i] = Upto(i)
      BY <2>2, <2>3, <2>5 DEF AddRow
    <3> QED BY <2>1, <3>1 DEF i
  <2> QED BY <2>4, <2>5
<1>9. N \in P
  <2> HIDE DEF P
  <2>1. \A n \in 0 .. N : n \in P
    BY <1>1, <1>7, <1>8, Climb
  <2> QED BY <1>1, <2>1
<1>10. Upto(N) = rs
  <2>1. rs = [k \in 1 .. Len(rs) |-> rs[k]]
    OBVIOUS
  <2> QED BY <1>2, <2>1
<1> QED BY <1>6, <1>9, <1>10

\* As many filters as rows, each saying what its row has.
LEMMA ListsAll ==
    ASSUME NEW args, args \in Seq(Range(args)), NEW rs \in Seq(Rows), Len(rs) = Len(args),
           \A i \in 1 .. Len(args) : /\ args[i].name = DEFAULT_NAME_OPTION
                                     /\ args[i].params \in Seq(Range(args[i].params))
                                     /\ Says(args[i].params, rs[i], defaultOption)
    PROVE  Lists(args, rs)
<1> DEFINE N == Len(args)
           P == {n \in 0 .. N : CountOf(args, n) = n}
<1>1. N \in Nat
  BY ListOne
<1>2. 0 \in P
  <2>1. 0 \in 0 .. N
    BY <1>1
  <2>2. CountOf(args, 0) = 0
    BY CountIs
  <2> HIDE DEF N
  <2> QED BY ONLY <2>1, <2>2 DEF P
<1>3. ASSUME NEW n \in 0 .. N, n < N, n \in P PROVE n + 1 \in P
  <2>1. n \in Nat /\ n + 1 \in 1 .. N /\ n + 1 \in 0 .. N
    BY <1>1, <1>3
  <2>2. CountOf(args, n + 1) = CountOf(args, n) + 1
    BY <2>1, CountIs
  <2> QED BY <1>3, <2>1, <2>2
<1>4. \A n \in 0 .. N : n \in P
  <2> HIDE DEF P, N
  <2> QED BY <1>1, <1>2, <1>3, Climb
<1>5. N \in 0 .. N /\ \A i \in 1 .. N : i \in 0 .. N
  BY <1>1
<1>6. CountOf(args, N) = N /\ \A i \in 1 .. N : CountOf(args, i) = i
  BY <1>4, <1>5
<1> QED BY <1>6, ListsIs
------------------------------------------------------------------------------
(***************************************************************************)
(* Rows that are as they were meant, and the options that were told.       *)
(***************************************************************************)
LEMMA MeantAsItIs == \A rs : AllAsMeant(rs, rs)
  BY DEF AllAsMeant, AsMeant

\* A row that is read from the list and shown again has another number.
ReadBack(row) == [row EXCEPT !.int = 0]

LEMMA StillAsMeant ==
    ASSUME NEW rs \in Seq(Rows), NEW ms, AllAsMeant(rs, ms)
    PROVE  AllAsMeant([i \in DOMAIN rs |-> ReadBack(rs[i])],
                      [i \in DOMAIN ms |-> WithoutNumber(ms[i])])
<1> DEFINE again == [i \in DOMAIN rs |-> ReadBack(rs[i])]
           fewer == [i \in DOMAIN ms |-> WithoutNumber(ms[i])]
<1>1. DOMAIN rs = DOMAIN ms /\ \A i \in DOMAIN ms : AsMeant(rs[i], ms[i])
  BY DEF AllAsMeant
<1>2. /\ DOMAIN again = DOMAIN rs /\ DOMAIN fewer = DOMAIN ms
      /\ \A i \in DOMAIN ms : again[i] = ReadBack(rs[i]) /\ fewer[i] = WithoutNumber(ms[i])
  BY <1>1
<1>3. ASSUME NEW row \in Rows, NEW m, AsMeant(row, m)
      PROVE  AsMeant(ReadBack(row), WithoutNumber(m))
  <2>1. DOMAIN m \subseteq DOMAIN row /\ \A name \in DOMAIN m : row[name] = m[name]
    BY <1>3 DEF AsMeant
  <2>2. /\ DOMAIN ReadBack(row) = DOMAIN row
        /\ \A name \in DOMAIN row \ {"int"} : ReadBack(row)[name] = row[name]
    BY DEF ReadBack
  <2>3. /\ DOMAIN WithoutNumber(m) = DOMAIN m \ {"int"}
        /\ \A name \in DOMAIN m \ {"int"} : WithoutNumber(m)[name] = m[name]
    BY DEF WithoutNumber
  <2> QED BY <2>1, <2>2, <2>3 DEF AsMeant
<1>4. \A i \in DOMAIN ms : rs[i] \in Rows
  BY <1>1
<1> HIDE DEF again, fewer
<1>5. \A i \in DOMAIN ms : AsMeant(again[i], fewer[i])
  BY <1>1, <1>2, <1>3, <1>4
<1>6. AllAsMeant(again, fewer)
  BY <1>1, <1>2, <1>5 DEF AllAsMeant
<1> QED BY <1>6 DEF again, fewer

LEMMA ToldOneMore ==
    ASSUME NEW m, NEW q
    PROVE  /\ Len(<< >>) = 0 /\ Append(<< >>, q) = <<q>>
           /\ Len(<<q>>) = 1 /\ Head(<<q>>) = q
           /\ Append(<<m>>, q) = <<m, q>> /\ Len(<<m, q>>) = 2
<1>1. Append(<<m>>, q) = <<m, q>>
  <2> DEFINE X == {m, q}
             u == <<m>>
             w == <<m, q>>
             a == Append(u, q)
  <2>1. u \in Seq(X) /\ Len(u) = 1 /\ u[1] = m /\ q \in X
    OBVIOUS
  <2>2. w \in Seq(X) /\ Len(w) = 2 /\ w[1] = m /\ w[2] = q
    OBVIOUS
  <2> HIDE DEF u, w, X
  <2>3. /\ a \in Seq(X) /\ Len(a) = Len(u) + 1
        /\ \A i \in 1 .. Len(u) : a[i] = u[i]
        /\ a[Len(u) + 1] = q
    BY <2>1, AppendProperties, ZenonT(60)
  <2> HIDE DEF a
  <2>4. 1 \in 1 .. Len(u) /\ Len(u) + 1 = 2
    BY <2>1
  <2>5. a \in Seq(X) /\ Len(a) = 2 /\ a[1] = w[1] /\ a[2] = w[2]
    BY <2>1, <2>2, <2>3, <2>4
  <2>6. \A i \in 1 .. 2 : i = 1 \/ i = 2
    OBVIOUS
  <2>7. \A i \in 1 .. 2 : a[i] = w[i]
    BY <2>5, <2>6
  <2>8. a = w
    BY <2>2, <2>5, <2>7
  <2> QED BY <2>8 DEF a, u, w
<1> QED BY <1>1
------------------------------------------------------------------------------
(***************************************************************************)
(* Settings and options mean what they were meant to.                      *)
(***************************************************************************)
ProcSays ==
    values \in Rows /\ (meant.proc # Nobody => values = meant.proc)

FormSays ==
    /\ hasForm => shown \in Rows
    /\ meant.form # Nobody => hasForm /\ shown = meant.form

\* Of settings that a form gave whose user has said nothing it is not known what
\* they should be, but they are all there.
SettingsSay ==
    sets.cnt # 0 =>
        \E m \in Rows : /\ Says(sets.params, m, defaultSetting)
                        /\ meant.host # Nobody => meant.host = m

OptionsSay == \E rs \in Seq(Rows) : Lists(Args, rs) /\ AllAsMeant(rs, meantRows.host)
ListShows  == rows \in Seq(Rows) /\ AllAsMeant(rows, meantRows.form)

\* What was told in addition to something else is anything.
ToldAre == \/ told = << >> /\ dynParams = << >>
           \/ \E m : told = <<m>> /\ AllAsMeant(dynParams, m)
           \/ \E m, m2 : told = <<m, m2>>

SampleRuns == ProcSays /\ FormSays /\ SettingsSay /\ OptionsSay /\ ListShows /\ ToldAre

PlugSays == values \in Chosen /\ meant.proc = values
PlugSettings == sets.cnt # 0 => meant.host \in Chosen /\ Chooses(sets.params, meant.host)
PlugForm == hasForm => shown \in Chosen
PlugRows == rows = << >> /\ meantRows.form = << >> /\ told = << >> /\ dynParams = << >>

PlugRuns == PlugSays /\ PlugSettings /\ PlugForm /\ PlugRows

Structures ==
    /\ sets = [name |-> sets.name, cnt |-> sets.cnt, params |-> sets.params]
    /\ sets.params \in Seq(Range(sets.params)) /\ sets.cnt = Len(sets.params)
    /\ opts = [cnt |-> opts.cnt, args |-> opts.args]
    /\ opts.args \in Seq(Range(opts.args)) /\ opts.cnt \in {0, Len(opts.args)}
    /\ meant = [form |-> meant.form, host |-> meant.host, proc |-> meant.proc]
    /\ meantRows = [form |-> meantRows.form, host |-> meantRows.host]

RunsInv ==
    /\ module \in {"sample", "decoder"}
    /\ Structures
    /\ IsSample => SampleRuns
    /\ IsDecoder => PlugRuns

LEMMA RunsAsMeantHolds == RunsInv => RunsAsMeant
<1> SUFFICES ASSUME RunsInv PROVE RunsAsMeant
  OBVIOUS
<1>1. CASE IsSample
  <2>1. SampleRuns
    BY <1>1 DEF RunsInv
  <2>2. /\ told = << >> => dynParams = << >>
        /\ Len(told) = 1 => AllAsMeant(dynParams, Head(told))
    <3>1. CASE told = << >> /\ dynParams = << >>
      BY <3>1, ToldOneMore
    <3>2. ASSUME NEW m, told = <<m>>, AllAsMeant(dynParams, m)
          PROVE  /\ told = << >> => dynParams = << >>
                 /\ Len(told) = 1 => AllAsMeant(dynParams, Head(told))
      <4>1. Len(<<m>>) = 1 /\ Head(<<m>>) = m /\ Len(<< >>) = 0
        BY ToldOneMore
      <4> QED BY <3>2, <4>1
    <3>3. ASSUME NEW m, NEW m2, told = <<m, m2>>
          PROVE  Len(told) # 1 /\ told # << >>
      <4>1. Len(<<m, m2>>) = 2 /\ Len(<< >>) = 0
        BY ToldOneMore
      <4> QED BY <3>3, <4>1
    <3> QED BY <2>1, <3>1, <3>2, <3>3 DEF SampleRuns, ToldAre
  <2> QED BY <2>1, <2>2 DEF SampleRuns, ProcSays, FormSays, ListShows, RunsAsMeant
<1>2. CASE ~ IsSample
  <2>1. PlugRuns
    BY <1>2 DEF RunsInv, IsSample, IsDecoder
  <2>2. Len(told) # 1
    BY <2>1, ToldOneMore DEF PlugRuns, PlugRows
  <2> QED BY <1>2, <2>1, <2>2, MeantAsItIs DEF PlugRuns, PlugSays, PlugRows, RunsAsMeant
<1> QED BY <1>1, <1>2

LEMMA NoneAre ==
    /\ << >> \in Seq(Range(<< >>)) /\ Len(<< >>) = 0 /\ Lists(<< >>, << >>) /\ << >> \in Seq(Rows)
    /\ \A defs \in Defs : \A v \in Rows : Filled(v, << >>, defs) = v
    /\ \A v \in Chosen : Applied(v, << >>) = v
<1> DEFINE e == << >>
<1>1. e \in Seq(Range(e)) /\ Len(e) = 0 /\ e \in Seq(Rows) /\ Len(e) \in Nat
  OBVIOUS
<1>2. AreItems(e, 0, e)
  BY DEF AreItems
<1> HIDE DEF e
<1>3. Lists(e, e)
  <2>1. CountOf(e, 0) = 0
    BY CountIs
  <2>2. /\ Len(e) = CountOf(e, Len(e))
        /\ \A i \in 1 .. Len(e) : e[i].name = DEFAULT_NAME_OPTION =>
             /\ e[i].params \in Seq(Range(e[i].params))
             /\ Says(e[i].params, e[CountOf(e, i)], defaultOption)
    BY <1>1, <2>1
  <2> QED BY <1>1, <2>2, ListsIs
<1>4. ASSUME NEW defs \in Defs, NEW v \in Rows PROVE Filled(v, e, defs) = v
  <2>1. PutsRows(0, e, defs)
    BY DEF PutsRows
  <2>2. PICK f : IsFilled(f, v, e, 0, defs, Filled(v, e, defs))
    BY <1>2, <2>1, FilledRun
  <2> QED BY <2>2 DEF IsFilled
<1>5. ASSUME NEW v \in Chosen PROVE Applied(v, e) = v
  <2>1. PutsChosen(0, e)
    BY DEF PutsChosen
  <2>2. PICK f : IsApplied(f, v, e, 0, Applied(v, e))
    BY <1>2, <2>1, AppliedRun
  <2> QED BY <2>2 DEF IsApplied
<1> QED BY <1>1, <1>3, <1>4, <1>5 DEF e

\* All of an array, or nothing of it, is taken.
LEMMA TakenIs ==
    ASSUME NEW s, s \in Seq(Range(s))
    PROVE  SubSeq(s, 1, 0) = << >> /\ SubSeq(s, 1, Len(s)) = s
<1>1. SubSeq(s, 1, 0) = << >>
  OBVIOUS
<1>2. SubSeq(s, 1, Len(s)) = s
  OBVIOUS
<1> QED BY <1>1, <1>2

LEMMA StructuresAre ==
    ASSUME Structures
    PROVE  /\ Params = sets.params /\ (sets.cnt = 0 => Params = << >>)
           /\ Args = IF opts.cnt = 0 THEN << >> ELSE opts.args
           /\ Args \in Seq(Range(Args))
           /\ clearModulesSettings(sets) = [name |-> sets.name, cnt |-> 0, params |-> << >>]
           /\ LET c == clearModulesOptions(opts)
              IN  /\ c = [cnt |-> 0, args |-> c.args] /\ c.args \in Seq(Range(c.args))
<1>1. /\ sets = [name |-> sets.name, cnt |-> sets.cnt, params |-> sets.params]
      /\ sets.params \in Seq(Range(sets.params)) /\ sets.cnt = Len(sets.params)
      /\ opts = [cnt |-> opts.cnt, args |-> opts.args]
      /\ opts.args \in Seq(Range(opts.args)) /\ opts.cnt \in {0, Len(opts.args)}
  BY DEF Structures
<1>2. Params = sets.params
  BY <1>1, TakenIs DEF Params
<1>3. sets.cnt = 0 => sets.params = << >>
  BY <1>2, TakenIs, <1>1 DEF Params
<1>4. Args = IF opts.cnt = 0 THEN << >> ELSE opts.args
  BY <1>1, TakenIs DEF Args
<1>5. Args \in Seq(Range(Args))
  BY <1>1, <1>4, NoneAre
<1>6. clearModulesSettings(sets) = [name |-> sets.name, cnt |-> 0, params |-> << >>]
  BY <1>1, <1>3 DEF clearModulesSettings
<1>7. LET c == clearModulesOptions(opts)
      IN  /\ c = [cnt |-> 0, args |-> c.args] /\ c.args \in Seq(Range(c.args))
  <2>1. CASE opts.cnt = 0
    BY <1>1, <2>1 DEF clearModulesOptions
  <2>2. CASE opts.cnt # 0
    <3>1. clearModulesOptions(opts) = [cnt |-> 0, args |-> << >>]
      BY <1>1, <2>2 DEF clearModulesOptions
    <3> QED BY <3>1, NoneAre
  <2> QED BY <2>1, <2>2
<1> QED BY <1>2, <1>3, <1>4, <1>5, <1>6, <1>7

\* What the settings do to what the sample has, and to what it should have.
LEMMA SampleFills ==
    ASSUME Structures, SettingsSay, NEW v \in Rows, NEW old, old # Nobody => v = old
    PROVE  LET w == Filled(v, Params, defaultSetting)
           IN  w \in Rows /\ (MeantUnlessNone(old) # Nobody => w = MeantUnlessNone(old))
<1> DEFINE w == Filled(v, Params, defaultSetting)
<1>1. defaultSetting \in Defs
  BY DEF Defs
<1>2. CASE sets.cnt = 0
  <2>1. w = v
    BY <1>1, <1>2, NoneAre, StructuresAre
  <2> QED BY <1>2, <2>1 DEF MeantUnlessNone
<1>3. CASE sets.cnt # 0
  <2>1. PICK m \in Rows : /\ Says(sets.params, m, defaultSetting)
                          /\ meant.host # Nobody => meant.host = m
    BY <1>3 DEF SettingsSay
  <2>2. Params = sets.params /\ sets.params \in Seq(Range(sets.params))
    BY StructuresAre DEF Structures
  <2>3. w = m
    BY <1>1, <2>1, <2>2, FilledIs
  <2> QED BY <1>3, <2>1, <2>3 DEF MeantUnlessNone
<1> QED BY <1>2, <1>3

LEMMA PlugApplies ==
    ASSUME Structures, PlugSettings, NEW v \in Chosen
    PROVE  Applied(v, Params) \in Chosen /\ Applied(v, Params) = MeantUnlessNone(v)
<1>1. CASE sets.cnt = 0
  <2>1. Applied(v, Params) = v
    BY <1>1, NoneAre, StructuresAre
  <2> QED BY <1>1, <2>1 DEF MeantUnlessNone
<1>2. CASE sets.cnt # 0
  <2>1. /\ meant.host \in Chosen /\ Chooses(sets.params, meant.host)
        /\ Params = sets.params /\ sets.params \in Seq(Range(sets.params))
    BY <1>2, StructuresAre DEF Structures, PlugSettings
  <2>2. Applied(v, Params) = meant.host
    BY <2>1, AppliedIs
  <2> QED BY <1>2, <2>1, <2>2 DEF MeantUnlessNone
<1> QED BY <1>1, <1>2

LEMMA HistorySet ==
    ASSUME Structures
    PROVE  /\ \A x : [meant EXCEPT !.host = x] =
                      [form |-> meant.form, host |-> x, proc |-> meant.proc]
           /\ \A x : [meant EXCEPT !.form = x] =
                      [form |-> x, host |-> meant.host, proc |-> meant.proc]
           /\ \A x : [meant EXCEPT !.proc = x] =
                      [form |-> meant.form, host |-> meant.host, proc |-> x]
           /\ \A x : [meantRows EXCEPT !.host = x] = [form |-> meantRows.form, host |-> x]
           /\ \A x : [meantRows EXCEPT !.form = x] = [form |-> x, host |-> meantRows.host]
<1>1. /\ meant = [form |-> meant.form, host |-> meant.host, proc |-> meant.proc]
      /\ meantRows = [form |-> meantRows.form, host |-> meantRows.host]
  BY DEF Structures
<1> QED BY <1>1

runVars == <<module, hasForm, shown, values, dynParams, told, rows, sets, opts, meant, meantRows>>

LEMMA RunsStutter ==
    ASSUME RunsInv, UNCHANGED runVars PROVE RunsInv'
<1>1. Structures'
  BY DEF RunsInv, runVars, Structures
<1>2. IsSample' => SampleRuns'
  BY DEF RunsInv, runVars, IsSample, SampleRuns, ProcSays, FormSays, SettingsSay, OptionsSay,
         ListShows, ToldAre, Args
<1>3. IsDecoder' => PlugRuns'
  BY DEF RunsInv, runVars, IsDecoder, PlugRuns, PlugSays, PlugSettings, PlugForm, PlugRows
<1> QED BY <1>1, <1>2, <1>3 DEF RunsInv, runVars

LEMMA RunsInit == Init => RunsInv
<1> SUFFICES ASSUME Init PROVE RunsInv
  OBVIOUS
<1>1. module \in {"sample", "decoder"}
  BY DEF Init
<1>2. sets = NoSettings /\ opts = NoOptions
  BY DEF Init
<1>3. meant.form = Nobody /\ meant.host = Nobody /\ meantRows.form = << >> /\ meantRows.host = << >>
  BY DEF Init
<1>4. Structures
  <2>1. /\ meant = [form |-> meant.form, host |-> meant.host, proc |-> meant.proc]
        /\ meantRows = [form |-> meantRows.form, host |-> meantRows.host]
    BY DEF Init
  <2> QED BY <1>2, <2>1, NoneAre DEF NoSettings, NoOptions, Structures
<1>5. Args = << >>
  BY <1>2, <1>4, StructuresAre DEF NoOptions
<1>6. ASSUME IsSample PROVE SampleRuns
  <2>1. ProcSays
    <3>1. Designed \in Rows
      BY SaidAssumption, IntsAre DEF Designed, Rows
    <3> QED BY <1>6, <3>1 DEF Init, ProcSays
  <2>2. FormSays
    BY <1>3 DEF Init, FormSays
  <2>3. SettingsSay
    BY <1>2 DEF NoSettings, SettingsSay
  <2>4. OptionsSay
    BY <1>3, <1>5, NoneAre, MeantAsItIs DEF OptionsSay
  <2>5. ListShows
    BY <1>3, NoneAre, MeantAsItIs DEF Init, ListShows
  <2>6. ToldAre
    BY DEF Init, ToldAre
  <2> QED BY <2>1, <2>2, <2>3, <2>4, <2>5, <2>6 DEF SampleRuns
<1>7. ASSUME IsDecoder PROVE PlugRuns
  <2>1. ~ IsSample
    BY <1>7 DEF IsSample, IsDecoder
  <2>2. PlugSays
    <3>1. AllSentences \in Chosen
      BY DEF AllSentences, Chosen
    <3> QED BY <2>1, <3>1 DEF Init, PlugSays
  <2>3. PlugSettings /\ PlugForm /\ PlugRows
    <3>1. PlugSettings
      BY <1>2 DEF PlugSettings, NoSettings
    <3>2. PlugForm
      BY DEF Init, PlugForm
    <3>3. PlugRows
      BY <1>3 DEF Init, PlugRows
    <3> QED BY <3>1, <3>2, <3>3
  <2> QED BY <2>2, <2>3 DEF PlugRuns
<1> QED BY <1>1, <1>4, <1>6, <1>7 DEF RunsInv
------------------------------------------------------------------------------
(***************************************************************************)
(* The calls, one by one.                                                  *)
(***************************************************************************)
LEMMA LoadSchemeRuns ==
    ASSUME RunsInv, NEW s \in Schemes[module], LoadScheme(s)
    PROVE  RunsInv'
<1>1. module \in {"sample", "decoder"} /\ Structures
  BY DEF RunsInv
<1>2. IsFilledSettings(s.sets) /\ IsFilledOptions(s.opts) /\ IsSaid(module, s)
  BY <1>1, HostAssumption, SaidAssumption
<1>3. /\ sets' = s.sets /\ opts' = s.opts
      /\ meant' = [form |-> meant.form, host |-> s.means, proc |-> meant.proc]
      /\ meantRows' = [form |-> meantRows.form, host |-> s.rows]
  BY <1>1, HistorySet DEF LoadScheme
<1>4. /\ module' = module /\ hasForm' = hasForm /\ shown' = shown /\ rows' = rows
      /\ values' = values /\ dynParams' = dynParams /\ told' = told
  BY DEF LoadScheme, const, formVars, procVars
<1>5. /\ s.sets.params \in Seq(Range(s.sets.params)) /\ s.sets.cnt = Len(s.sets.params)
      /\ s.opts.args \in Seq(Range(s.opts.args)) /\ s.opts.cnt = Len(s.opts.args)
  BY <1>2 DEF IsSaid
<1>6. Structures'
  BY <1>2, <1>3, <1>5 DEF Structures, IsFilledSettings, IsFilledOptions
<1>7. ASSUME IsSample PROVE SampleRuns'
  <2>1. SampleRuns
    BY <1>7 DEF RunsInv
  <2>2. /\ s.means \in Rows /\ Says(s.sets.params, s.means, defaultSetting)
        /\ s.rows \in Seq(Rows) /\ Lists(s.opts.args, s.rows)
    BY <1>2, <1>7 DEF IsSaid, IsSample
  <2>3. ProcSays' /\ FormSays' /\ ListShows' /\ ToldAre'
    BY <1>3, <1>4, <2>1 DEF SampleRuns, ProcSays, FormSays, ListShows, ToldAre
  <2>4. SettingsSay'
    BY <1>3, <2>2 DEF SettingsSay
  <2>5. OptionsSay'
    <3>1. Args' = s.opts.args
      BY <1>3, <1>5, TakenIs DEF Args
    <3> QED BY <1>3, <2>2, <3>1, MeantAsItIs DEF OptionsSay
  <2> QED BY <2>3, <2>4, <2>5 DEF SampleRuns
<1>8. ASSUME IsDecoder PROVE PlugRuns'
  <2>1. PlugRuns
    BY <1>8 DEF RunsInv
  <2>2. s.means \in Chosen /\ Chooses(s.sets.params, s.means)
    BY <1>2, <1>8 DEF IsSaid, IsDecoder
  <2> QED BY <1>3, <1>4, <2>1, <2>2 DEF PlugRuns, PlugSays, PlugSettings, PlugForm, PlugRows
<1> QED BY <1>1, <1>4, <1>6, <1>7, <1>8 DEF RunsInv, IsSample, IsDecoder

LEMMA FreeRuns == ASSUME RunsInv, Free PROVE RunsInv'
<1>1. /\ module' = module /\ hasForm' = hasForm /\ shown' = shown /\ rows' = rows
      /\ values' = values /\ dynParams' = << >> /\ told' = << >>
      /\ sets' = sets /\ opts' = opts /\ meant' = meant /\ meantRows' = meantRows
  BY DEF Free, const, formVars, hostVars, history
<1>2. Structures'
  BY <1>1 DEF RunsInv, Structures
<1>3. ASSUME IsSample PROVE SampleRuns'
  <2>1. SampleRuns
    BY <1>3 DEF RunsInv
  <2>2. ProcSays' /\ FormSays' /\ SettingsSay' /\ OptionsSay' /\ ListShows'
    BY <1>1, <2>1 DEF SampleRuns, ProcSays, FormSays, SettingsSay, OptionsSay, ListShows, Args
  <2>3. ToldAre'
    BY <1>1 DEF ToldAre
  <2> QED BY <2>2, <2>3 DEF SampleRuns
<1>4. IsSample /\ ~ IsDecoder
  BY DEF Free, IsSample, IsDecoder
<1> QED BY <1>1, <1>2, <1>3, <1>4 DEF RunsInv, IsSample, IsDecoder

LEMMA FormRuns ==
    ASSUME RunsInv, CreateForm \/ DestroyForm \/ \E v \in Edits : Edit(v)
    PROVE  RunsInv'
<1>1. /\ module' = module /\ values' = values /\ dynParams' = dynParams /\ told' = told
      /\ sets' = sets /\ opts' = opts
  BY DEF CreateForm, DestroyForm, Edit, const, formVars, procVars, hostVars, history
<1>2. Structures
  BY DEF RunsInv
<1>3. CASE CreateForm
  <2>1. rows' = rows /\ meant' = meant /\ meantRows' = meantRows /\ ~ hasForm
    BY <1>3 DEF CreateForm, history
  <2>2. Structures'
    BY <1>1, <1>2, <2>1 DEF Structures
  <2>3. ASSUME IsSample PROVE SampleRuns'
    <3>1. SampleRuns /\ ~ IsDecoder
      BY <2>3 DEF RunsInv, IsSample, IsDecoder
    <3>2. shown' \in Rows
      <4>1. Designed \in Rows
        BY SaidAssumption, IntsAre DEF Designed, Rows
      <4> QED BY <1>3, <3>1, <4>1 DEF CreateForm
    <3>3. FormSays'
      BY <2>1, <3>1, <3>2 DEF SampleRuns, FormSays
    <3>4. ProcSays' /\ SettingsSay' /\ OptionsSay' /\ ListShows' /\ ToldAre'
      BY <1>1, <2>1, <3>1
      DEF SampleRuns, ProcSays, SettingsSay, OptionsSay, ListShows, ToldAre, Args
    <3> QED BY <3>3, <3>4 DEF SampleRuns
  <2>4. ASSUME IsDecoder PROVE PlugRuns'
    <3>1. PlugRuns /\ ~ IsSample
      BY <2>4 DEF RunsInv, IsSample, IsDecoder
    <3>2. shown' = values
      BY <1>3, <3>1 DEF CreateForm
    <3> QED BY <1>1, <2>1, <3>1, <3>2
        DEF PlugRuns, PlugSays, PlugSettings, PlugForm, PlugRows
  <2> QED BY <1>1, <2>2, <2>3, <2>4 DEF RunsInv, IsSample, IsDecoder
<1>4. CASE DestroyForm
  <2>1. /\ rows' = << >> /\ hasForm' = FALSE
        /\ meant' = [form |-> Nobody, host |-> meant.host, proc |-> meant.proc]
        /\ meantRows' = [form |-> << >>, host |-> meantRows.host]
    BY <1>2, <1>4, HistorySet DEF DestroyForm
  <2>2. Structures'
    BY <1>1, <1>2, <2>1 DEF Structures
  <2>3. ASSUME IsSample PROVE SampleRuns'
    <3>1. SampleRuns
      BY <2>3 DEF RunsInv
    <3>2. FormSays' /\ ListShows'
      BY <2>1, NoneAre, MeantAsItIs DEF FormSays, ListShows
    <3>3. ProcSays' /\ SettingsSay' /\ OptionsSay' /\ ToldAre'
      BY <1>1, <2>1, <3>1 DEF SampleRuns, ProcSays, SettingsSay, OptionsSay, ToldAre, Args
    <3> QED BY <3>2, <3>3 DEF SampleRuns
  <2>4. ASSUME IsDecoder PROVE PlugRuns'
    <3>1. PlugRuns
      BY <2>4 DEF RunsInv
    <3> QED BY <1>1, <2>1, <3>1 DEF PlugRuns, PlugSays, PlugSettings, PlugForm, PlugRows
  <2> QED BY <1>1, <2>2, <2>3, <2>4 DEF RunsInv, IsSample, IsDecoder
<1>5. ASSUME NEW v \in Edits, Edit(v) PROVE RunsInv'
  <2>1. /\ rows' = rows /\ hasForm /\ hasForm' = hasForm /\ shown' = v
        /\ meant' = [form |-> v, host |-> meant.host, proc |-> meant.proc]
        /\ meantRows' = meantRows
    BY <1>2, <1>5, HistorySet DEF Edit
  <2>2. Structures'
    BY <1>1, <1>2, <2>1 DEF Structures
  <2>3. v \in Rows
    BY SaidAssumption
  <2>4. SampleRuns /\ ~ IsDecoder /\ IsSample
    BY <1>5 DEF Edit, RunsInv, IsSample, IsDecoder
  <2>5. FormSays'
    BY <2>1, <2>3 DEF FormSays
  <2>6. ProcSays' /\ SettingsSay' /\ OptionsSay' /\ ListShows' /\ ToldAre'
    BY <1>1, <2>1, <2>4
    DEF SampleRuns, ProcSays, SettingsSay, OptionsSay, ListShows, ToldAre, Args
  <2>7. SampleRuns'
    BY <2>5, <2>6 DEF SampleRuns
  <2> QED BY <1>1, <2>2, <2>4, <2>7 DEF RunsInv, IsSample, IsDecoder
<1> QED BY <1>3, <1>4, <1>5

LEMMA ClickRuns ==
    ASSUME RunsInv, ClickCoordinates \/ \E f \in {"all", "nmea", "ais"} : ClickFilter(f)
    PROVE  RunsInv'
<1>1. /\ module' = module /\ hasForm' = hasForm /\ rows' = rows /\ hasForm
      /\ dynParams' = dynParams /\ told' = told
      /\ sets' = sets /\ opts' = opts /\ meantRows' = meantRows
  BY DEF ClickCoordinates, ClickFilter, const, hostVars
<1>2. Structures /\ IsDecoder /\ ~ IsSample /\ PlugRuns
  BY DEF RunsInv, ClickCoordinates, ClickFilter, IsSample, IsDecoder
<1>3. values \in Chosen /\ meant.proc = values /\ shown \in Chosen
  BY <1>1, <1>2 DEF PlugRuns, PlugSays, PlugForm
<1>4. values' \in Chosen /\ shown' \in Chosen
      /\ meant' = [form |-> meant.form, host |-> meant.host, proc |-> values']
  <2>0. meant = [form |-> meant.form, host |-> meant.host, proc |-> meant.proc]
    BY <1>2 DEF Structures
  <2>1. CASE ClickCoordinates
    <3>1. shown' = [shown EXCEPT !.coordinatesOnly = ~ shown.coordinatesOnly]
      BY <2>1 DEF ClickCoordinates
    <3>2. shown' \in Chosen /\ shown'.coordinatesOnly \in BOOLEAN
      BY <1>3, <3>1 DEF Chosen
    <3>3. values' = [values EXCEPT !.coordinatesOnly = shown'.coordinatesOnly]
      BY <2>1 DEF ClickCoordinates
    <3>4. values' \in Chosen
      BY <1>3, <3>2, <3>3 DEF Chosen
    <3>5. meant' = [meant EXCEPT !.proc.coordinatesOnly = shown'.coordinatesOnly]
      BY <2>1 DEF ClickCoordinates
    <3>6. meant' = [meant EXCEPT !.proc =
                       [meant.proc EXCEPT !.coordinatesOnly = shown'.coordinatesOnly]]
      BY <2>0, <3>5
    <3> QED BY <1>2, <1>3, <3>2, <3>3, <3>4, <3>6, HistorySet
  <2>2. ASSUME NEW f \in {"all", "nmea", "ais"}, ClickFilter(f)
        PROVE  /\ values' \in Chosen /\ shown' \in Chosen
               /\ meant' = [form |-> meant.form, host |-> meant.host, proc |-> values']
    <3>1. values' = [values EXCEPT !.filter = f] /\ shown' = values'
      BY <2>2 DEF ClickFilter
    <3>2. values' \in Chosen
      BY <1>3, <3>1 DEF Chosen
    <3>3. meant' = [meant EXCEPT !.proc.filter = f]
      BY <2>2 DEF ClickFilter
    <3>4. meant' = [meant EXCEPT !.proc = [meant.proc EXCEPT !.filter = f]]
      BY <2>0, <3>3
    <3> QED BY <1>2, <1>3, <3>1, <3>2, <3>4, HistorySet
  <2> QED BY <2>1, <2>2
<1>5. Structures'
  BY <1>1, <1>2, <1>4 DEF Structures
<1>6. PlugRuns'
  BY <1>1, <1>2, <1>4 DEF PlugRuns, PlugSays, PlugSettings, PlugForm, PlugRows
<1> QED BY <1>1, <1>2, <1>5, <1>6 DEF RunsInv, IsSample, IsDecoder

LEMMA DefaultsRuns ==
    ASSUME RunsInv, getDefaultModuleParams
    PROVE  RunsInv'
<1>1. /\ module' = module /\ hasForm' = hasForm /\ shown' = shown /\ rows' = rows
      /\ values' = values /\ dynParams' = dynParams /\ told' = told
  BY DEF getDefaultModuleParams, const, formVars, procVars
<1>2. Structures
  BY DEF RunsInv
<1>3. /\ meant' = [form |-> meant.form, host |-> Defaults, proc |-> meant.proc]
      /\ meantRows' = [form |-> meantRows.form, host |-> DefaultRows]
  BY <1>2, HistorySet DEF getDefaultModuleParams
<1>4. CASE IsSample
  <2> DEFINE a == getDefaultModuleSettings(DEFAULT_NAME_OPTION, defaultOption)
             args == <<a>>
             rs == <<DefaultLine(TRUE)>>
  <2>1. SampleRuns /\ ~ IsDecoder
    BY <1>4 DEF RunsInv, IsSample, IsDecoder
  <2>2. defaultSetting \in Defs /\ defaultOption \in Defs
    BY DEF Defs
  <2>3. sets' = [name |-> "Main settings", cnt |-> 3, params |-> defaultSetting]
    BY <1>4, <2>2, DefsAre DEF getDefaultModuleParams, getDefaultModuleSettings
  <2>4. opts' = [cnt |-> 1, args |-> args]
    BY <1>4 DEF getDefaultModuleParams
  <2>5. a.name = DEFAULT_NAME_OPTION /\ a.params = defaultOption
    BY DEF getDefaultModuleSettings
  <2>6. Defaults = DefaultLine(FALSE) /\ DefaultRows = rs
    BY <1>4 DEF Defaults, DefaultRows, DefaultLine
  <2>7. rs \in Seq(Rows) /\ Len(rs) = 1 /\ rs[1] = DefaultLine(TRUE)
    <3> DEFINE x == DefaultLine(TRUE)
    <3>1. x \in Rows
      BY DefaultsSay
    <3> HIDE DEF x
    <3>2. <<x>> \in Seq(Rows) /\ Len(<<x>>) = 1 /\ <<x>>[1] = x
      BY <3>1
    <3> QED BY <3>2 DEF x
  <2> HIDE DEF a, rs
  <2>8. Len(args) = 1 /\ args[1] = a /\ args \in Seq({a}) /\ DOMAIN args = 1 .. 1
    OBVIOUS
  <2>9. 1 \in 1 .. 1 /\ \A i \in 1 .. 1 : i = 1
    OBVIOUS
  <2> HIDE DEF args
  <2>10. Range(args) = {a}
    BY <2>8, <2>9 DEF Range
  <2>11. Lists(args, rs)
    <3>1. \A i \in 1 .. Len(args) : /\ args[i].name = DEFAULT_NAME_OPTION
                                    /\ args[i].params \in Seq(Range(args[i].params))
                                    /\ Says(args[i].params, rs[i], defaultOption)
      BY <2>2, <2>5, <2>7, <2>8, <2>9, DefsAre, DefaultsSay
    <3> QED BY <2>7, <2>8, <2>10, <3>1, ListsAll
  <2>12. Structures'
    BY <1>3, <2>2, <2>3, <2>4, <2>8, <2>10, DefsAre DEF Structures
  <2>13. SettingsSay'
    BY <1>3, <2>3, <2>6, DefaultsSay DEF SettingsSay
  <2>14. OptionsSay'
    <3>1. Args' = args
      BY <2>4, <2>8, <2>10, TakenIs DEF Args
    <3> QED BY <1>3, <2>6, <2>7, <2>11, <3>1, MeantAsItIs DEF OptionsSay
  <2>15. ProcSays' /\ FormSays' /\ ListShows' /\ ToldAre'
    BY <1>1, <1>3, <2>1 DEF SampleRuns, ProcSays, FormSays, ListShows, ToldAre
  <2>16. SampleRuns'
    BY <2>13, <2>14, <2>15 DEF SampleRuns
  <2> QED BY <1>1, <1>4, <2>1, <2>12, <2>16 DEF RunsInv, IsSample, IsDecoder
<1>5. CASE IsDecoder
  <2>1. PlugRuns /\ ~ IsSample
    BY <1>5 DEF RunsInv, IsSample, IsDecoder
  <2>2. sets' = Printed(AllSentences) /\ opts' = NoOptions
    BY <2>1 DEF getDefaultModuleParams
  <2>3. AllSentences \in Chosen /\ Defaults = AllSentences
    BY <2>1 DEF AllSentences, Chosen, Defaults
  <2>4. Structures'
    <3>1. sets' = [name |-> sets'.name, cnt |-> sets'.cnt, params |-> sets'.params]
      BY <2>2 DEF Printed
    <3> QED BY <1>3, <2>2, <2>3, <3>1, PrintedChooses, NoneAre DEF Structures, NoOptions
  <2>5. PlugSettings'
    BY <1>3, <2>2, <2>3, PrintedChooses DEF PlugSettings
  <2>6. PlugSays' /\ PlugForm' /\ PlugRows'
    BY <1>1, <1>3, <2>1 DEF PlugRuns, PlugSays, PlugForm, PlugRows
  <2> QED BY <1>1, <1>5, <2>1, <2>4, <2>5, <2>6 DEF RunsInv, PlugRuns, IsSample, IsDecoder
<1> QED BY <1>4, <1>5 DEF RunsInv, IsSample, IsDecoder

LEMMA SampleParamsSay ==
    ASSUME hasForm => shown \in Rows
    PROVE  LET m == IF hasForm THEN shown ELSE DefaultLine(FALSE)
           IN  /\ m \in Rows /\ Says(SampleParams, m, defaultSetting)
               /\ Len(SampleParams) = 3 /\ SampleParams \in Seq(Range(SampleParams))
<1>1. defaultSetting \in Defs
  BY DEF Defs
<1>2. SampleParams = IF hasForm THEN Written(shown, defaultSetting) ELSE defaultSetting
  BY DEF SampleParams, Written, getDefaultModuleSettings
<1>3. CASE hasForm
  BY <1>1, <1>2, <1>3, WrittenSays
<1>4. CASE ~ hasForm
  BY <1>1, <1>2, <1>4, DefsAre, DefaultsSay
<1> QED BY <1>3, <1>4

LEMMA SettingRuns ==
    ASSUME RunsInv, getModuleParamsSetting
    PROVE  RunsInv'
<1>1. /\ module' = module /\ hasForm' = hasForm /\ shown' = shown /\ rows' = rows
      /\ values' = values /\ dynParams' = dynParams /\ told' = told
      /\ opts' = opts /\ meantRows' = meantRows
  BY DEF getModuleParamsSetting, const, formVars, procVars
<1>2. Structures
  BY DEF RunsInv
<1>3. meant' = [form |-> meant.form,
                host |-> IF IsDecoder THEN meant.proc
                         ELSE IF hasForm THEN meant.form ELSE Defaults,
                proc |-> meant.proc]
  BY <1>2, HistorySet DEF getModuleParamsSetting
<1>4. CASE IsSample
  <2>1. SampleRuns /\ ~ IsDecoder
    BY <1>4 DEF RunsInv, IsSample, IsDecoder
  <2>2. sets' = [name |-> "Main settings", cnt |-> 3, params |-> SampleParams]
    BY <1>4 DEF getModuleParamsSetting
  <2> DEFINE m == IF hasForm THEN shown ELSE DefaultLine(FALSE)
  <2>3. /\ m \in Rows /\ Says(SampleParams, m, defaultSetting)
        /\ Len(SampleParams) = 3 /\ SampleParams \in Seq(Range(SampleParams))
    BY <2>1, SampleParamsSay DEF SampleRuns, FormSays
  <2>4. meant'.host # Nobody => meant'.host = m
    <3>1. CASE hasForm
      BY <1>3, <2>1, <3>1 DEF SampleRuns, FormSays
    <3>2. CASE ~ hasForm
      BY <1>3, <1>4, <2>1, <3>2 DEF Defaults, DefaultLine
    <3> QED BY <3>1, <3>2
  <2> HIDE DEF m
  <2>5. Structures'
    BY <1>1, <1>2, <1>3, <2>2, <2>3 DEF Structures
  <2>6. SettingsSay'
    BY <2>2, <2>3, <2>4 DEF SettingsSay
  <2>7. ProcSays' /\ FormSays' /\ OptionsSay' /\ ListShows' /\ ToldAre'
    BY <1>1, <1>3, <2>1 DEF SampleRuns, ProcSays, FormSays, OptionsSay, ListShows, ToldAre, Args
  <2>8. SampleRuns'
    BY <2>6, <2>7 DEF SampleRuns
  <2> QED BY <1>1, <1>4, <2>1, <2>5, <2>8 DEF RunsInv, IsSample, IsDecoder
<1>5. CASE IsDecoder
  <2>1. PlugRuns /\ ~ IsSample
    BY <1>5 DEF RunsInv, IsSample, IsDecoder
  <2>2. sets' = Printed(values) /\ values \in Chosen /\ meant'.host = values
    BY <1>3, <1>5, <2>1 DEF getModuleParamsSetting, PlugRuns, PlugSays
  <2>3. Structures'
    <3>1. sets' = [name |-> sets'.name, cnt |-> sets'.cnt, params |-> sets'.params]
      BY <2>2 DEF Printed
    <3>2. /\ opts' = [cnt |-> opts'.cnt, args |-> opts'.args]
          /\ opts'.args \in Seq(Range(opts'.args)) /\ opts'.cnt \in {0, Len(opts'.args)}
          /\ meantRows' = [form |-> meantRows'.form, host |-> meantRows'.host]
      BY <1>1, <1>2 DEF Structures
    <3>3. sets'.cnt = Len(sets'.params) /\ sets'.params \in Seq(Range(sets'.params))
      BY <2>2, PrintedChooses
    <3>4. meant' = [form |-> meant'.form, host |-> meant'.host, proc |-> meant'.proc]
      BY <1>3
    <3> QED BY <3>1, <3>2, <3>3, <3>4 DEF Structures
  <2>4. PlugSettings'
    BY <2>2, PrintedChooses DEF PlugSettings
  <2>5. PlugSays' /\ PlugForm' /\ PlugRows'
    BY <1>1, <1>3, <2>1 DEF PlugRuns, PlugSays, PlugForm, PlugRows
  <2> QED BY <1>1, <1>5, <2>1, <2>3, <2>4, <2>5 DEF RunsInv, PlugRuns, IsSample, IsDecoder
<1> QED BY <1>4, <1>5 DEF RunsInv, IsSample, IsDecoder

\* The rows of the list, read again.
LEMMA RowsReadAgain ==
    ASSUME NEW rs \in Seq(Rows)
    PROVE  LET args == [i \in DOMAIN rs |-> RowRead(rs[i])]
               again == [i \in DOMAIN rs |-> ReadBack(rs[i])]
           IN  /\ args \in Seq(Range(args)) /\ Len(args) = Len(rs)
               /\ again \in Seq(Rows) /\ Lists(args, again)
<1> DEFINE args == [i \in DOMAIN rs |-> RowRead(rs[i])]
           again == [i \in DOMAIN rs |-> ReadBack(rs[i])]
           N == Len(rs)
<1>1. N \in Nat /\ DOMAIN rs = 1 .. N /\ \A i \in 1 .. N : rs[i] \in Rows
  OBVIOUS
<1>2. ASSUME NEW row \in Rows
      PROVE  /\ ReadBack(row) \in Rows /\ RowRead(row).name = DEFAULT_NAME_OPTION
             /\ RowRead(row).params \in Seq(Range(RowRead(row).params))
             /\ Says(RowRead(row).params, ReadBack(row), defaultOption)
  <2>1. defaultOption \in Defs
    BY DEF Defs
  <2>2. ReadBack(row) = [str |-> row.str, bool |-> row.bool, int |-> 0] /\ ReadBack(row) \in Rows
    BY RowSet, IntsAre DEF ReadBack, Rows
  <2>3. RowRead(row).name = DEFAULT_NAME_OPTION
        /\ RowRead(row).params = Written(ReadBack(row), defaultOption)
    BY <2>2 DEF RowRead, Written
  <2> QED BY <2>1, <2>2, <2>3, WrittenSays
<1> HIDE DEF N
<1>3. /\ args = [i \in 1 .. N |-> RowRead(rs[i])] /\ again = [i \in 1 .. N |-> ReadBack(rs[i])]
  BY <1>1
<1>4. /\ DOMAIN args = 1 .. N /\ DOMAIN again = 1 .. N
      /\ \A i \in 1 .. N : args[i] = RowRead(rs[i]) /\ again[i] = ReadBack(rs[i])
  BY <1>3
<1>5. args \in Seq(Range(args)) /\ Len(args) = N
  <2> DEFINE w == [i \in 1 .. N |-> RowRead(rs[i])]
  <2>1. w \in Seq({w[i] : i \in 1 .. N}) /\ Len(w) = N
    BY <1>1
  <2>2. Range(w) = {w[i] : i \in 1 .. N}
    BY DEF Range
  <2> QED BY <1>3, <2>1, <2>2
<1>6. again \in Seq(Rows) /\ Len(again) = N
  <2>1. \A i \in 1 .. N : ReadBack(rs[i]) \in Rows
    BY <1>1, <1>2
  <2> QED BY <1>1, <1>3, <2>1
<1> HIDE DEF args, again
<1>7. Lists(args, again)
  <2>1. \A i \in 1 .. Len(args) : /\ args[i].name = DEFAULT_NAME_OPTION
                                  /\ args[i].params \in Seq(Range(args[i].params))
                                  /\ Says(args[i].params, again[i], defaultOption)
    BY <1>1, <1>2, <1>4, <1>5
  <2> QED BY <1>5, <1>6, <2>1, ListsAll
<1> QED BY <1>5, <1>6, <1>7 DEF args, again, N

LEMMA OptionsRuns ==
    ASSUME RunsInv, getModuleParamsOptions
    PROVE  RunsInv'
<1>1. /\ module' = module /\ hasForm' = hasForm /\ shown' = shown /\ rows' = rows
      /\ values' = values /\ dynParams' = dynParams /\ told' = told
      /\ sets' = sets /\ meant' = meant
  BY DEF getModuleParamsOptions, const, formVars, procVars
<1>2. Structures
  BY DEF RunsInv
<1>3. meantRows' = [form |-> meantRows.form,
                    host |-> [i \in DOMAIN meantRows.form |-> WithoutNumber(meantRows.form[i])]]
  BY <1>2, HistorySet DEF getModuleParamsOptions
<1>4. opts' = [cnt |-> Len(rows),
               args |-> IF IsDecoder THEN << >>
                        ELSE IF Len(rows) = 0 THEN GivenOpts.args
                        ELSE [i \in DOMAIN rows |-> RowRead(rows[i])]]
  BY DEF getModuleParamsOptions
<1>5. CASE IsSample
  <2>1. SampleRuns /\ ~ IsDecoder
    BY <1>5 DEF RunsInv, IsSample, IsDecoder
  <2> DEFINE args == [i \in DOMAIN rows |-> RowRead(rows[i])]
             again == [i \in DOMAIN rows |-> ReadBack(rows[i])]
  <2>2. rows \in Seq(Rows) /\ AllAsMeant(again, meantRows'.host)
    <3>1. rows \in Seq(Rows) /\ AllAsMeant(rows, meantRows.form)
      BY <2>1 DEF SampleRuns, ListShows
    <3>2. meantRows'.host = [i \in DOMAIN meantRows.form |-> WithoutNumber(meantRows.form[i])]
      BY <1>3
    <3> QED BY <3>1, <3>2, StillAsMeant
  <2>3. /\ args \in Seq(Range(args)) /\ Len(args) = Len(rows)
        /\ again \in Seq(Rows) /\ Lists(args, again)
    BY <2>2, RowsReadAgain
  <2>4. GivenOpts.args \in Seq(Range(GivenOpts.args))
    BY <1>2, StructuresAre DEF GivenOpts, Structures
  <2>5. opts' = [cnt |-> Len(rows), args |-> IF Len(rows) = 0 THEN GivenOpts.args ELSE args]
    BY <1>4, <2>1
  <2>6. Len(rows) = 0 => args = << >>
    BY <2>2
  <2> HIDE DEF args, again
  <2>7. Args' = args
    <3>1. CASE Len(rows) = 0
      <4>1. Args' = SubSeq(GivenOpts.args, 1, 0)
        BY <2>5, <3>1 DEF Args
      <4> QED BY <2>4, <2>6, <3>1, <4>1, TakenIs
    <3>2. CASE Len(rows) # 0
      <4>1. Args' = SubSeq(args, 1, Len(args))
        BY <2>3, <2>5, <3>2 DEF Args
      <4> QED BY <2>3, <4>1, TakenIs
    <3> QED BY <3>1, <3>2
  <2>8. OptionsSay'
    BY <2>2, <2>3, <2>7 DEF OptionsSay
  <2>9. Structures'
    <3>1. /\ opts' = [cnt |-> opts'.cnt, args |-> opts'.args]
          /\ opts'.args \in Seq(Range(opts'.args)) /\ opts'.cnt \in {0, Len(opts'.args)}
      BY <2>3, <2>4, <2>5
    <3> QED BY <1>1, <1>2, <1>3, <3>1 DEF Structures
  <2>10. ProcSays' /\ FormSays' /\ SettingsSay' /\ ListShows' /\ ToldAre'
    BY <1>1, <1>3, <2>1 DEF SampleRuns, ProcSays, FormSays, SettingsSay, ListShows, ToldAre
  <2>11. SampleRuns'
    BY <2>8, <2>10 DEF SampleRuns
  <2> QED BY <1>1, <1>5, <2>1, <2>9, <2>11 DEF RunsInv, IsSample, IsDecoder
<1>6. CASE IsDecoder
  <2>1. PlugRuns /\ ~ IsSample
    BY <1>6 DEF RunsInv, IsSample, IsDecoder
  <2>2. opts' = [cnt |-> 0, args |-> << >>]
    BY <1>4, <1>6, <2>1 DEF PlugRuns, PlugRows
  <2>3. Structures'
    BY <1>1, <1>2, <1>3, <2>2, NoneAre DEF Structures
  <2>4. PlugRuns'
    BY <1>1, <1>3, <2>1 DEF PlugRuns, PlugSays, PlugSettings, PlugForm, PlugRows
  <2> QED BY <1>1, <1>6, <2>1, <2>3, <2>4 DEF RunsInv, IsSample, IsDecoder
<1> QED BY <1>5, <1>6 DEF RunsInv, IsSample, IsDecoder

LEMMA GuiSettingsRuns ==
    ASSUME RunsInv, setGuiModuleSettings
    PROVE  RunsInv'
<1>1. /\ module' = module /\ hasForm' = hasForm /\ rows' = rows
      /\ dynParams' = dynParams /\ told' = told
      /\ sets' = sets /\ opts' = opts /\ meantRows' = meantRows
  BY DEF setGuiModuleSettings, const, hostVars
<1>2. Structures
  BY DEF RunsInv
<1>3. CASE IsSample
  <2>1. SampleRuns /\ ~ IsDecoder
    BY <1>3 DEF RunsInv, IsSample, IsDecoder
  <2>2. values' = values
    BY <2>1 DEF setGuiModuleSettings
  <2>3. CASE hasForm
    <3> DEFINE w == Filled(shown, Params, defaultSetting)
               should == MeantUnlessNone(meant.form)
    <3>1. w \in Rows /\ (should # Nobody => w = should)
      BY <1>2, <2>1, <2>3, SampleFills DEF SampleRuns, FormSays
    <3>2. /\ shown' = w /\ meant' = [form |-> should, host |-> meant.host, proc |-> meant.proc]
      BY <1>2, <2>1, <2>3, HistorySet DEF setGuiModuleSettings
    <3> HIDE DEF w, should
    <3>3. Structures'
      BY <1>1, <1>2, <3>2 DEF Structures
    <3>4. FormSays'
      BY <1>1, <2>3, <3>1, <3>2 DEF FormSays
    <3>5. ProcSays' /\ SettingsSay' /\ OptionsSay' /\ ListShows' /\ ToldAre'
      BY <1>1, <2>1, <2>2, <3>2
      DEF SampleRuns, ProcSays, SettingsSay, OptionsSay, ListShows, ToldAre, Args
    <3>6. SampleRuns'
      BY <3>4, <3>5 DEF SampleRuns
    <3> QED BY <1>1, <1>3, <2>1, <3>3, <3>6 DEF RunsInv, IsSample, IsDecoder
  <2>4. CASE ~ hasForm
    <3>1. shown' = shown /\ meant' = meant
      BY <2>1, <2>4 DEF setGuiModuleSettings
    <3> QED BY <1>1, <2>2, <3>1, RunsStutter DEF runVars
  <2> QED BY <2>3, <2>4
<1>4. CASE IsDecoder
  <2>1. PlugRuns /\ ~ IsSample
    BY <1>4 DEF RunsInv, IsSample, IsDecoder
  <2> DEFINE w == Applied(values, Params)
  <2>2. w \in Chosen /\ w = MeantUnlessNone(meant.proc)
    BY <1>2, <2>1, PlugApplies DEF PlugRuns, PlugSays
  <2>3. /\ values' = w /\ shown' = IF hasForm THEN w ELSE shown
        /\ meant' = [form |-> meant.form, host |-> meant.host, proc |-> w]
    BY <1>2, <2>1, <2>2, HistorySet DEF setGuiModuleSettings
  <2> HIDE DEF w
  <2>4. Structures'
    BY <1>1, <1>2, <2>3 DEF Structures
  <2>5. PlugRuns'
    BY <1>1, <2>1, <2>2, <2>3 DEF PlugRuns, PlugSays, PlugSettings, PlugForm, PlugRows
  <2> QED BY <1>1, <1>4, <2>1, <2>4, <2>5 DEF RunsInv, IsSample, IsDecoder
<1> QED BY <1>3, <1>4 DEF RunsInv, IsSample, IsDecoder

LEMMA GuiOptionsRuns ==
    ASSUME RunsInv, setGuiModuleOptions
    PROVE  RunsInv'
<1>1. /\ module' = module /\ hasForm' = hasForm /\ shown' = shown /\ values' = values
      /\ dynParams' = dynParams /\ told' = told
      /\ sets' = sets /\ opts' = opts /\ meant' = meant
  BY DEF setGuiModuleOptions, const, procVars, hostVars
<1>2. Structures /\ IsSample /\ ~ IsDecoder /\ SampleRuns
  BY DEF RunsInv, setGuiModuleOptions, IsSample, IsDecoder
<1>3. /\ rows' = RowsOf(Args)
      /\ meantRows' = [form |-> meantRows.host, host |-> meantRows.host]
  BY <1>2, HistorySet DEF setGuiModuleOptions
<1>4. RowsOf(Args) \in Seq(Rows) /\ AllAsMeant(RowsOf(Args), meantRows.host)
  <2>1. PICK rs \in Seq(Rows) : Lists(Args, rs) /\ AllAsMeant(rs, meantRows.host)
    BY <1>2 DEF SampleRuns, OptionsSay
  <2>2. RowsOf(Args) = rs
    BY <1>2, <2>1, StructuresAre, RowsAre
  <2> QED BY <2>1, <2>2
<1>5. Structures'
  BY <1>1, <1>2, <1>3 DEF Structures
<1>6. ListShows'
  BY <1>3, <1>4 DEF ListShows
<1>7. ProcSays' /\ FormSays' /\ SettingsSay' /\ OptionsSay' /\ ToldAre'
  BY <1>1, <1>2, <1>3 DEF SampleRuns, ProcSays, FormSays, SettingsSay, OptionsSay, ToldAre, Args
<1>8. SampleRuns'
  BY <1>6, <1>7 DEF SampleRuns
<1> QED BY <1>1, <1>2, <1>5, <1>8 DEF RunsInv, IsSample, IsDecoder

LEMMA ProcSettingsRuns ==
    ASSUME RunsInv, setProcModuleSettings
    PROVE  RunsInv'
<1>1. /\ module' = module /\ hasForm' = hasForm /\ shown' = shown /\ rows' = rows
      /\ dynParams' = dynParams /\ told' = told
      /\ opts' = opts /\ meantRows' = meantRows
  BY DEF setProcModuleSettings, const
<1>2. Structures
  BY DEF RunsInv
<1>3. sets' = [name |-> sets.name, cnt |-> 0, params |-> << >>]
  BY <1>2, StructuresAre DEF setProcModuleSettings
<1> DEFINE should == MeantUnlessNone(meant.proc)
<1>4. meant' = [form |-> meant.form, host |-> Nobody, proc |-> should]
  <2>1. meant' = [meant EXCEPT !.proc = should, !.host = Nobody]
    BY DEF setProcModuleSettings
  <2> HIDE DEF should
  <2> QED BY <1>2, <2>1 DEF Structures
<1>5. Structures'
  <2> HIDE DEF should
  <2> QED BY <1>1, <1>2, <1>3, <1>4, NoneAre DEF Structures
<1>6. CASE IsSample
  <2>1. SampleRuns /\ ~ IsDecoder
    BY <1>6 DEF RunsInv, IsSample, IsDecoder
  <2>2. values' = Filled(values, Params, defaultSetting)
    BY <1>6 DEF setProcModuleSettings
  <2>3. values' \in Rows /\ (should # Nobody => values' = should)
    BY <1>2, <2>1, <2>2, SampleFills DEF SampleRuns, ProcSays
  <2> HIDE DEF should
  <2>4. ProcSays'
    BY <1>4, <2>3 DEF ProcSays
  <2>5. SettingsSay'
    BY <1>3 DEF SettingsSay
  <2>6. FormSays' /\ OptionsSay' /\ ListShows' /\ ToldAre'
    BY <1>1, <1>4, <2>1 DEF SampleRuns, FormSays, OptionsSay, ListShows, ToldAre, Args
  <2>7. SampleRuns'
    BY <2>4, <2>5, <2>6 DEF SampleRuns
  <2> QED BY <1>1, <1>5, <1>6, <2>1, <2>7 DEF RunsInv, IsSample, IsDecoder
<1>7. CASE IsDecoder
  <2>1. PlugRuns /\ ~ IsSample
    BY <1>7 DEF RunsInv, IsSample, IsDecoder
  <2>2. values' = Applied(values, Params)
    BY <2>1 DEF setProcModuleSettings
  <2>3. values' \in Chosen /\ values' = should
    BY <1>2, <2>1, <2>2, PlugApplies DEF PlugRuns, PlugSays
  <2> HIDE DEF should
  <2>4. PlugRuns'
    BY <1>1, <1>3, <1>4, <2>1, <2>3 DEF PlugRuns, PlugSays, PlugSettings, PlugForm, PlugRows
  <2> QED BY <1>1, <1>5, <1>7, <2>1, <2>4 DEF RunsInv, IsSample, IsDecoder
<1> QED BY <1>6, <1>7 DEF RunsInv, IsSample, IsDecoder

LEMMA ProcOptionsRuns ==
    ASSUME RunsInv, setProcModuleOptions
    PROVE  RunsInv'
<1>1. /\ module' = module /\ hasForm' = hasForm /\ shown' = shown /\ rows' = rows
      /\ values' = values /\ sets' = sets /\ meant' = meant
  BY DEF setProcModuleOptions, const, formVars
<1>2. Structures
  BY DEF RunsInv
<1> DEFINE c == clearModulesOptions(opts)
<1>3. /\ opts' = [cnt |-> 0, args |-> c.args] /\ c.args \in Seq(Range(c.args))
      /\ meantRows' = [form |-> meantRows.form, host |-> << >>]
  BY <1>2, StructuresAre, HistorySet DEF setProcModuleOptions
<1> HIDE DEF c
<1>4. Structures'
  BY <1>1, <1>2, <1>3 DEF Structures
<1>5. CASE IsSample
  <2>1. SampleRuns /\ ~ IsDecoder
    BY <1>5 DEF RunsInv, IsSample, IsDecoder
  <2> DEFINE q == meantRows.host
  <2>2. PICK rs \in Seq(Rows) : Lists(Args, rs) /\ AllAsMeant(rs, q)
    BY <2>1 DEF SampleRuns, OptionsSay
  <2>3. RowsOf(Args) = rs
    BY <1>2, <2>2, StructuresAre, RowsAre
  <2>4. dynParams' = dynParams \o rs /\ told' = Append(told, q) /\ Len(told) < 2
    BY <1>5, <2>3 DEF setProcModuleOptions
  <2> HIDE DEF q
  <2>5. ToldAre'
    <3>1. CASE told = << >> /\ dynParams = << >>
      <4>1. told' = <<q>>
        BY <2>4, <3>1, ToldOneMore
      <4>2. << >> \o rs = rs
        OBVIOUS
      <4>3. AllAsMeant(dynParams', q)
        BY <2>2, <2>4, <3>1, <4>2
      <4> QED BY <4>1, <4>3 DEF ToldAre
    <3>2. ASSUME NEW m, told = <<m>> PROVE ToldAre'
      <4>1. told' = <<m, q>>
        BY <2>4, <3>2, ToldOneMore
      <4> QED BY <4>1 DEF ToldAre
    <3>3. ASSUME NEW m, NEW m2, told = <<m, m2>> PROVE FALSE
      <4>1. Len(told) = 2
        BY <3>3, ToldOneMore
      <4> QED BY <2>4, <4>1
    <3> QED BY <2>1, <3>1, <3>2, <3>3 DEF SampleRuns, ToldAre
  <2>6. OptionsSay'
    <3>1. Args' = << >>
      BY <1>3, TakenIs DEF Args
    <3> QED BY <1>3, <3>1, NoneAre, MeantAsItIs DEF OptionsSay
  <2>7. ProcSays' /\ FormSays' /\ SettingsSay' /\ ListShows'
    BY <1>1, <1>3, <2>1 DEF SampleRuns, ProcSays, FormSays, SettingsSay, ListShows
  <2>8. SampleRuns'
    BY <2>5, <2>6, <2>7 DEF SampleRuns
  <2> QED BY <1>1, <1>4, <1>5, <2>1, <2>8 DEF RunsInv, IsSample, IsDecoder
<1>6. CASE IsDecoder
  <2>1. PlugRuns /\ ~ IsSample
    BY <1>6 DEF RunsInv, IsSample, IsDecoder
  <2>2. dynParams' = dynParams /\ told' = told
    BY <2>1 DEF setProcModuleOptions
  <2>3. PlugRuns'
    BY <1>1, <1>3, <2>1, <2>2 DEF PlugRuns, PlugSays, PlugSettings, PlugForm, PlugRows
  <2> QED BY <1>1, <1>4, <1>6, <2>1, <2>3 DEF RunsInv, IsSample, IsDecoder
<1> QED BY <1>5, <1>6 DEF RunsInv, IsSample, IsDecoder

LEMMA RunsStep == RunsInv /\ [Next]_vars => RunsInv'
<1> SUFFICES ASSUME RunsInv, [Next]_vars PROVE RunsInv'
  OBVIOUS
<1>1. CASE \/ CreateProc \/ resetCommonParams \/ Initialize \/ recvGuiData
           \/ (\E s \in BOOLEAN : setProcState(s))
           \/ (\E l \in Lengths : \E answer \in -1 .. l : workData(l, answer))
           \/ UNCHANGED vars
  <2>1. UNCHANGED runVars
    BY <1>1 DEF CreateProc, resetCommonParams, Initialize, recvGuiData, setProcState, workData,
                vars, const, formVars, procVars, hostVars, history, runVars
  <2> QED BY <2>1, RunsStutter
<1>2. CASE \E s \in Schemes[module] : LoadScheme(s)
  BY <1>2, LoadSchemeRuns
<1>3. CASE Free
  BY <1>3, FreeRuns
<1>4. CASE CreateForm \/ DestroyForm \/ \E v \in Edits : Edit(v)
  BY <1>4, FormRuns
<1>5. CASE ClickCoordinates \/ \E f \in {"all", "nmea", "ais"} : ClickFilter(f)
  BY <1>5, ClickRuns
<1>6. CASE getDefaultModuleParams
  BY <1>6, DefaultsRuns
<1>7. CASE getModuleParamsSetting
  BY <1>7, SettingRuns
<1>8. CASE getModuleParamsOptions
  BY <1>8, OptionsRuns
<1>9. CASE setGuiModuleSettings
  BY <1>9, GuiSettingsRuns
<1>10. CASE setGuiModuleOptions
  BY <1>10, GuiOptionsRuns
<1>11. CASE setProcModuleSettings
  BY <1>11, ProcSettingsRuns
<1>12. CASE setProcModuleOptions
  BY <1>12, ProcOptionsRuns
<1> QED BY <1>1, <1>2, <1>3, <1>4, <1>5, <1>6, <1>7, <1>8, <1>9, <1>10, <1>11, <1>12 DEF Next

\* What the user or a scheme last said is what is processed and what the sample's
\* form shows, whatever is converted to text and back, cleared, filled again or
\* handed over between host, form and processing, and however wide an int is; but
\* for the number of an option that was fetched from the list, and for options
\* that were told twice, of which nothing is said.
THEOREM SaidIsProcessed == Spec => []RunsAsMeant
<1>1. Init => RunsInv
  BY RunsInit
<1>2. RunsInv /\ [Next]_vars => RunsInv'
  BY RunsStep
<1>3. RunsInv => RunsAsMeant
  BY RunsAsMeantHolds
<1> QED BY <1>1, <1>2, <1>3, PTL DEF Spec
==============================================================================
