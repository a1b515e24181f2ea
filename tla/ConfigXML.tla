------------------------------ MODULE ConfigXML ------------------------------
(***************************************************************************)
(* src/DHF/_example/include/ConfigXMLDefs.h and ConfigXMLMethods.h: the    *)
(* structures in which host and module hand settings to each other, how    *)
(* they are freed and how they are compared.                               *)
(*                                                                         *)
(* A NULL pointer is << >>.  The count is kept apart from the array, as in *)
(* the code: clearing goes by the count.                                   *)
(***************************************************************************)
EXTENDS Integers, SequencesExt

\* SAppModuleSettings: params is a sequence of [name, value].
NoSettings == [name |-> "", cnt |-> 0, params |-> << >>]
\* SAppModuleOptions: args is a sequence of SAppModuleSettings.
NoOptions == [cnt |-> 0, args |-> << >>]

\* The structures of a scheme: an array has as many elements as are counted, and
\* the modules have different uids.
IsParam(p) == p = [name |-> p.name, value |-> p.value]
IsWholeSettings(s) ==
    /\ s = [name |-> s.name, cnt |-> s.cnt, params |-> s.params] /\ s.cnt \in Nat
    /\ s.params = [i \in 1 .. s.cnt |-> s.params[i]]
    /\ \A i \in 1 .. s.cnt : IsParam(s.params[i])
IsWholeOptions(o) ==
    /\ o = [cnt |-> o.cnt, args |-> o.args] /\ o.cnt \in Nat
    /\ o.args = [i \in 1 .. o.cnt |-> o.args[i]]
    /\ \A i \in 1 .. o.cnt : IsWholeSettings(o.args[i])
IsModuleInfo(m) ==
    /\ m = [uid |-> m.uid, name |-> m.name, position |-> m.position,
            settings |-> m.settings, options |-> m.options]
    /\ IsWholeSettings(m.settings) /\ IsWholeOptions(m.options)
DistinctUids(ms) == \A i, j \in DOMAIN ms : ms[i].uid = ms[j].uid => i = j
IsScheme(ms) ==
    ms \in Seq(Range(ms)) /\ (\A m \in Range(ms) : IsModuleInfo(m)) /\ DistinctUids(ms)

\* Seeded fault: the array is freed and still pointed to.
ClearSettingsDangling(sets) == [sets EXCEPT !.cnt = 0]

clearModulesSettings(sets) ==
    IF sets.cnt # 0 THEN [sets EXCEPT !.cnt = 0, !.params = << >>] ELSE sets

clearModulesOptions(opts) ==
    IF opts.cnt # 0 THEN [opts EXCEPT !.cnt = 0, !.args = << >>] ELSE opts
------------------------------------------------------------------------------
(***************************************************************************)
(* Comparisons; TRUE says that something has changed.                      *)
(***************************************************************************)
ParamsDiffer(ps1, ps2, cnt) ==
    \E p \in 1 .. cnt : ps1[p].name # ps2[p].name \/ ps1[p].value # ps2[p].value

compareSettings(sets1, sets2) ==
    \/ sets1.name # sets2.name
    \/ sets1.cnt # sets2.cnt
    \/ ParamsDiffer(sets1.params, sets2.params, sets1.cnt)

\* Seeded fault: the last argument is left out.
CompareOptionsShort(opts1, opts2) ==
    \/ opts1.cnt # opts2.cnt
    \/ \E o \in 1 .. opts1.cnt - 1 : compareSettings(opts1.args[o], opts2.args[o])

\* Name, count and parameters of each argument, as in compareSettings.
compareOptions(opts1, opts2) ==
    \/ opts1.cnt # opts2.cnt
    \/ \E o \in 1 .. opts1.cnt : compareSettings(opts1.args[o], opts2.args[o])

\* SAppModuleInfo is [uid, name, position, settings, options].  The names that
\* are compared are those of the two i-th modules, those of line 172.
IsSame(ms1, i, ms2, j) ==
    /\ ms1[i].uid = ms2[j].uid
    /\ ms1[i].name = ms2[i].name
    /\ ms1[i].position = ms2[j].position

ContentsDiffer(m1, m2) ==
    compareSettings(m1.settings, m2.settings) \/ compareOptions(m1.options, m2.options)

\* The first j that is the same decides about module i.
compareModules(ms1, ms2) ==
    \/ Len(ms1) # Len(ms2)
    \/ \E i \in DOMAIN ms1 :
         LET j == SelectInSeq([k \in DOMAIN ms2 |-> k], LAMBDA k : IsSame(ms1, i, ms2, k))
         IN  j = 0 \/ ContentsDiffer(ms1[i], ms2[j])

\* SAppLinkOfModule is [uid, src, dst]: each link of the first list is looked
\* for in the second.
compareLinks(ls1, ls2) ==
    \/ Len(ls1) # Len(ls2)
    \/ \E i \in DOMAIN ls1 : ls1[i] \notin Range(ls2)
==============================================================================
