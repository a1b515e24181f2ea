--------------------------- MODULE DhfModule_proofs ---------------------------
(***************************************************************************)
(* For every stream, however it is cut into pieces, and for all datagrams, *)
(* settings and statistics: what DhfModule promises.  Its invariant has    *)
(* four parts, which share no variables but the message at hand: settings, *)
(* what is sent under them, the counters, and the line buffer.             *)
(***************************************************************************)
EXTENDS DhfModule, NumberLemmas, FiniteSetTheorems, SequenceTheorems, TLAPS

Settings == [filter : Filters, coordinatesOnly : BOOLEAN]

\* The settings are those last chosen, and what the host has saved is the text
\* of what was chosen then.
Settled ==
    /\ settings \in Settings /\ meant \in Settings
    /\ SettingsKept
    /\ saved \in {<< >>, Printed(meant)}

\* A map of counters, and the statistics as a record of counters and maps.
IsMap(counts) ==
    /\ IsFiniteSet(DOMAIN counts)
    /\ counts \in [DOMAIN counts -> Nat]
IsStats(s) ==
    /\ s = [processed |-> s.processed, rejected |-> s.rejected,
            aisDecoded |-> s.aisDecoded, pos |-> s.pos, nmeaPos |-> s.nmeaPos,
            aisPos |-> s.aisPos, byType |-> s.byType, byAis |-> s.byAis]
    /\ s.processed \in Nat /\ s.rejected \in Nat /\ s.aisDecoded \in Nat
    /\ s.pos \in Nat /\ s.nmeaPos \in Nat /\ s.aisPos \in Nat
    /\ IsMap(s.byType) /\ IsMap(s.byAis)

\* What Accounting says of the statistics alone.
Agree(s) ==
    /\ s.processed = Total(s.byType)
    /\ s.aisDecoded = Total(s.byAis)
    /\ s.pos = s.nmeaPos + s.aisPos
    /\ s.aisPos <= s.aisDecoded
    /\ s.nmeaPos <= s.processed - s.aisDecoded

Counting ==
    /\ IsStats(stats) /\ Agree(stats)
    /\ given \in Nat /\ failed \in Nat
    /\ stats.processed + stats.rejected = given + failed

\* The n bytes of the stream behind byte q.
Run(q, n) == [i \in 1 .. n |-> q + i]

\* Bytes f to l are a line that ends in front of byte q of what came after b.
IsLineIn(b, q, f, l) ==
    /\ b < f /\ f <= l /\ l < q
    /\ IsEnd(l + 1)
    /\ f = b + 1 \/ IsEnd(f - 1)
    /\ \A p \in f .. l : ~ IsEnd(p)

\* These lines.
LinesIn(b, q) ==
    {r \in (b + 1 .. q) \X (b + 1 .. q) : IsLineIn(b, q, r[1], r[2])}

\* ls is the sequence of them.
AreLinesIn(ls, b, q) ==
    /\ ls \in Seq(Seq(Nat) \ {<< >>})
    /\ Len(ls) = Cardinality(LinesIn(b, q))
    /\ \A n \in 1 .. Len(ls) :
         \E f \in Nat, l \in Nat :
           /\ IsLineIn(b, q, f, l)
           /\ ls[n] = Run(f - 1, l - f + 1)
           /\ n > 1 => Last(ls[n - 1]) < f

\* The bytes up to q have left the buffer, at the beginning of a line, and the
\* lines among them were given to ProcMsg.  Between calls no line is left.
Cutting ==
    /\ fed \in Nat /\ begin \in Nat /\ busy \in BOOLEAN
    /\ \E q \in begin .. fed :
         /\ m_lineBuffer = Run(q, fed - q)
         /\ q = begin \/ IsEnd(q)
         /\ ~ busy => \A p \in q + 1 .. fed : ~ IsEnd(p)
         /\ AreLinesIn(lines, begin, q)

\* The rest of the state.
Course ==
    /\ phase \in {"made", "ready", "freed"}
    /\ starts \in 0 .. MaxStarts
    /\ left \in SUBSET Datagrams

IInv == Settled /\ SentAsChosen /\ Counting /\ Cutting /\ Course

\* The state has its types: so have the settings in all three places, the
\* counters, the maps of counters, the line buffer and the lines.
TypeOK ==
    /\ settings \in Settings /\ chosen \in Settings /\ meant \in Settings
    /\ saved \in {<< >>} \cup {Printed(s) : s \in Settings}
    /\ IsStats(stats) /\ given \in Nat /\ failed \in Nat
    /\ fed \in Nat /\ begin \in Nat /\ busy \in BOOLEAN
    /\ m_lineBuffer \in Seq(Nat) /\ lines \in Seq(Seq(Nat) \ {<< >>})
    /\ Course
------------------------------------------------------------------------------
(***************************************************************************)
(* Settings.                                                               *)
(***************************************************************************)

\* What ApplySettings makes of the text of some settings are these settings.
LEMMA TextKeepsSettings ==
    ASSUME NEW s \in Settings
    PROVE  /\ FilterOf(Printed(s)[1]) = s.filter
           /\ GetBool(Printed(s)[2]) = s.coordinatesOnly
           /\ Printed(s) # << >>
<1>1. s.filter \in Filters /\ s.coordinatesOnly \in BOOLEAN
  BY DEF Settings
<1>2. FilterOf(s.filter) = s.filter
  BY <1>1 DEF FilterOf, Filters
<1>3. GetBool(IF s.coordinatesOnly THEN "true" ELSE "false") = s.coordinatesOnly
  BY <1>1 DEF GetBool
<1> QED BY <1>2, <1>3 DEF Printed

LEMMA SettledInit == Init => Settled
BY DEF Init, Settled, Settings, SettingsKept, Default, Filters

LEMMA SettledStep ==
    ASSUME Settled, [Next]_vars
    PROVE  Settled'
<1>1. CASE UNCHANGED setup
  BY <1>1 DEF Settled, SettingsKept, setup
<1>2. CASE Click
  BY <1>2 DEF Click, Settled, SettingsKept, Settings
<1>3. CASE GetSettings
  BY <1>3 DEF GetSettings, Settled, SettingsKept
<1>4. CASE GetDefaults
  <2>1. Default \in Settings
    BY DEF Default, Settings, Filters
  <2> QED BY <1>4, <2>1 DEF GetDefaults, Settled, SettingsKept
<1>5. CASE ApplySettings
  <2>1. saved = Printed(meant)
    BY <1>5 DEF ApplySettings, Settled
  <2>2. settings' = [filter |-> meant.filter, coordinatesOnly |-> meant.coordinatesOnly]
    BY <1>5, <2>1, TextKeepsSettings DEF ApplySettings, Settled
  <2>3. settings' = meant
    BY <2>2 DEF Settled, Settings
  <2> QED BY <1>5, <2>3 DEF ApplySettings, Settled, SettingsKept
<1> QED
  BY <1>1, <1>2, <1>3, <1>4, <1>5
     DEF Next, vars, setup, WorkRaw, CutLine, RawDone, Work450, Timing, Tick,
         Initialize, Free
------------------------------------------------------------------------------
(***************************************************************************)
(* Messages: what a step may do to the results, and what is sent.          *)
(***************************************************************************)
LEMMA ResultSteps ==
    ASSUME [Next]_vars
    PROVE  \/ \E msg : ProcMsg(msg) /\ UNCHANGED setup
           \/ UNCHANGED results /\ UNCHANGED chosen
           \/ /\ UNCHANGED <<stats, given, failed>>
              /\ sent' = {}
           \/ Initialize
<1>1. CASE CutLine
  <2>1. UNCHANGED setup
    BY <1>1 DEF CutLine
  <2>2. CASE UNCHANGED results
    BY <2>1, <2>2 DEF setup
  <2>3. CASE \E end \in LineEndPos : ProcMsg(MsgOf(SubSeq(m_lineBuffer, 1, end - 1)))
    BY <2>1, <2>3
  <2> QED BY <1>1, <2>2, <2>3 DEF CutLine
<1>2. ASSUME NEW d \in Datagrams, Work450(d)
      PROVE  (\E msg : ProcMsg(msg) /\ UNCHANGED setup) \/ (UNCHANGED results /\ UNCHANGED chosen)
  BY <1>2 DEF Work450, setup
<1>3. CASE Click \/ ApplySettings
  BY <1>3 DEF Click, ApplySettings
<1>4. CASE GetSettings \/ GetDefaults
  BY <1>4 DEF GetSettings, GetDefaults
<1> QED
  BY <1>1, <1>2, <1>3, <1>4
     DEF Next, vars, results, setup, WorkRaw, RawDone, Timing, Tick, Free

LEMMA SentStep ==
    ASSUME Settled, SentAsChosen, [Next]_vars
    PROVE  SentAsChosen'
<1>1. ASSUME NEW msg, ProcMsg(msg), UNCHANGED setup
      PROVE  SentAsChosen'
  <2>1. chosen' = chosen /\ settings = chosen
    BY <1>1 DEF setup, Settled, SettingsKept
  <2>2. CASE sent' = sent
    BY <2>1, <2>2 DEF SentAsChosen
  <2>3. CASE sent' = {msg} /\ IsAllowed(msg)
    BY <2>1, <2>3 DEF SentAsChosen, IsAllowed
  <2> QED BY <1>1, <2>2, <2>3 DEF ProcMsg
<1>2. CASE UNCHANGED <<sent, chosen>>
  BY <1>2 DEF SentAsChosen
<1>3. CASE sent' = {}
  BY <1>3 DEF SentAsChosen
<1>4. Initialize => UNCHANGED <<sent, chosen>>
  BY DEF Initialize, setup
<1> QED BY <1>1, <1>2, <1>3, <1>4, ResultSteps DEF results
------------------------------------------------------------------------------
(***************************************************************************)
(* The counters.  Total is a fold, which is a recursive function on the    *)
(* subsets of a finite set; what holds of it is shown for a subset that    *)
(* would be a least counterexample.                                        *)
(***************************************************************************)

\* The element with which FoldSet goes on.
Picked(s) == CHOOSE x \in s : TRUE

\* One round of FoldSet.
Round(c, f, s) == IF s = {} THEN 0 ELSE f[s \ {Picked(s)}] + c[Picked(s)]

\* f has the sum of the counters of c in every subset of D.
IsTally(f, c, D) == f = [s \in SUBSET D |-> Round(c, f, s)]

\* Among the sets of some sets of a finite one there is one of the least size.
LEMMA FewestElements ==
    ASSUME NEW D, IsFiniteSet(D), NEW B \in SUBSET (SUBSET D), B # {}
    PROVE  \E s \in B : \A x \in s : s \ {x} \notin B
<1> DEFINE Sizes == {Cardinality(s) : s \in B}
<1>1. \A s \in B : IsFiniteSet(s) /\ Cardinality(s) \in Nat
  BY FS_Subset, FS_CardinalityType
<1>2. Sizes \in SUBSET Nat /\ Sizes # {}
  BY <1>1
<1>3. PICK n \in Sizes : \A m \in Sizes : n <= m
  <2> HIDE DEF Sizes
  <2> QED BY <1>2, LeastNumber
<1>4. PICK s \in B : n = Cardinality(s)
  OBVIOUS
<1>5. ASSUME NEW x \in s, s \ {x} \in B PROVE FALSE
  <2>1. Cardinality(s \ {x}) = Cardinality(s) - 1
    BY <1>1, FS_RemoveElement
  <2>2. Cardinality(s) <= Cardinality(s \ {x})
    BY <1>3, <1>4, <1>5
  <2> QED BY <1>1, <2>1, <2>2
<1> QED BY <1>5

\* FoldSet's recursive function exists.
LEMMA TallyExists ==
    ASSUME NEW D, IsFiniteSet(D), NEW c \in [D -> Nat]
    PROVE  \E f : IsTally(f, c, D)
<1> DEFINE Small(n) == {s \in SUBSET D : Cardinality(s) <= n}
           Has(n) == \E f : f = [s \in Small(n) |-> Round(c, f, s)]
           Bad == {n \in Nat : ~ Has(n)}
<1>1. \A s \in SUBSET D : IsFiniteSet(s) /\ Cardinality(s) \in Nat
  BY FS_Subset, FS_CardinalityType
<1>2. Has(0)
  <2> DEFINE f == [s \in Small(0) |-> 0]
  <2>1. ASSUME NEW s \in Small(0) PROVE s = {}
    BY <1>1, FS_EmptySet
  <2>2. \A s \in Small(0) : Round(c, f, s) = 0
    BY <2>1 DEF Round
  <2>3. f = [s \in Small(0) |-> Round(c, f, s)]
    BY <2>2
  <2> QED BY <2>3
<1>3. ASSUME NEW n \in Nat, Has(n) PROVE Has(n + 1)
  <2>1. PICK f : f = [s \in Small(n) |-> Round(c, f, s)]
    BY <1>3
  <2> DEFINE g == [s \in Small(n + 1) |-> Round(c, f, s)]
  <2>2. \A s \in Small(n) : s \in Small(n + 1) /\ f[s] = Round(c, f, s)
    <3>1. \A s \in Small(n) : f[s] = Round(c, f, s)
      BY <2>1
    <3>2. \A s \in Small(n) : s \in Small(n + 1)
      BY <1>1
    <3> QED BY <3>1, <3>2
  <2>3. \A s \in Small(n) : g[s] = f[s]
    BY <2>2
  <2>4. ASSUME NEW s \in Small(n + 1) PROVE Round(c, f, s) = Round(c, g, s)
    <3>1. CASE s = {}
      BY <3>1 DEF Round
    <3>2. CASE s # {}
      <4>1. Picked(s) \in s
        BY <3>2 DEF Picked
      <4>2. Cardinality(s \ {Picked(s)}) = Cardinality(s) - 1
        BY <1>1, <4>1, FS_RemoveElement
      <4>3. s \ {Picked(s)} \in Small(n)
        BY <1>1, <4>2
      <4>4. g[s \ {Picked(s)}] = f[s \ {Picked(s)}]
        BY <2>3, <4>3
      <4> HIDE DEF g, Small
      <4> QED BY <3>2, <4>4 DEF Round
    <3> QED BY <3>1, <3>2
  <2>5. g = [s \in Small(n + 1) |-> Round(c, g, s)]
    BY <2>4
  <2> QED BY <2>5
<1>4. Bad = {}
  <2> SUFFICES ASSUME Bad # {} PROVE FALSE
    OBVIOUS
  <2>1. PICK n \in Bad : \A m \in Bad : n <= m
    <3>1. Bad \in SUBSET Nat
      OBVIOUS
    <3> HIDE DEF Bad
    <3> QED BY <3>1, LeastNumber
  <2>2. n \in Nat /\ ~ Has(n) /\ n # 0
    BY <1>2
  <2>3. n - 1 \in Nat /\ ~ (n <= n - 1) /\ (n - 1) + 1 = n
    BY <2>2
  <2>4. n - 1 \notin Bad
    BY <2>1, <2>3
  <2>5. Has(n - 1)
    BY <2>3, <2>4
  <2>6. Has((n - 1) + 1)
    <3> HIDE DEF Has
    <3> QED BY <1>3, <2>3, <2>5
  <2> HIDE DEF Has
  <2> QED BY <2>2, <2>3, <2>6
<1>5. Has(Cardinality(D))
  <2>1. Cardinality(D) \in Nat
    BY FS_CardinalityType
  <2> HIDE DEF Has
  <2> QED BY <1>4, <2>1
<1>6. Small(Cardinality(D)) = SUBSET D
  BY FS_Subset
<1>7. PICK f : f = [s \in Small(Cardinality(D)) |-> Round(c, f, s)]
  BY <1>5
<1> HIDE DEF Small
<1> QED BY <1>6, <1>7 DEF IsTally

\* Total is the tally of all of the counters.
LEMMA TotalIsTally ==
    ASSUME NEW D, IsFiniteSet(D), NEW c \in [D -> Nat]
    PROVE  \E f : IsTally(f, c, D) /\ Total(c) = f[D]
<1> DEFINE f == CHOOSE f : f = [s \in SUBSET D |-> Round(c, f, s)]
<1>1. IsTally(f, c, D)
  <2>1. PICK g : IsTally(g, c, D)
    BY TallyExists
  <2>2. g = [s \in SUBSET D |-> Round(c, g, s)]
    BY <2>1 DEF IsTally
  <2>3. f = [s \in SUBSET D |-> Round(c, f, s)]
    BY <2>2
  <2> HIDE DEF f
  <2> QED BY <2>3 DEF IsTally
<1>2. DOMAIN c = D
  OBVIOUS
<1>3. Total(c) = f[DOMAIN c]
  BY <1>2 DEF Total, FoldSet, MapThenFoldSet, Round, Picked
<1> HIDE DEF f
<1> QED BY <1>1, <1>2, <1>3

LEMMA TallyRound ==
    ASSUME NEW D, NEW c, NEW f, IsTally(f, c, D)
    PROVE  /\ f[{}] = 0
           /\ \A s \in SUBSET D : s # {} =>
                /\ Picked(s) \in s
                /\ f[s] = f[s \ {Picked(s)}] + c[Picked(s)]
<1>1. \A s \in SUBSET D : f[s] = Round(c, f, s)
  BY DEF IsTally
<1>2. \A s : s # {} => Picked(s) \in s
  BY DEF Picked
<1> QED BY <1>1, <1>2 DEF Round

LEMMA TallyType ==
    ASSUME NEW D, IsFiniteSet(D), NEW c \in [D -> Nat], NEW f, IsTally(f, c, D)
    PROVE  \A s \in SUBSET D : f[s] \in Nat
<1> DEFINE Bad == {s \in SUBSET D : f[s] \notin Nat}
<1> SUFFICES ASSUME Bad # {} PROVE FALSE
  OBVIOUS
<1>1. PICK s \in Bad : \A x \in s : s \ {x} \notin Bad
  <2>1. Bad \in SUBSET (SUBSET D)
    OBVIOUS
  <2> HIDE DEF Bad
  <2> QED BY <2>1, FewestElements
<1>2. s \in SUBSET D /\ f[s] \notin Nat
  OBVIOUS
<1>3. s # {}
  <2>1. f[{}] = 0
    BY TallyRound
  <2> QED BY <1>2, <2>1
<1>4. Picked(s) \in s /\ f[s] = f[s \ {Picked(s)}] + c[Picked(s)]
  <2>1. s \in SUBSET D
    BY <1>2
  <2> HIDE DEF Bad
  <2> QED BY ONLY <1>3, <2>1, IsTally(f, c, D), TallyRound
<1>5. s \ {Picked(s)} \in SUBSET D
  BY <1>2
<1>6. f[s \ {Picked(s)}] \in Nat
  BY <1>1, <1>4, <1>5
<1>7. c[Picked(s)] \in Nat
  BY <1>2, <1>4
<1> QED BY <1>2, <1>4, <1>6, <1>7

\* In whichever order the counters are added, the sum is the same.
LEMMA TallyRemove ==
    ASSUME NEW D, IsFiniteSet(D), NEW c \in [D -> Nat], NEW f, IsTally(f, c, D)
    PROVE  \A s \in SUBSET D : \A x \in s : f[s] = f[s \ {x}] + c[x]
<1> DEFINE Good(s) == \A x \in s : f[s] = f[s \ {x}] + c[x]
           Bad == {s \in SUBSET D : ~ Good(s)}
<1> SUFFICES ASSUME Bad # {} PROVE FALSE
  OBVIOUS
<1>1. PICK s \in Bad : \A x \in s : s \ {x} \notin Bad
  <2>1. Bad \in SUBSET (SUBSET D)
    OBVIOUS
  <2> HIDE DEF Bad
  <2> QED BY <2>1, FewestElements
<1>2. s \in SUBSET D
  OBVIOUS
<1>3. PICK x \in s : f[s] # f[s \ {x}] + c[x]
  OBVIOUS
<1> DEFINE z == Picked(s)
<1>4. z \in s /\ f[s] = f[s \ {z}] + c[z]
  <2>1. s # {}
    BY <1>3
  <2> QED BY <1>2, <2>1, TallyRound
<1> HIDE DEF z
<1>5. z # x
  BY <1>3, <1>4
<1>6. /\ s \ {z} \in SUBSET D /\ s \ {x} \in SUBSET D
      /\ x \in s \ {z} /\ z \in s \ {x}
      /\ (s \ {x}) \ {z} = (s \ {z}) \ {x}
      /\ (s \ {x}) \ {z} \in SUBSET D
  BY <1>2, <1>4, <1>5
<1>7. Good(s \ {z}) /\ Good(s \ {x})
  BY <1>1, <1>4, <1>6
<1>8. f[s \ {z}] = f[(s \ {z}) \ {x}] + c[x]
  BY <1>6, <1>7
<1>9. f[s \ {x}] = f[(s \ {x}) \ {z}] + c[z]
  BY <1>6, <1>7
<1>10. f[(s \ {x}) \ {z}] \in Nat /\ c[x] \in Nat /\ c[z] \in Nat
  BY <1>2, <1>4, <1>6, TallyType
<1>11. f[s] = f[(s \ {x}) \ {z}] + c[x] + c[z]
  BY <1>4, <1>6, <1>8
<1>12. f[s \ {x}] + c[x] = f[(s \ {x}) \ {z}] + c[x] + c[z]
  BY <1>9, <1>10
<1> QED BY <1>3, <1>11, <1>12

\* The sum depends on nothing but the counters that are added.
LEMMA TallyAgrees ==
    ASSUME NEW D, IsFiniteSet(D), NEW c, NEW f, IsTally(f, c, D),
           NEW E, NEW e, NEW g, IsTally(g, e, E), D \subseteq E,
           NEW r \in SUBSET D, \A x \in r : c[x] = e[x]
    PROVE  f[r] = g[r]
<1>0. \A s \in SUBSET E : s # {} => g[s] = g[s \ {Picked(s)}] + e[Picked(s)]
  <2>1. \A s \in SUBSET E : g[s] = Round(e, g, s)
    BY DEF IsTally
  <2> QED BY <2>1 DEF Round
<1> DEFINE Bad == {s \in SUBSET r : f[s] # g[s]}
<1> SUFFICES ASSUME Bad # {} PROVE FALSE
  OBVIOUS
<1>1. IsFiniteSet(r)
  BY FS_Subset
<1>2. PICK s \in Bad : \A x \in s : s \ {x} \notin Bad
  <2>1. Bad \in SUBSET (SUBSET r)
    OBVIOUS
  <2> HIDE DEF Bad
  <2> QED BY <1>1, <2>1, FewestElements
<1>3. s \in SUBSET D /\ s \in SUBSET E /\ f[s] # g[s] /\ s \in SUBSET r
  OBVIOUS
<1>4. s # {}
  <2>1. f[{}] = 0 /\ g[{}] = 0
    BY TallyRound
  <2> QED BY <1>3, <2>1
<1>5. /\ Picked(s) \in s
      /\ f[s] = f[s \ {Picked(s)}] + c[Picked(s)]
      /\ g[s] = g[s \ {Picked(s)}] + e[Picked(s)]
  <2>1. s \in SUBSET D /\ s \in SUBSET E
    BY <1>3
  <2> HIDE DEF Bad
  <2>2. Picked(s) \in s /\ f[s] = f[s \ {Picked(s)}] + c[Picked(s)]
    BY ONLY <1>4, <2>1, IsTally(f, c, D), TallyRound
  <2>3. g[s] = g[s \ {Picked(s)}] + e[Picked(s)]
    BY <1>0, <1>4, <2>1
  <2> QED BY <2>2, <2>3
<1>6. f[s \ {Picked(s)}] = g[s \ {Picked(s)}]
  <2>1. s \ {Picked(s)} \in SUBSET r /\ s \ {Picked(s)} \notin Bad
    BY <1>2, <1>3, <1>5
  <2> QED BY <2>1
<1>7. c[Picked(s)] = e[Picked(s)]
  BY <1>3, <1>5
<1> QED BY <1>3, <1>5, <1>6, <1>7

LEMMA NoCountersNoSum ==
    ASSUME NEW c \in [{} -> Nat] PROVE Total(c) = 0
<1>1. IsFiniteSet({})
  BY FS_EmptySet
<1>2. PICK f : IsTally(f, c, {}) /\ Total(c) = f[{}]
  BY <1>1, TotalIsTally
<1> QED BY <1>2, TallyRound

\* Increment makes the sum one larger, whether the counter is new or not.
LEMMA IncrementCounts ==
    ASSUME NEW D, IsFiniteSet(D), NEW c \in [D -> Nat], NEW t
    PROVE  /\ IsFiniteSet(D \cup {t})
           /\ Increment(c, t) \in [D \cup {t} -> Nat]
           /\ Total(c) \in Nat
           /\ Total(Increment(c, t)) = Total(c) + 1
<1> DEFINE E == D \cup {t}
           e == Increment(c, t)
<1>1. IsFiniteSet(E)
  BY FS_AddElement
<1>2. DOMAIN c = D
  OBVIOUS
<1>3. /\ e \in [E -> Nat]
      /\ e[t] = (IF t \in D THEN c[t] ELSE 0) + 1
      /\ \A x \in D \ {t} : c[x] = e[x]
  BY <1>2 DEF Increment
<1> HIDE DEF e
<1>4. PICK f : IsTally(f, c, D) /\ Total(c) = f[D]
  BY TotalIsTally
<1>5. PICK g : IsTally(g, e, E) /\ Total(e) = g[E]
  BY <1>1, <1>3, TotalIsTally
<1>6. g[E] = g[E \ {t}] + e[t]
  BY <1>1, <1>3, <1>5, TallyRemove
<1>7. E \ {t} = D \ {t}
  OBVIOUS
<1>8. f[D \ {t}] = g[D \ {t}]
  <2>1. D \ {t} \in SUBSET D /\ D \subseteq E
    OBVIOUS
  <2> HIDE DEF E
  <2> QED BY <1>3, <1>4, <1>5, <2>1, TallyAgrees
<1>9. f[D] \in Nat /\ f[D \ {t}] \in Nat
  BY <1>4, TallyType
<1>10. g[E] = f[D] + 1
  <2>1. CASE t \in D
    <3>1. f[D] = f[D \ {t}] + c[t]
      BY <1>4, <2>1, TallyRemove
    <3>2. c[t] \in Nat
      BY <2>1
    <3>3. e[t] = c[t] + 1
      BY <1>3, <2>1
    <3>4. g[E] = f[D \ {t}] + e[t]
      BY <1>6, <1>7, <1>8
    <3> QED BY <1>9, <3>1, <3>2, <3>3, <3>4
  <2>2. CASE t \notin D
    <3>1. D \ {t} = D
      BY <2>2
    <3>2. e[t] = 1
      BY <1>3, <2>2
    <3>3. g[E] = f[D] + e[t]
      BY <1>6, <1>7, <1>8, <3>1
    <3> QED BY <1>9, <3>2, <3>3
  <2> QED BY <2>1, <2>2
<1> QED BY <1>1, <1>3, <1>4, <1>5, <1>9, <1>10 DEF e

LEMMA IncrementKeepsMap ==
    ASSUME NEW c, IsMap(c), NEW t
    PROVE  /\ IsMap(Increment(c, t))
           /\ Total(c) \in Nat
           /\ Total(Increment(c, t)) = Total(c) + 1
<1>1. /\ IsFiniteSet(DOMAIN c \cup {t})
      /\ Increment(c, t) \in [DOMAIN c \cup {t} -> Nat]
      /\ Total(c) \in Nat
      /\ Total(Increment(c, t)) = Total(c) + 1
  BY IncrementCounts DEF IsMap
<1>2. DOMAIN Increment(c, t) = DOMAIN c \cup {t}
  BY <1>1
<1> QED BY <1>1, <1>2 DEF IsMap

\* The counting of a message keeps what Accounting says of the statistics.
LEMMA CountedAgrees ==
    ASSUME IsStats(stats), Agree(stats), NEW msg
    PROVE  /\ IsStats(Counted(msg)) /\ Agree(Counted(msg))
           /\ Counted(msg).processed = stats.processed + 1
           /\ Counted(msg).rejected = stats.rejected
<1> DEFINE ais == IF IsAis(msg) THEN 1 ELSE 0
           pos == IF HasPos(msg) THEN 1 ELSE 0
           key == IF IsAis(msg) THEN "VDM" ELSE TypeOf(msg)
           type == Increment(stats.byType, key)
           byA == IF IsAis(msg) THEN Increment(stats.byAis, TypeOf(msg)) ELSE stats.byAis
           c == Counted(msg)
<1> DEFINE both == pos * ais
           only == pos * (1 - ais)
<1>1. c = [stats EXCEPT !.processed = @ + 1, !.byType = type, !.aisDecoded = @ + ais,
             !.byAis = byA, !.pos = @ + pos, !.aisPos = @ + both, !.nmeaPos = @ + only]
  BY DEF Counted
<1>2. /\ ais \in {0, 1} /\ pos \in {0, 1}
      /\ pos * ais \in {0, 1} /\ pos * ais <= ais
      /\ pos * (1 - ais) \in {0, 1} /\ pos * (1 - ais) <= 1 - ais
      /\ pos = pos * (1 - ais) + pos * ais
  OBVIOUS
<1>3. /\ IsMap(type) /\ Total(type) = Total(stats.byType) + 1
  BY IncrementKeepsMap DEF IsStats
<1>4. /\ IsMap(byA) /\ Total(byA) = Total(stats.byAis) + ais
  <2>1. CASE IsAis(msg)
    BY <2>1, IncrementKeepsMap DEF IsStats
  <2>2. CASE ~ IsAis(msg)
    <3>1. Total(stats.byAis) \in Nat
      BY IncrementKeepsMap DEF IsStats
    <3> QED BY <2>2, <3>1 DEF IsStats
  <2> QED BY <2>1, <2>2
<1>5. /\ both \in {0, 1} /\ only \in {0, 1} /\ both <= ais /\ only <= 1 - ais
      /\ pos = only + both
  BY <1>2
<1> HIDE DEF both, only, ais, pos, type, byA, key, c
<1>6. c = [processed |-> stats.processed + 1, rejected |-> stats.rejected,
            aisDecoded |-> stats.aisDecoded + ais, pos |-> stats.pos + pos,
            nmeaPos |-> stats.nmeaPos + only, aisPos |-> stats.aisPos + both,
            byType |-> type, byAis |-> byA]
  BY <1>1 DEF IsStats
<1>7. IsStats(c)
  BY <1>2, <1>3, <1>4, <1>5, <1>6 DEF IsStats
<1>8. Agree(c)
  BY <1>2, <1>3, <1>4, <1>5, <1>6 DEF IsStats, Agree
<1>9. c.processed = stats.processed + 1 /\ c.rejected = stats.rejected
  BY <1>6
<1> QED BY <1>7, <1>8, <1>9 DEF c

LEMMA RejectedAgrees ==
    ASSUME NEW s, IsStats(s), Agree(s)
    PROVE  /\ IsStats(Rejected(s)) /\ Agree(Rejected(s))
           /\ Rejected(s).processed = s.processed
           /\ Rejected(s).rejected = s.rejected + 1
<1>1. Rejected(s) = [processed |-> s.processed, rejected |-> s.rejected + 1,
            aisDecoded |-> s.aisDecoded, pos |-> s.pos, nmeaPos |-> s.nmeaPos,
            aisPos |-> s.aisPos, byType |-> s.byType, byAis |-> s.byAis]
  BY DEF IsStats, Rejected
<1> QED BY <1>1 DEF IsStats, Agree

LEMMA NothingCounted == IsStats(Zero) /\ Agree(Zero)
<1>1. NoCounts \in [{} -> Nat] /\ DOMAIN NoCounts = {}
  BY DEF NoCounts
<1>2. IsMap(NoCounts)
  BY <1>1, FS_EmptySet DEF IsMap
<1>3. Total(NoCounts) = 0
  BY <1>1, NoCountersNoSum
<1> QED BY <1>2, <1>3 DEF Zero, IsStats, Agree

LEMMA CountingInit == Init => Counting
BY NothingCounted DEF Init, Counting, Zero

LEMMA CountingStep ==
    ASSUME Counting, [Next]_vars
    PROVE  Counting'
<1>1. ASSUME NEW msg, ProcMsg(msg)
      PROVE  Counting'
  <2>1. /\ given' = given + 1 /\ given \in Nat /\ failed \in Nat
        /\ stats.processed \in Nat /\ stats.rejected \in Nat
        /\ stats.processed + stats.rejected = given + failed
    BY <1>1 DEF ProcMsg, Counting, IsStats
  <2>2. /\ IsStats(Counted(msg)) /\ Agree(Counted(msg))
        /\ Counted(msg).processed = stats.processed + 1
        /\ Counted(msg).rejected = stats.rejected
    BY CountedAgrees DEF Counting
  <2>3. CASE stats' = Rejected(stats) /\ failed' = failed
    <3>1. /\ IsStats(stats') /\ Agree(stats')
          /\ stats'.processed = stats.processed
          /\ stats'.rejected = stats.rejected + 1
      BY <2>3, RejectedAgrees DEF Counting
    <3> QED BY <2>1, <2>3, <3>1 DEF Counting
  <2>4. CASE stats' = Counted(msg) /\ failed' = failed
    BY <2>1, <2>2, <2>4 DEF Counting
  <2>5. CASE stats' = Rejected(Counted(msg)) /\ failed' = failed + 1
    <3>1. /\ IsStats(stats') /\ Agree(stats')
          /\ stats'.processed = stats.processed + 1
          /\ stats'.rejected = stats.rejected + 1
      BY <2>2, <2>5, RejectedAgrees
    <3> QED BY <2>1, <2>5, <3>1 DEF Counting
  <2> QED BY <1>1, <2>3, <2>4, <2>5 DEF ProcMsg
<1>2. CASE UNCHANGED <<stats, given, failed>>
  BY <1>2 DEF Counting
<1>3. CASE Initialize
  BY <1>3, NothingCounted DEF Initialize, Reset, Counting, Zero
<1> QED BY <1>1, <1>2, <1>3, ResultSteps DEF results

LEMMA CountingIsAccounting == Counting => Accounting
BY DEF Counting, Accounting, Agree
------------------------------------------------------------------------------
(***************************************************************************)
(* The line buffer.                                                        *)
(***************************************************************************)
LEMMA RunType ==
    ASSUME NEW q \in Nat, NEW n \in Nat
    PROVE  /\ Run(q, n) \in Seq(Nat) /\ Len(Run(q, n)) = n
           /\ DOMAIN Run(q, n) = 1 .. n
           /\ \A i \in 1 .. n : Run(q, n)[i] = q + i
           /\ Run(q, n) = << >> <=> n = 0
BY DEF Run

\* Bytes put behind a run that ends in front of them make it longer.
LEMMA RunGrows ==
    ASSUME NEW q \in Nat, NEW m \in Nat, NEW n \in Nat
    PROVE  Run(q, m) \o Run(q + m, n) = Run(q, m + n)
<1> DEFINE s == Run(q, m)
           t == Run(q + m, n)
           u == Run(q, m + n)
<1>1. s \in Seq(Nat) /\ Len(s) = m /\ \A i \in 1 .. m : s[i] = q + i
  BY RunType
<1>2. t \in Seq(Nat) /\ Len(t) = n /\ \A i \in 1 .. n : t[i] = q + m + i
  <2>1. q + m \in Nat
    OBVIOUS
  <2> QED BY <2>1, RunType
<1>3. u \in Seq(Nat) /\ Len(u) = m + n /\ \A i \in 1 .. m + n : u[i] = q + i
  <2>1. m + n \in Nat
    OBVIOUS
  <2> QED BY <2>1, RunType
<1> HIDE DEF s, t, u
<1>4. /\ s \o t \in Seq(Nat)
      /\ Len(s \o t) = m + n
      /\ \A i \in 1 .. m + n : (s \o t)[i] = IF i <= m THEN s[i] ELSE t[i - m]
  BY <1>1, <1>2, ConcatProperties
<1>5. ASSUME NEW i \in 1 .. m + n
      PROVE  (s \o t)[i] = u[i]
  <2>1. CASE i <= m
    BY <1>1, <1>3, <1>4, <2>1
  <2>2. CASE ~ (i <= m)
    <3>1. i - m \in 1 .. n /\ q + m + (i - m) = q + i
      BY <2>2
    <3>2. t[i - m] = q + i
      BY <1>2, <3>1
    <3> QED BY <1>3, <1>4, <2>2, <3>2
  <2> QED BY <2>1, <2>2
<1>6. s \o t = u
  BY <1>3, <1>4, <1>5, SeqEqual
<1> QED BY <1>6 DEF s, t, u

\* A piece of a run.
LEMMA RunPiece ==
    ASSUME NEW q \in Nat, NEW m \in Nat, NEW i \in 1 .. m + 1, NEW j \in i - 1 .. m
    PROVE  SubSeq(Run(q, m), i, j) = Run(q + i - 1, j - i + 1)
<1> DEFINE piece == SubSeq(Run(q, m), i, j)
<1>1. \A k \in i .. j : Run(q, m)[k] \in Nat /\ Run(q, m)[k] = q + k
  <2>1. \A k \in i .. j : k \in 1 .. m /\ q + k \in Nat
    OBVIOUS
  <2>2. \A k \in 1 .. m : Run(q, m)[k] = q + k
    BY RunType
  <2> QED BY <2>1, <2>2
<1>2. i \in Int /\ j \in Int /\ q + i - 1 \in Nat /\ j - i + 1 \in Nat
  OBVIOUS
<1>3. /\ piece \in Seq(Nat)
      /\ Len(piece) = j - i + 1
      /\ \A k \in 1 .. j - i + 1 : piece[k] = Run(q, m)[i + k - 1]
  <2>1. /\ piece \in Seq(Nat)
        /\ Len(piece) = IF i <= j THEN j - i + 1 ELSE 0
        /\ \A k \in 1 .. j - i + 1 : piece[k] = Run(q, m)[i + k - 1]
    BY <1>1, <1>2, SubSeqProperties
  <2> QED BY <2>1
<1>4. /\ Run(q + i - 1, j - i + 1) \in Seq(Nat)
      /\ Len(Run(q + i - 1, j - i + 1)) = j - i + 1
      /\ \A k \in 1 .. j - i + 1 : Run(q + i - 1, j - i + 1)[k] = q + i - 1 + k
  BY <1>2, RunType
<1>5. ASSUME NEW k \in 1 .. j - i + 1
      PROVE  piece[k] = Run(q + i - 1, j - i + 1)[k]
  <2>1. i + k - 1 \in i .. j /\ q + (i + k - 1) = q + i - 1 + k
    OBVIOUS
  <2>2. Run(q, m)[i + k - 1] = q + (i + k - 1)
    BY <1>1, <2>1
  <2> QED BY <1>3, <1>4, <2>1, <2>2
<1> HIDE DEF piece
<1>6. piece = Run(q + i - 1, j - i + 1)
  BY <1>3, <1>4, <1>5, SeqEqual
<1> QED BY <1>6 DEF piece

\* The lines are pairs of bytes, and finitely many.
LEMMA LinesInType ==
    ASSUME NEW b \in Nat, NEW q \in Nat
    PROVE  /\ IsFiniteSet(LinesIn(b, q)) /\ Cardinality(LinesIn(b, q)) \in Nat
           /\ \A f, l \in Nat : <<f, l>> \in LinesIn(b, q) <=> IsLineIn(b, q, f, l)
           /\ \A r \in LinesIn(b, q) :
                \E f, l \in Nat : r = <<f, l>> /\ IsLineIn(b, q, f, l)
<1> DEFINE Pairs == (b + 1 .. q) \X (b + 1 .. q)
<1>1. IsFiniteSet(Pairs)
  <2>1. b + 1 \in Int /\ q \in Int
    OBVIOUS
  <2>2. IsFiniteSet(b + 1 .. q)
    BY <2>1, FS_Interval
  <2> QED BY <2>2, FS_Product
<1>2. IsFiniteSet(LinesIn(b, q)) /\ Cardinality(LinesIn(b, q)) \in Nat
  <2>1. LinesIn(b, q) \in SUBSET Pairs
    BY DEF LinesIn
  <2> QED BY <1>1, <2>1, FS_Subset, FS_CardinalityType
<1>3. ASSUME NEW f \in Nat, NEW l \in Nat
      PROVE  <<f, l>> \in LinesIn(b, q) <=> IsLineIn(b, q, f, l)
  <2>1. IsLineIn(b, q, f, l) => f \in b + 1 .. q /\ l \in b + 1 .. q
    BY DEF IsLineIn
  <2>2. <<f, l>>[1] = f /\ <<f, l>>[2] = l
    OBVIOUS
  <2> QED BY <2>1, <2>2 DEF LinesIn
<1>4. ASSUME NEW r \in LinesIn(b, q)
      PROVE  \E f, l \in Nat : r = <<f, l>> /\ IsLineIn(b, q, f, l)
  <2>1. r \in Pairs /\ IsLineIn(b, q, r[1], r[2])
    BY DEF LinesIn
  <2>2. r = <<r[1], r[2]>> /\ r[1] \in b + 1 .. q /\ r[2] \in b + 1 .. q
    BY <2>1
  <2> QED BY <2>1, <2>2
<1> QED BY <1>2, <1>3, <1>4

LEMMA LinesEqual ==
    ASSUME NEW b \in Nat, NEW q \in Nat, NEW c \in Nat, NEW s \in Nat,
           \A f, l \in Nat : IsLineIn(b, q, f, l) <=> IsLineIn(c, s, f, l)
    PROVE  LinesIn(b, q) = LinesIn(c, s)
<1>1. ASSUME NEW r \in LinesIn(b, q) PROVE r \in LinesIn(c, s)
  BY LinesInType
<1>2. ASSUME NEW r \in LinesIn(c, s) PROVE r \in LinesIn(b, q)
  BY LinesInType
<1> QED BY <1>1, <1>2

\* Bytes in which no line ends change nothing.
LEMMA NoEndNoLine ==
    ASSUME NEW b \in Nat, NEW q \in Nat, NEW s \in Nat, b <= q, q <= s,
           q = b \/ IsEnd(q), \A p \in q + 1 .. s : ~ IsEnd(p)
    PROVE  LinesIn(b, s) = LinesIn(b, q)
<1>1. ASSUME NEW f \in Nat, NEW l \in Nat
      PROVE  IsLineIn(b, s, f, l) <=> IsLineIn(b, q, f, l)
  <2>1. IsLineIn(b, q, f, l) => IsLineIn(b, s, f, l)
    BY DEF IsLineIn
  <2>2. ASSUME IsLineIn(b, s, f, l), ~ (l < q) PROVE FALSE
    <3>1. l + 1 \in q + 1 .. s /\ IsEnd(l + 1)
      BY <2>2 DEF IsLineIn
    <3> QED BY <3>1
  <2> QED BY <2>1, <2>2 DEF IsLineIn
<1> QED BY <1>1, LinesEqual

\* A line of n bytes and line ends up to s add this line, if it has a byte.
LEMMA OneMoreLine ==
    ASSUME NEW b \in Nat, NEW q \in Nat, NEW n \in Nat, NEW s \in Nat,
           b <= q, q = b \/ IsEnd(q), q + n < s,
           \A p \in q + 1 .. q + n : ~ IsEnd(p),
           \A p \in q + n + 1 .. s : IsEnd(p),
           NEW f \in Nat, NEW l \in Nat
    PROVE  IsLineIn(b, s, f, l) <=>
             IsLineIn(b, q, f, l) \/ (n > 0 /\ f = q + 1 /\ l = q + n)
<1>1. IsLineIn(b, q, f, l) => IsLineIn(b, s, f, l)
  BY DEF IsLineIn
<1>2. ASSUME n > 0, f = q + 1, l = q + n PROVE IsLineIn(b, s, f, l)
  <2>1. IsEnd(l + 1)
    BY <1>2
  <2>2. f = b + 1 \/ IsEnd(f - 1)
    BY <1>2
  <2> QED BY <1>2, <2>1, <2>2 DEF IsLineIn
<1>3. ASSUME IsLineIn(b, s, f, l), ~ IsLineIn(b, q, f, l)
      PROVE  n > 0 /\ f = q + 1 /\ l = q + n
  <2>1. /\ b < f /\ f <= l /\ l < s /\ IsEnd(l + 1)
        /\ f = b + 1 \/ IsEnd(f - 1)
        /\ \A p \in f .. l : ~ IsEnd(p)
    BY <1>3 DEF IsLineIn
  <2>2. ~ (l < q)
    BY <1>3, <2>1 DEF IsLineIn
  <2>3. q < f
    <3>1. CASE q = b
      BY <2>1, <3>1
    <3>2. CASE IsEnd(q)
      <4>1. ~ (q \in f .. l)
        BY <2>1, <3>2
      <4> QED BY <2>2, <4>1
    <3> QED BY <3>1, <3>2
  <2>4. l <= q + n
    <3>1. ~ IsEnd(l) /\ l <= s
      BY <2>1
    <3> QED BY <3>1
  <2>5. l = q + n
    <3>1. ~ (l + 1 \in q + 1 .. q + n)
      BY <2>1
    <3> QED BY <2>1, <2>3, <2>4, <3>1
  <2>6. f = q + 1
    <3>1. CASE f = b + 1
      BY <2>3, <3>1
    <3>2. CASE IsEnd(f - 1)
      <4>1. ~ (f - 1 \in q + 1 .. q + n)
        BY <3>2
      <4> QED BY <2>1, <2>3, <2>5, <4>1
    <3> QED BY <2>1, <3>1, <3>2
  <2> QED BY <2>1, <2>5, <2>6
<1> QED BY <1>1, <1>2, <1>3

LEMMA OneMoreInSet ==
    ASSUME NEW b \in Nat, NEW q \in Nat, NEW n \in Nat, NEW s \in Nat,
           b <= q, q = b \/ IsEnd(q), q + n < s,
           \A p \in q + 1 .. q + n : ~ IsEnd(p),
           \A p \in q + n + 1 .. s : IsEnd(p)
    PROVE  IF n = 0 THEN LinesIn(b, s) = LinesIn(b, q)
           ELSE Cardinality(LinesIn(b, s)) = Cardinality(LinesIn(b, q)) + 1
<1>1. \A f, l \in Nat : IsLineIn(b, s, f, l) <=>
        IsLineIn(b, q, f, l) \/ (n > 0 /\ f = q + 1 /\ l = q + n)
  BY OneMoreLine
<1>2. CASE n = 0
  <2>1. \A f, l \in Nat : IsLineIn(b, s, f, l) <=> IsLineIn(b, q, f, l)
    BY <1>1, <1>2
  <2>2. LinesIn(b, s) = LinesIn(b, q)
    BY <2>1, LinesEqual
  <2> QED BY <1>2, <2>2
<1>3. CASE n # 0
  <2> DEFINE new == <<q + 1, q + n>>
  <2>1. q + 1 \in Nat /\ q + n \in Nat /\ n > 0
    BY <1>3
  <2>2. new \notin LinesIn(b, q)
    <3>1. ~ IsLineIn(b, q, q + 1, q + n)
      BY DEF IsLineIn
    <3> QED BY <2>1, <3>1, LinesInType
  <2>3. LinesIn(b, s) = LinesIn(b, q) \cup {new}
    <3>1. ASSUME NEW r \in LinesIn(b, s) PROVE r \in LinesIn(b, q) \cup {new}
      <4>1. PICK f \in Nat, l \in Nat : r = <<f, l>> /\ IsLineIn(b, s, f, l)
        BY LinesInType
      <4>2. CASE IsLineIn(b, q, f, l)
        <5>1. <<f, l>> \in LinesIn(b, q)
          BY <4>2, LinesInType
        <5> QED BY <4>1, <5>1
      <4>3. CASE f = q + 1 /\ l = q + n
        BY <4>1, <4>3
      <4> QED BY <1>1, <4>1, <4>2, <4>3
    <3>2. ASSUME NEW r \in LinesIn(b, q) PROVE r \in LinesIn(b, s)
      <4>1. PICK f \in Nat, l \in Nat : r = <<f, l>> /\ IsLineIn(b, q, f, l)
        BY LinesInType
      <4>2. <<f, l>> \in LinesIn(b, s)
        BY <1>1, <4>1, LinesInType
      <4> QED BY <4>1, <4>2
    <3>3. new \in LinesIn(b, s)
      <4>1. IsLineIn(b, s, q + 1, q + n)
        BY <1>1, <2>1
      <4> QED BY <2>1, <4>1, LinesInType
    <3> HIDE DEF new
    <3> QED BY <3>1, <3>2, <3>3
  <2>4. IsFiniteSet(LinesIn(b, q))
    BY LinesInType
  <2> HIDE DEF new
  <2>5. Cardinality(LinesIn(b, s)) = Cardinality(LinesIn(b, q)) + 1
    BY <2>2, <2>3, <2>4, FS_AddElement
  <2> QED BY <1>3, <2>5
<1> QED BY <1>2, <1>3

\* The last byte of a line of the sequence.
LEMMA LastOfRun ==
    ASSUME NEW f \in Nat, NEW l \in Nat, 0 < f, f <= l
    PROVE  /\ Run(f - 1, l - f + 1) \in Seq(Nat) \ {<< >>}
           /\ Head(Run(f - 1, l - f + 1)) = f
           /\ Last(Run(f - 1, l - f + 1)) = l
           /\ Run(f - 1, l - f + 1) = [i \in 1 .. l - f + 1 |-> f + i - 1]
<1> DEFINE line == Run(f - 1, l - f + 1)
<1>1. f - 1 \in Nat /\ l - f + 1 \in Nat /\ l - f + 1 # 0
  OBVIOUS
<1>2. /\ line \in Seq(Nat) /\ Len(line) = l - f + 1 /\ line # << >>
      /\ \A i \in 1 .. l - f + 1 : line[i] = f - 1 + i
  BY <1>1, RunType
<1>3. line = [i \in 1 .. l - f + 1 |-> f + i - 1]
  <2>1. \A i \in 1 .. l - f + 1 : f - 1 + i = f + i - 1
    OBVIOUS
  <2> QED BY <2>1 DEF Run
<1> HIDE DEF line
<1>4. Head(line) = f
  <2>1. Head(line) = line[1]
    BY <1>2
  <2>2. 1 \in 1 .. l - f + 1
    OBVIOUS
  <2> QED BY <1>2, <2>1, <2>2
<1>5. Last(line) = l
  <2>1. l - f + 1 \in 1 .. l - f + 1
    OBVIOUS
  <2> QED BY <1>2, <2>1 DEF Last
<1> QED BY <1>2, <1>3, <1>4, <1>5 DEF line

\* When a line of n bytes is cut and given to ProcMsg unless it is empty, the
\* sequence is again that of the lines.
LEMMA LineAppended ==
    ASSUME NEW b \in Nat, NEW q \in Nat, NEW n \in Nat, NEW s \in Nat,
           b <= q, q = b \/ IsEnd(q), q + n < s,
           \A p \in q + 1 .. q + n : ~ IsEnd(p),
           \A p \in q + n + 1 .. s : IsEnd(p),
           NEW ls, AreLinesIn(ls, b, q)
    PROVE  /\ n = 0 => AreLinesIn(ls, b, s)
           /\ n # 0 => AreLinesIn(Append(ls, Run(q, n)), b, s)
<1>1. /\ ls \in Seq(Seq(Nat) \ {<< >>}) /\ Len(ls) \in Nat
      /\ Len(ls) = Cardinality(LinesIn(b, q))
  BY LenProperties DEF AreLinesIn
<1>2. \A f, l \in Nat : IsLineIn(b, q, f, l) => IsLineIn(b, s, f, l)
  BY OneMoreLine
<1>3. \A k \in 1 .. Len(ls) : \E f \in Nat, l \in Nat :
        /\ IsLineIn(b, q, f, l)
        /\ ls[k] = Run(f - 1, l - f + 1)
        /\ k > 1 => Last(ls[k - 1]) < f
  BY DEF AreLinesIn
<1>4. CASE n = 0
  <2>1. Cardinality(LinesIn(b, s)) = Cardinality(LinesIn(b, q))
    BY <1>4, OneMoreInSet
  <2>2. \A k \in 1 .. Len(ls) : \E f \in Nat, l \in Nat :
          /\ IsLineIn(b, s, f, l)
          /\ ls[k] = Run(f - 1, l - f + 1)
          /\ k > 1 => Last(ls[k - 1]) < f
    BY <1>2, <1>3
  <2> QED BY <1>1, <1>4, <2>1, <2>2 DEF AreLinesIn
<1>5. CASE n # 0
  <2> DEFINE line == Run(q, n)
             more == Append(ls, line)
  <2>1. line \in Seq(Nat) \ {<< >>}
    BY <1>5, RunType
  <2>2. line = Run((q + 1) - 1, (q + n) - (q + 1) + 1)
    <3>1. (q + 1) - 1 = q /\ (q + n) - (q + 1) + 1 = n
      OBVIOUS
    <3> QED BY <3>1
  <2> HIDE DEF line
  <2>3. /\ more \in Seq(Seq(Nat) \ {<< >>}) /\ Len(more) = Len(ls) + 1
        /\ \A k \in 1 .. Len(ls) : more[k] = ls[k]
        /\ more[Len(ls) + 1] = line
    BY <1>1, <2>1, AppendProperties
  <2> HIDE DEF more
  <2>4. Cardinality(LinesIn(b, s)) = Cardinality(LinesIn(b, q)) + 1
    BY <1>5, OneMoreInSet
  <2>5. ASSUME NEW k \in 1 .. Len(ls)
        PROVE  \E f \in Nat, l \in Nat :
                 /\ IsLineIn(b, s, f, l)
                 /\ more[k] = Run(f - 1, l - f + 1)
                 /\ k > 1 => Last(more[k - 1]) < f
    <3>1. PICK f \in Nat, l \in Nat :
            /\ IsLineIn(b, q, f, l)
            /\ ls[k] = Run(f - 1, l - f + 1)
            /\ k > 1 => Last(ls[k - 1]) < f
      BY <1>3
    <3>2. k > 1 => more[k - 1] = ls[k - 1]
      <4>1. k > 1 => k - 1 \in 1 .. Len(ls)
        BY <1>1
      <4> QED BY <2>3, <4>1
    <3> QED BY <1>2, <2>3, <3>1, <3>2
  <2>6. ASSUME NEW k \in {Len(ls) + 1}
        PROVE  \E f \in Nat, l \in Nat :
                 /\ IsLineIn(b, s, f, l)
                 /\ more[k] = Run(f - 1, l - f + 1)
                 /\ k > 1 => Last(more[k - 1]) < f
    <3>1. q + 1 \in Nat /\ q + n \in Nat /\ IsLineIn(b, s, q + 1, q + n)
      <4>1. q + 1 \in Nat /\ q + n \in Nat /\ n > 0
        BY <1>5
      <4>2. \A f, l \in Nat : n > 0 /\ f = q + 1 /\ l = q + n => IsLineIn(b, s, f, l)
        BY OneMoreLine
      <4> QED BY <4>1, <4>2
    <3>2. more[k] = Run((q + 1) - 1, (q + n) - (q + 1) + 1)
      BY <2>2, <2>3
    <3>3. ASSUME k > 1 PROVE Last(more[k - 1]) < q + 1
      <4>1. k - 1 \in 1 .. Len(ls)
        BY <1>1, <3>3
      <4>2. PICK f \in Nat, l \in Nat :
              IsLineIn(b, q, f, l) /\ ls[k - 1] = Run(f - 1, l - f + 1)
        BY <1>3, <4>1
      <4>3. 0 < f /\ f <= l /\ l < q
        BY <4>2 DEF IsLineIn
      <4>4. Last(ls[k - 1]) = l
        BY <4>2, <4>3, LastOfRun
      <4>5. more[k - 1] = ls[k - 1]
        BY <2>3, <4>1
      <4>6. l < q + 1
        BY <4>3
      <4> QED BY <4>4, <4>5, <4>6
    <3> QED BY <3>1, <3>2, <3>3
  <2>7. AreLinesIn(more, b, s)
    <3>1. \A k \in 1 .. Len(more) : k \in 1 .. Len(ls) \/ k \in {Len(ls) + 1}
      BY <1>1, <2>3
    <3>2. \A k \in 1 .. Len(more) : \E f \in Nat, l \in Nat :
            /\ IsLineIn(b, s, f, l)
            /\ more[k] = Run(f - 1, l - f + 1)
            /\ k > 1 => Last(more[k - 1]) < f
      BY <2>5, <2>6, <3>1
    <3> QED BY <1>1, <2>3, <2>4, <3>2 DEF AreLinesIn
  <2> QED BY <1>5, <2>7 DEF more, line
<1> QED BY <1>4, <1>5

\* CutLine takes the first line and the line ends behind it out of the buffer.
LEMMA LineCut ==
    ASSUME NEW q \in Nat, fed \in Nat, q <= fed, m_lineBuffer = Run(q, fed - q),
           NEW end \in LineEndPos
    PROVE  /\ end \in 1 .. fed - q
           /\ \A p \in q + 1 .. q + end - 1 : ~ IsEnd(p)
           /\ SubSeq(m_lineBuffer, 1, end - 1) = Run(q, end - 1)
           /\ \E s \in q + end .. fed :
                /\ Rest(end) = Run(s, fed - s)
                /\ \A p \in q + end .. s : IsEnd(p)
<1> DEFINE m == fed - q
<1>1. m \in Nat /\ q + m = fed
  OBVIOUS
<1>2. /\ DOMAIN m_lineBuffer = 1 .. m /\ Len(m_lineBuffer) = m
      /\ \A i \in 1 .. m : m_lineBuffer[i] = q + i
  BY <1>1, RunType
<1> HIDE DEF m
<1>3. /\ end \in 1 .. m /\ IsEnd(q + end)
      /\ \A j \in 1 .. end - 1 : ~ IsEnd(q + j)
  <2>1. /\ end \in 1 .. m /\ IsEnd(m_lineBuffer[end])
        /\ \A j \in 1 .. end - 1 : ~ IsEnd(m_lineBuffer[j])
    BY <1>2 DEF LineEndPos
  <2>2. \A j \in 1 .. end - 1 : j \in 1 .. m
    BY <1>1, <2>1
  <2> QED BY <1>2, <2>1, <2>2
<1>4. ASSUME NEW p \in q + 1 .. q + end - 1 PROVE ~ IsEnd(p)
  <2>1. p - q \in 1 .. end - 1 /\ q + (p - q) = p
    BY <1>1, <1>3
  <2> QED BY <1>3, <2>1
<1>5. SubSeq(m_lineBuffer, 1, end - 1) = Run(q, end - 1)
  <2>1. 1 \in 1 .. m + 1 /\ end - 1 \in 1 - 1 .. m /\ q + 1 - 1 = q
        /\ end - 1 - 1 + 1 = end - 1
    BY <1>1, <1>3
  <2>2. SubSeq(Run(q, m), 1, end - 1) = Run(q + 1 - 1, end - 1 - 1 + 1)
    BY <1>1, <2>1, RunPiece
  <2> QED BY <2>1, <2>2 DEF m
<1> DEFINE behind == {i \in end + 1 .. Len(m_lineBuffer) : ~ IsEnd(m_lineBuffer[i])}
<1>6. /\ behind \in SUBSET Nat
      /\ \A i \in Nat : i \in behind <=> i \in end + 1 .. m /\ ~ IsEnd(q + i)
  BY <1>1, <1>2, <1>3
<1>7. Rest(end) = IF behind = {} THEN << >> ELSE SubSeq(m_lineBuffer, Min(behind), m)
  BY <1>2 DEF Rest
<1> HIDE DEF behind
<1>8. CASE behind = {}
  <2>1. ASSUME NEW p \in q + end .. fed PROVE IsEnd(p)
    <3>1. p - q \in Nat /\ q + (p - q) = p /\ p - q \in end .. m
      BY <1>1, <1>3
    <3>2. CASE p - q = end
      BY <1>3, <3>1, <3>2
    <3>3. CASE p - q # end
      <4>1. p - q \in end + 1 .. m
        BY <1>1, <1>3, <3>1, <3>3
      <4> QED BY <1>6, <1>8, <3>1, <4>1
    <3> QED BY <3>2, <3>3
  <2>2. Rest(end) = Run(fed, fed - fed)
    <3>1. Run(fed, 0) = << >>
      BY RunType
    <3> QED BY <1>7, <1>8, <3>1
  <2>3. fed \in q + end .. fed
    BY <1>1, <1>3
  <2> QED BY <1>1, <1>3, <1>4, <1>5, <2>1, <2>2, <2>3 DEF m
<1>9. CASE behind # {}
  <2> DEFINE k == Min(behind)
             s == q + k - 1
  <2>1. k \in behind /\ \A i \in behind : k <= i
    <3>1. \E x \in behind : \A y \in behind : x <= y
      BY <1>6, <1>9, LeastNumber
    <3> QED BY <3>1 DEF Min
  <2> HIDE DEF k
  <2>2. k \in end + 1 .. m /\ k \in Nat
    BY <1>6, <2>1
  <2>3. s \in q + end .. fed /\ s \in Nat /\ fed - s = m - k + 1
    BY <1>1, <1>3, <2>2
  <2>4. ASSUME NEW p \in q + end .. s PROVE IsEnd(p)
    <3>1. p - q \in Nat /\ q + (p - q) = p /\ p - q \in end .. k - 1
      BY <1>1, <1>3, <2>2
    <3>2. CASE p - q = end
      BY <1>3, <3>1, <3>2
    <3>3. CASE p - q # end
      <4>1. p - q \in end + 1 .. m /\ ~ (k <= p - q)
        BY <1>1, <1>3, <2>2, <3>1, <3>3
      <4>2. p - q \notin behind
        BY <2>1, <4>1
      <4> QED BY <1>6, <3>1, <4>1, <4>2
    <3> QED BY <3>2, <3>3
  <2>5. Rest(end) = Run(s, fed - s)
    <3>1. k \in 1 .. m + 1 /\ m \in k - 1 .. m
      BY <1>1, <1>3, <2>2
    <3>2. SubSeq(Run(q, m), k, m) = Run(q + k - 1, m - k + 1)
      BY <1>1, <3>1, RunPiece
    <3>3. SubSeq(m_lineBuffer, k, m) = SubSeq(Run(q, m), k, m)
      BY DEF m
    <3>4. Rest(end) = SubSeq(m_lineBuffer, k, m)
      BY <1>7, <1>9 DEF k
    <3> QED BY <2>3, <3>2, <3>3, <3>4
  <2> QED BY <1>1, <1>3, <1>4, <1>5, <2>3, <2>4, <2>5 DEF m
<1> QED BY <1>8, <1>9

\* Without a line end at the front of the buffer there is none in it.
LEMMA NoEndLeft ==
    ASSUME NEW q \in Nat, fed \in Nat, q <= fed, m_lineBuffer = Run(q, fed - q),
           LineEndPos = {}
    PROVE  \A p \in q + 1 .. fed : ~ IsEnd(p)
<1> DEFINE m == fed - q
           Ends == {i \in 1 .. m : IsEnd(q + i)}
<1>1. m \in Nat /\ q + m = fed
  OBVIOUS
<1>2. /\ DOMAIN m_lineBuffer = 1 .. m
      /\ \A i \in 1 .. m : m_lineBuffer[i] = q + i
  BY <1>1, RunType
<1> HIDE DEF m
<1> SUFFICES ASSUME NEW p \in q + 1 .. fed, IsEnd(p) PROVE FALSE
  OBVIOUS
<1>3. p - q \in 1 .. m /\ q + (p - q) = p
  BY <1>1
<1>4. p - q \in Ends /\ Ends \in SUBSET Nat
  BY <1>3
<1>5. PICK i \in Ends : \A j \in Ends : i <= j
  <2> HIDE DEF Ends
  <2> QED BY <1>4, LeastNumber
<1>6. i \in 1 .. m /\ IsEnd(q + i)
  OBVIOUS
<1>7. ASSUME NEW j \in 1 .. i - 1 PROVE ~ IsEnd(q + j)
  <2>1. j \in 1 .. m /\ ~ (i <= j)
    BY <1>1, <1>6
  <2> QED BY <1>5, <2>1
<1>8. i \in LineEndPos
  <2>1. \A j \in 1 .. i - 1 : ~ IsEnd(m_lineBuffer[j])
    <3>1. \A j \in 1 .. i - 1 : j \in 1 .. m
      BY <1>1, <1>6
    <3> QED BY <1>2, <1>7, <3>1
  <2> QED BY <1>2, <1>6, <2>1 DEF LineEndPos
<1> QED BY <1>8

\* An empty buffer, cleared or from the beginning.
LEMMA EmptyBuffer ==
    ASSUME NEW b \in Nat
    PROVE  /\ AreLinesIn(<< >>, b, b)
           /\ << >> = Run(b, b - b)
           /\ b \in b .. b
           /\ \A p \in b + 1 .. b : ~ IsEnd(p)
<1>1. Run(b, 0) = << >> /\ b - b = 0
  BY RunType
<1>2. AreLinesIn(<< >>, b, b)
  <2>1. LinesIn(b, b) = {}
    <3>1. b + 1 .. b = {}
      OBVIOUS
    <3> QED BY <3>1 DEF LinesIn
  <2>2. << >> \in Seq(Seq(Nat) \ {<< >>}) /\ Len(<< >>) = 0
    BY EmptySeq
  <2> QED BY <2>1, <2>2, FS_EmptySet DEF AreLinesIn
<1> QED BY <1>1, <1>2

LEMMA CuttingInit == Init => Cutting
<1> SUFFICES ASSUME Init PROVE Cutting
  OBVIOUS
<1>1. /\ fed = 0 /\ begin = 0 /\ m_lineBuffer = << >> /\ lines = << >>
      /\ busy = FALSE
  BY DEF Init
<1>2. 0 \in begin .. fed /\ m_lineBuffer = Run(0, fed - 0) /\ AreLinesIn(lines, begin, 0)
  BY <1>1, EmptyBuffer
<1>3. \A p \in 0 + 1 .. fed : ~ IsEnd(p)
  BY <1>1
<1> QED BY <1>1, <1>2, <1>3 DEF Cutting

LEMMA CuttingStep ==
    ASSUME Cutting, [Next]_vars
    PROVE  Cutting'
<1> USE DEF Cutting
<1>1. PICK q \in begin .. fed :
        /\ m_lineBuffer = Run(q, fed - q)
        /\ q = begin \/ IsEnd(q)
        /\ ~ busy => \A p \in q + 1 .. fed : ~ IsEnd(p)
        /\ AreLinesIn(lines, begin, q)
  OBVIOUS
<1>2. /\ fed \in Nat /\ begin \in Nat /\ busy \in BOOLEAN /\ q \in Nat
      /\ begin <= q /\ q <= fed
  OBVIOUS
<1>3. CASE UNCHANGED <<busy, stream>>
  BY <1>1, <1>2, <1>3 DEF stream
<1>4. ASSUME NEW n \in 1 .. MaxChunk, WorkRaw(n)
      PROVE  Cutting'
  <2>1. n \in Nat
    BY <1>4, ModuleAssumption
  <2>2. /\ fed' = fed + n /\ begin' = begin /\ lines' = lines /\ busy' = TRUE
        /\ m_lineBuffer' = m_lineBuffer \o Run(fed, n)
    BY <1>4 DEF WorkRaw, Run
  <2>3. m_lineBuffer' = Run(q, fed' - q)
    <3>1. fed - q \in Nat /\ q + (fed - q) = fed /\ (fed - q) + n = fed' - q
      BY <1>2, <2>1, <2>2
    <3>2. Run(q, fed - q) \o Run(q + (fed - q), n) = Run(q, (fed - q) + n)
      <4> DEFINE m == fed - q
      <4>1. m \in Nat
        BY <3>1
      <4> HIDE DEF m
      <4>2. Run(q, m) \o Run(q + m, n) = Run(q, m + n)
        BY <1>2, <2>1, <4>1, RunGrows
      <4> QED BY <4>2 DEF m
    <3> HIDE DEF Cutting
    <3> QED BY <1>1, <2>2, <3>1, <3>2
  <2>4. q \in begin' .. fed' /\ fed' \in Nat
    BY <1>2, <2>1, <2>2
  <2> QED BY <1>1, <1>2, <2>2, <2>3, <2>4
<1>5. CASE CutLine
  <2>1. PICK end \in LineEndPos :
          /\ m_lineBuffer' = Rest(end)
          /\ IF SubSeq(m_lineBuffer, 1, end - 1) = << >> THEN lines' = lines
             ELSE lines' = Append(lines, SubSeq(m_lineBuffer, 1, end - 1))
    BY <1>5 DEF CutLine
  <2>2. busy /\ UNCHANGED <<busy, fed, begin>>
    BY <1>5 DEF CutLine
  <2>3. /\ end \in 1 .. fed - q
        /\ \A p \in q + 1 .. q + end - 1 : ~ IsEnd(p)
        /\ SubSeq(m_lineBuffer, 1, end - 1) = Run(q, end - 1)
    BY <1>1, <1>2, LineCut
  <2>4. PICK s \in q + end .. fed :
          /\ Rest(end) = Run(s, fed - s)
          /\ \A p \in q + end .. s : IsEnd(p)
    BY <1>1, <1>2, LineCut
  <2> DEFINE n == end - 1
  <2>5. /\ n \in Nat /\ s \in Nat /\ q + n < s /\ q + n + 1 = q + end
        /\ q + n = q + end - 1 /\ s \in begin .. fed
    BY <1>2, <2>3
  <2>6. /\ \A p \in q + 1 .. q + n : ~ IsEnd(p)
        /\ \A p \in q + n + 1 .. s : IsEnd(p)
    BY <2>3, <2>4, <2>5
  <2>7. /\ n = 0 => AreLinesIn(lines, begin, s)
        /\ n # 0 => AreLinesIn(Append(lines, Run(q, n)), begin, s)
    <3> HIDE DEF n
    <3> QED BY <1>1, <1>2, <2>5, <2>6, LineAppended
  <2>8. AreLinesIn(lines', begin, s)
    <3>1. Run(q, n) = << >> <=> n = 0
      BY <1>2, <2>5, RunType
    <3> QED BY <2>1, <2>3, <2>7, <3>1
  <2>9. IsEnd(s)
    BY <2>4, <2>5
  <2>10. m_lineBuffer' = Run(s, fed - s)
    BY <2>1, <2>4
  <2> QED BY <1>2, <2>2, <2>5, <2>8, <2>9, <2>10
<1>6. CASE RawDone
  <2>1. LineEndPos = {} /\ busy' = FALSE /\ UNCHANGED stream
    BY <1>6 DEF RawDone
  <2>2. \A p \in q + 1 .. fed : ~ IsEnd(p)
    BY <1>1, <1>2, <2>1, NoEndLeft
  <2> QED BY <1>1, <1>2, <2>1, <2>2 DEF stream
<1>7. CASE BufferCleared /\ UNCHANGED <<busy, fed>>
  <2>1. /\ fed' = fed /\ begin' = fed /\ lines' = << >> /\ m_lineBuffer' = << >>
        /\ busy' = busy
    BY <1>7 DEF BufferCleared
  <2>2. /\ AreLinesIn(<< >>, fed, fed) /\ << >> = Run(fed, fed - fed)
        /\ fed \in fed .. fed /\ \A p \in fed + 1 .. fed : ~ IsEnd(p)
    BY <1>2, EmptyBuffer
  <2> QED BY <1>2, <2>1, <2>2
<1> QED
  BY <1>3, <1>4, <1>5, <1>6, <1>7
     DEF Next, vars, Work450, Timing, Tick, Initialize, Free, Click,
         GetSettings, GetDefaults, ApplySettings, stream

LEMMA CuttingIsLinesCut == Cutting => LinesCut
<1> SUFFICES ASSUME Cutting, ~ busy PROVE LinesCut
  BY DEF LinesCut
<1>1. PICK q \in begin .. fed :
        /\ q = begin \/ IsEnd(q)
        /\ \A p \in q + 1 .. fed : ~ IsEnd(p)
        /\ AreLinesIn(lines, begin, q)
  BY DEF Cutting
<1>2. fed \in Nat /\ begin \in Nat /\ q \in Nat /\ begin <= q /\ q <= fed
  BY DEF Cutting
<1>3. LinesIn(begin, fed) = LinesIn(begin, q)
  BY <1>1, <1>2, NoEndNoLine
<1>4. LinesOfStream = LinesIn(begin, fed)
  BY <1>2 DEF LinesOfStream, LinesIn, IsLineIn
<1>5. Len(lines) = Cardinality(LinesOfStream) /\ DOMAIN lines = 1 .. Len(lines)
  BY <1>1, <1>3, <1>4, LenProperties DEF AreLinesIn
<1>6. ASSUME NEW n \in DOMAIN lines
      PROVE  /\ <<Head(lines[n]), Last(lines[n])>> \in LinesOfStream
             /\ lines[n] = [i \in 1 .. Last(lines[n]) - Head(lines[n]) + 1 |->
                              Head(lines[n]) + i - 1]
             /\ n > 1 => Last(lines[n - 1]) < Head(lines[n])
  <2>1. PICK f \in Nat, l \in Nat :
          /\ IsLineIn(begin, q, f, l)
          /\ lines[n] = Run(f - 1, l - f + 1)
          /\ n > 1 => Last(lines[n - 1]) < f
    BY <1>1, <1>5 DEF AreLinesIn
  <2>2. 0 < f /\ f <= l
    BY <1>2, <2>1 DEF IsLineIn
  <2>3. /\ Head(lines[n]) = f /\ Last(lines[n]) = l
        /\ lines[n] = [i \in 1 .. l - f + 1 |-> f + i - 1]
    BY <2>1, <2>2, LastOfRun
  <2>4. <<f, l>> \in LinesOfStream
    BY <1>2, <1>3, <1>4, <2>1, LinesInType
  <2> QED BY <2>1, <2>3, <2>4
<1> QED BY <1>5, <1>6 DEF LinesCut
------------------------------------------------------------------------------
(***************************************************************************)
(* The module.                                                             *)
(***************************************************************************)
LEMMA CourseStep ==
    ASSUME Course, [Next]_vars
    PROVE  Course'
<1>1. CASE Initialize
  BY <1>1, ModuleAssumption DEF Initialize, Course
<1>2. CASE Free
  BY <1>2 DEF Free, Course
<1>3. ASSUME NEW d \in Datagrams, Work450(d) PROVE Course'
  BY <1>3 DEF Work450, Course
<1>4. CASE UNCHANGED <<phase, starts, left>>
  BY <1>4 DEF Course
<1> QED
  BY <1>1, <1>2, <1>3, <1>4
     DEF Next, vars, WorkRaw, CutLine, RawDone, Timing, Tick, Click,
         GetSettings, GetDefaults, ApplySettings

\* The inductive invariant: every step of the host, of the parser and of the
\* loop over the lines keeps the settings, the counters and the line buffer.
THEOREM InductiveInvariant == Spec => []IInv
<1>1. Init => IInv
  <2>1. Init => SentAsChosen
    BY DEF Init, SentAsChosen
  <2>2. Init => Course
    BY ModuleAssumption DEF Init, Course
  <2> QED BY <2>1, <2>2, SettledInit, CountingInit, CuttingInit DEF IInv
<1>2. IInv /\ [Next]_vars => IInv'
  BY SettledStep, SentStep, CountingStep, CuttingStep, CourseStep DEF IInv
<1> QED BY <1>1, <1>2, PTL DEF Spec

\* The settings, the statistics, the line buffer and what is recorded of them
\* keep their types.
THEOREM TypeCorrect == Spec => []TypeOK
<1>1. IInv => TypeOK
  <2> SUFFICES ASSUME IInv PROVE TypeOK
    OBVIOUS
  <2>1. /\ settings \in Settings /\ chosen \in Settings /\ meant \in Settings
        /\ saved \in {<< >>} \cup {Printed(s) : s \in Settings}
    BY DEF IInv, Settled, SettingsKept
  <2>2. IsStats(stats) /\ given \in Nat /\ failed \in Nat
    BY DEF IInv, Counting
  <2>3. /\ fed \in Nat /\ begin \in Nat /\ busy \in BOOLEAN
        /\ m_lineBuffer \in Seq(Nat) /\ lines \in Seq(Seq(Nat) \ {<< >>})
    <3>1. fed \in Nat /\ begin \in Nat /\ busy \in BOOLEAN
      BY DEF IInv, Cutting
    <3>2. PICK q \in begin .. fed :
            m_lineBuffer = Run(q, fed - q) /\ AreLinesIn(lines, begin, q)
      BY DEF IInv, Cutting
    <3>3. q \in Nat /\ fed - q \in Nat
      BY <3>1
    <3> QED BY <3>1, <3>2, <3>3, RunType DEF AreLinesIn
  <2>4. Course
    BY DEF IInv
  <2> QED BY <2>1, <2>2, <2>3, <2>4 DEF TypeOK
<1> QED BY <1>1, InductiveInvariant, PTL

\* However the stream is cut into pieces, each line is given to ProcMsg once,
\* whole and in order.
THEOREM LinesAreCut == Spec => []LinesCut
<1>1. IInv => LinesCut
  BY CuttingIsLinesCut DEF IInv
<1> QED BY <1>1, InductiveInvariant, PTL

\* The statistics agree with one another and with what was given and sent.
THEOREM CountersAgree == Spec => []Accounting
<1>1. IInv => Accounting
  BY CountingIsAccounting DEF IInv
<1> QED BY <1>1, InductiveInvariant, PTL

\* What is sent is what the settings chosen last let through.
THEOREM OnlyChosenIsSent == Spec => []SentAsChosen
<1>1. IInv => SentAsChosen
  BY DEF IInv
<1> QED BY <1>1, InductiveInvariant, PTL

\* The settings survive being saved as text and loaded again.
THEOREM SettingsSurvive == Spec => []SettingsKept
<1>1. IInv => SettingsKept
  BY DEF IInv, Settled
<1> QED BY <1>1, InductiveInvariant, PTL
==============================================================================
