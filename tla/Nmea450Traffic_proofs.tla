------------------------ MODULE Nmea450Traffic_proofs ------------------------
(***************************************************************************)
(* For every set of messages, every surroundings and every time-out: what  *)
(* Nmea450Parser hands on.  A message is safe if its talker is patient and *)
(* a cleaner runs, or if no other message uses its id: then it is alone at *)
(* its id as long as anything of it is about, so that what the pool holds  *)
(* there is its own.                                                       *)
(***************************************************************************)
EXTENDS Nmea450Traffic, NumberLemmas, FiniteSetTheorems, TLAPS

\* The state of the parser and of what surrounds it.
PoolTypeOK ==
    /\ DOMAIN pool \subseteq Groups
    /\ \A g \in DOMAIN pool :
         /\ pool[g] = [total |-> pool[g].total, lines |-> pool[g].lines, age |-> pool[g].age]
         /\ pool[g].total \in Nat /\ pool[g].age \in 0 .. Timeout + 1
TypeOK ==
    /\ deployment \in Deployments
    /\ PoolTypeOK
    /\ thrown \in BOOLEAN
    /\ sent \in [Messages -> Nat] /\ \A m \in Messages : sent[m] <= Size(m)
    /\ quiet \in [Groups -> 0 .. MaxQuiet]
    /\ net \in [Sentences -> Nat]
    /\ losses \in Nat /\ copies \in Nat
    /\ uncleaned \in Nat
    /\ HasCleaner => uncleaned <= CleanPeriod
    /\ arrived \in [Sentences -> Nat] /\ count \in [Messages -> Nat]

\* Only what was sent is in flight, and in the second in which it was sent.
Flights ==
    \A m \in Messages : \A i \in Nat \ {0} :
        <<m, i>> \in Sentences /\ net[<<m, i>>] > 0 =>
            /\ i <= sent[m]
            /\ quiet[GroupOf[m]] = 0
Came ==
    \A m \in Messages : \A i \in Nat \ {0} :
        <<m, i>> \in Sentences /\ arrived[<<m, i>>] > 0 => i <= sent[m]

\* The pool holds lines that were sent, each under its number and its id.
IsLineOf(n, g, i) ==
    /\ pool[g].lines[i] = <<n, i>>
    /\ GroupOf[n] = g /\ LinesOf[n] # 0
    /\ i \in 1 .. sent[n]
Stored ==
    \A g \in DOMAIN pool :
        /\ IsFiniteSet(DOMAIN pool[g].lines) /\ DOMAIN pool[g].lines # {}
        /\ \A i \in DOMAIN pool[g].lines : \E n \in Messages : IsLineOf(n, g, i)

\* An id has been quiet for no longer than its group is old, and a cleaner
\* leaves no group that is older than it can be.
Ages ==
    \A g \in DOMAIN pool :
        /\ pool[g].age = Timeout + 1 \/ quiet[g] <= pool[g].age
        /\ HasCleaner => quiet[g] <= Timeout + uncleaned

\* A complete group is in the pool only if its splicing has thrown.
Unfinished ==
    \A g \in DOMAIN pool :
        IsComplete(pool[g].lines, pool[g].total) => 1 \notin DOMAIN pool[g].lines

Safe(m) == Patient \/ Unshared(m)

InFlight(m) ==
    \E i \in Nat \ {0} : <<m, i>> \in Sentences /\ net[<<m, i>>] > 0
Kept(m, i)  ==
    /\ GroupOf[m] \in DOMAIN pool
    /\ i \in DOMAIN pool[GroupOf[m]].lines
    /\ pool[GroupOf[m]].lines[i] = <<m, i>>
InPool(m) == \E i \in Nat \ {0} : Kept(m, i)
Present(m) == InFlight(m) \/ InPool(m) \/ sent[m] \notin {0, Size(m)}

\* Nothing else is about at the id of a safe message.
Alone ==
    \A m, n \in Messages :
        Safe(m) /\ GroupOf[n] = GroupOf[m] /\ Present(m) /\ Present(n) => n = m

\* What the pool takes for the number of its lines is the number of its lines.
Totals ==
    \A m \in Messages :
        Safe(m) /\ InPool(m) => pool[GroupOf[m]].total = LinesOf[m]

\* What is handed on contains nothing of a message with an id of its own, or
\* is that message.
OwnOnly ==
    \A m \in Messages : \A k \in DOMAIN out.parts :
        Unshared(m) /\ out.parts[k] \in SentencesOf(m) => out.parts = Whole(m)

\* A safe message of which every line that was sent has come or is in flight, in
\* one copy at least: until it is handed on, what has come of it is in the pool,
\* and its group is not too old.
InTime == HasCleaner => LineGap <= Timeout
NotLost(m) ==
    \A i \in 1 .. sent[m] : arrived[<<m, i>>] > 0 \/ net[<<m, i>>] > 0
Pending(m) == Safe(m) /\ InTime /\ ~ thrown /\ NotLost(m) /\ count[m] = 0
Here(m) ==
    \A i \in 1 .. sent[m] : arrived[<<m, i>>] > 0 => LinesOf[m] # 0 /\ Kept(m, i)
Coming(m) ==
    \E i \in 1 .. sent[m] : net[<<m, i>>] > 0 /\ ~ (arrived[<<m, i>>] > 0)
Young(m) ==
    InPool(m) /\ HasCleaner =>
        /\ pool[GroupOf[m]].age <= Timeout
        /\ Coming(m) \/ pool[GroupOf[m]].age <= quiet[GroupOf[m]]
NotDropped == \A m \in Messages : Pending(m) => Here(m) /\ Young(m)

\* Each time a message is handed on, one copy of each of its lines has come, and
\* a line in the pool is one that came later.
Counted ==
    \A m \in Messages : \A i \in 1 .. Size(m) :
        /\ count[m] <= arrived[<<m, i>>]
        /\ Kept(m, i) => count[m] < arrived[<<m, i>>]

Inv ==
    /\ TypeOK /\ Flights /\ Came /\ Stored /\ Ages /\ Unfinished
    /\ Alone /\ Totals /\ NotDropped /\ Counted
    /\ WholeMessages /\ ThrowsNotIfPatient /\ OwnOnly
------------------------------------------------------------------------------
(***************************************************************************)
(* What the assumptions say.                                               *)
(***************************************************************************)
LEMMA Extremes ==
    ASSUME NEW a \in Nat, NEW b \in Nat
    PROVE  /\ Max({a, b}) = IF a > b THEN a ELSE b
           /\ Min({a, b}) = IF a < b THEN a ELSE b
BY DEF Max, Min

LEMMA Numbers ==
    ASSUME deployment \in Deployments
    PROVE  /\ Timeout \in Nat /\ CleanPeriod \in Nat \ {0}
           /\ ReuseGap \in Nat /\ LineGap \in Nat /\ HasCleaner \in BOOLEAN
           /\ Losses \in Nat /\ Copies \in Nat
           /\ MaxQuiet \in Nat /\ MaxQuiet >= ReuseGap /\ MaxQuiet >= LineGap
<1>1. /\ Timeout \in Nat /\ CleanPeriod \in Nat \ {0}
      /\ ReuseGap \in Nat /\ LineGap \in Nat /\ HasCleaner \in BOOLEAN
      /\ Losses \in Nat /\ Copies \in Nat
  BY TrafficAssumption, ParserAssumption
     DEF CleanPeriod, ReuseGap, LineGap, HasCleaner, Losses, Copies
<1>2. MaxQuiet = IF ReuseGap > LineGap THEN ReuseGap ELSE LineGap
  BY <1>1, Extremes DEF MaxQuiet
<1> QED BY <1>1, <1>2

LEMMA Sizes ==
    ASSUME deployment \in Deployments, NEW m \in Messages
    PROVE  /\ GroupOf[m] \in Groups /\ LinesOf[m] \in Nat
           /\ Size(m) = IF LinesOf[m] = 0 THEN 1 ELSE LinesOf[m]
           /\ Size(m) \in Nat \ {0}
           /\ \A i \in 1 .. Size(m) : <<m, i>> \in Sentences
<1>1. /\ GroupOf[m] \in Groups /\ LinesOf[m] \in Nat
      /\ {<<m, i>> : i \in 1 .. Max({1, LinesOf[m]})} \subseteq Sentences
  BY TrafficAssumption DEF GroupOf, LinesOf
<1>2. Size(m) = IF 1 > LinesOf[m] THEN 1 ELSE LinesOf[m]
  BY <1>1, Extremes DEF Size
<1> QED BY <1>1, <1>2 DEF Size

LEMMA Pairs ==
    ASSUME NEW s \in Sentences
    PROVE  /\ s[1] \in Messages /\ s[2] \in Nat \ {0} /\ s = <<s[1], s[2]>>
BY TrafficAssumption

\* What becomes of a datagram that ProcPacket does not get.
Network(s) == Lose(s) \/ Duplicate(s) \/ Unheard(s)

\* The surroundings stay what they are.
Steady ==
    /\ deployment' = deployment
    /\ GroupOf' = GroupOf /\ LinesOf' = LinesOf /\ HasCleaner' = HasCleaner
    /\ CleanPeriod' = CleanPeriod /\ ReuseGap' = ReuseGap /\ LineGap' = LineGap
    /\ MaxQuiet' = MaxQuiet /\ Patient' = Patient /\ InTime' = InTime
    /\ \A m : /\ Size(m)' = Size(m) /\ Whole(m)' = Whole(m)
              /\ SentencesOf(m)' = SentencesOf(m)
              /\ Unshared(m)' = Unshared(m) /\ Safe(m)' = Safe(m)

LEMMA StepIsSteady == ASSUME [Next]_vars PROVE Steady
<1>1. deployment' = deployment
  BY DEF Next, vars, Send, Lose, Duplicate, Unheard, Deliver, Clean, Tick
<1>2. /\ GroupOf' = GroupOf /\ LinesOf' = LinesOf /\ HasCleaner' = HasCleaner
      /\ CleanPeriod' = CleanPeriod /\ ReuseGap' = ReuseGap /\ LineGap' = LineGap
  BY <1>1 DEF GroupOf, LinesOf, HasCleaner, CleanPeriod, ReuseGap, LineGap
<1>3. MaxQuiet' = MaxQuiet /\ Patient' = Patient /\ InTime' = InTime
  BY <1>2 DEF MaxQuiet, Patient, InTime
<1>4. \A m : Size(m)' = Size(m)
  BY <1>2 DEF Size
<1>5. \A m : Whole(m)' = Whole(m) /\ SentencesOf(m)' = SentencesOf(m)
  BY <1>4 DEF Whole, SentencesOf
<1>6. \A m : Unshared(m)' = Unshared(m) /\ Safe(m)' = Safe(m)
  BY <1>2, <1>3 DEF Unshared, Safe
<1> QED BY <1>1, <1>2, <1>3, <1>4, <1>5, <1>6 DEF Steady
------------------------------------------------------------------------------
(***************************************************************************)
(* What a step does to the pool: it drops some groups, or it stores a line *)
(* that is delivered.                                                      *)
(***************************************************************************)
Drops ==
    /\ DOMAIN pool' \subseteq DOMAIN pool
    /\ \A g \in DOMAIN pool' :
         pool'[g].lines = pool[g].lines /\ pool'[g].total = pool[g].total

Stores(m, i) ==
    /\ LinesOf[m] # 0
    /\ pool' = PoolWith(GroupOf[m], LinesOf[m], i, <<m, i>>)

\* The ways through HandleTagBlock.
Delivery(m, i) ==
    /\ m \in Messages /\ i \in Nat \ {0} /\ <<m, i>> \in Sentences
    /\ net[<<m, i>>] > 0
    /\ Arrive(<<m, i>>)
    /\ UNCHANGED <<deployment, sent, quiet, losses, copies, uncleaned>>
    /\ ~ thrown

Completed(m, i) ==
    /\ Delivery(m, i) /\ LinesOf[m] # 0
    /\ Assemble(GroupOf[m], LinesOf[m], i, <<m, i>>)
Single(m, i) == Delivery(m, i) /\ LinesOf[m] = 0 /\ ProcSingle(<<m, i>>)
HandsOn(m, i) ==
    /\ Single(m, i) \/ Completed(m, i)
    /\ count' = IF out'.parts = Whole(m) THEN [count EXCEPT ![m] = @ + 1] ELSE count
Keeps(m, i) ==
    /\ Delivery(m, i) /\ LinesOf[m] # 0
    /\ KeepLine(GroupOf[m], LinesOf[m], i, <<m, i>>)
    /\ UNCHANGED count
Throws(m, i) ==
    /\ Delivery(m, i) /\ LinesOf[m] # 0
    /\ SpliceThrows(GroupOf[m], LinesOf[m], i, <<m, i>>)
    /\ UNCHANGED count

LEMMA DeliverCases ==
    ASSUME NEW s \in Sentences, Deliver(s[1], s[2])
    PROVE  \E m \in Messages, i \in Nat \ {0} :
             HandsOn(m, i) \/ Keeps(m, i) \/ Throws(m, i)
<1> DEFINE m == s[1]  i == s[2]
<1>1. m \in Messages /\ i \in Nat \ {0} /\ s = <<m, i>>
  BY Pairs
<1> HIDE DEF m, i
<1>2. Deliver(m, i)
  BY DEF m, i
<1>3. Delivery(m, i)
  BY <1>1, <1>2 DEF Deliver, Delivery, Arrive, ProcSingle, Assemble, KeepLine,
                    SpliceThrows
<1>4. HandsOn(m, i) \/ Keeps(m, i) \/ Throws(m, i)
  BY <1>2, <1>3 DEF Deliver, HandsOn, Single, Completed, Keeps, Throws
<1> QED BY <1>1, <1>4

\* Every step of the specification, by what it does.
LEMMA Steps ==
    ASSUME [Next]_vars
    PROVE  \/ \E m \in Messages : Send(m)
           \/ \E s \in Sentences : Network(s)
           \/ \E m \in Messages, i \in Nat \ {0} :
                HandsOn(m, i) \/ Keeps(m, i) \/ Throws(m, i)
           \/ Clean
           \/ Tick
           \/ UNCHANGED vars
BY DeliverCases DEF Next, Network
------------------------------------------------------------------------------
LEMMA HeldLines ==
    ASSUME TypeOK, Stored, NEW g
    PROVE  /\ IsFiniteSet(DOMAIN Held(g))
           /\ \A k \in DOMAIN Held(g) :
                /\ g \in DOMAIN pool /\ k \in DOMAIN pool[g].lines
                /\ Held(g)[k] = pool[g].lines[k]
                /\ k \in Nat \ {0}
                /\ \E n \in Messages : IsLineOf(n, g, k)
<1>1. CASE g \in DOMAIN pool
  <2>1. Held(g) = pool[g].lines
    BY <1>1 DEF Held
  <2>2. \A k \in DOMAIN pool[g].lines : k \in Nat \ {0}
    <3> SUFFICES ASSUME NEW k \in DOMAIN pool[g].lines PROVE k \in Nat \ {0}
      OBVIOUS
    <3>1. PICK n \in Messages : IsLineOf(n, g, k)
      BY <1>1 DEF Stored
    <3> QED BY <3>1 DEF IsLineOf, TypeOK
  <2> QED BY <1>1, <2>1, <2>2 DEF Stored
<1>2. CASE g \notin DOMAIN pool
  <2>1. DOMAIN Held(g) = {}
    BY <1>2 DEF Held, NoLines
  <2> QED BY <2>1, FS_EmptySet
<1> QED BY <1>1, <1>2

LEMMA NewLines ==
    ASSUME TypeOK, Stored, NEW g, NEW i \in Nat \ {0}, NEW s
    PROVE  /\ DOMAIN LinesWith(g, i, s) = DOMAIN Held(g) \cup {i}
           /\ IsFiniteSet(DOMAIN LinesWith(g, i, s))
           /\ LinesWith(g, i, s)[i] = s
           /\ \A k \in DOMAIN LinesWith(g, i, s) :
                /\ k \in Nat \ {0}
                /\ k # i => k \in DOMAIN Held(g) /\ LinesWith(g, i, s)[k] = Held(g)[k]
<1>1. DOMAIN LinesWith(g, i, s) = DOMAIN Held(g) \cup {i}
  BY DEF LinesWith
<1>2. IsFiniteSet(DOMAIN LinesWith(g, i, s))
  BY <1>1, HeldLines, FS_AddElement
<1>3. LinesWith(g, i, s)[i] = s
  BY DEF LinesWith
<1>4. ASSUME NEW k \in DOMAIN LinesWith(g, i, s)
      PROVE  /\ k \in Nat \ {0}
             /\ k # i => k \in DOMAIN Held(g) /\ LinesWith(g, i, s)[k] = Held(g)[k]
  BY <1>1, HeldLines DEF LinesWith
<1> QED BY <1>1, <1>2, <1>3, <1>4

LEMMA OldLine ==
    ASSUME TypeOK, Stored, NEW g, NEW i \in Nat \ {0}, NEW s,
           NEW k \in DOMAIN LinesWith(g, i, s), k # i
    PROVE  /\ k \in DOMAIN Held(g) /\ g \in DOMAIN pool /\ k \in DOMAIN pool[g].lines
           /\ LinesWith(g, i, s)[k] = pool[g].lines[k]
<1>1. k \in DOMAIN Held(g) /\ LinesWith(g, i, s)[k] = Held(g)[k]
  BY DEF LinesWith
<1> QED BY <1>1, HeldLines

\* The pool after a line was stored in it.
LEMMA NewPool ==
    ASSUME NEW m, NEW i, Stores(m, i)
    PROVE  /\ DOMAIN pool' = DOMAIN pool \cup {GroupOf[m]}
           /\ \A h \in DOMAIN pool : h # GroupOf[m] => pool'[h] = pool[h]
           /\ pool'[GroupOf[m]] = [total |-> LinesOf[m], age |-> 0,
                                   lines |-> LinesWith(GroupOf[m], i, <<m, i>>)]
           /\ pool'[GroupOf[m]].total = LinesOf[m] /\ pool'[GroupOf[m]].age = 0
           /\ pool'[GroupOf[m]].lines = LinesWith(GroupOf[m], i, <<m, i>>)
BY DEF Stores, PoolWith

\* Each line in it was there before or is the new one.
LEMMA NewOrOld ==
    ASSUME TypeOK, Stored, NEW m \in Messages, NEW i \in Nat \ {0}, Stores(m, i),
           NEW h \in DOMAIN pool', NEW k \in DOMAIN pool'[h].lines
    PROVE  \/ h = GroupOf[m] /\ k = i /\ pool'[h].lines[k] = <<m, i>>
           \/ /\ h \in DOMAIN pool /\ k \in DOMAIN pool[h].lines
              /\ pool'[h].lines[k] = pool[h].lines[k]
<1>1. CASE h # GroupOf[m]
  BY <1>1, NewPool
<1>2. CASE h = GroupOf[m]
  <2>1. pool'[h].lines = LinesWith(h, i, <<m, i>>)
    BY <1>2, NewPool
  <2>2. CASE k = i
    BY <1>2, <2>1, <2>2 DEF LinesWith
  <2>3. CASE k # i
    <3>1. k \in DOMAIN LinesWith(h, i, <<m, i>>)
      BY <2>1
    <3>2. PICK s : s = <<m, i>>
      OBVIOUS
    <3>3. pool'[h].lines = LinesWith(h, i, s) /\ k \in DOMAIN LinesWith(h, i, s)
      BY <2>1, <3>1, <3>2
    <3>4. /\ h \in DOMAIN pool /\ k \in DOMAIN pool[h].lines
          /\ LinesWith(h, i, s)[k] = pool[h].lines[k]
      BY <2>3, <3>3, OldLine
    <3>5. pool'[h].lines[k] = pool[h].lines[k]
      BY <3>3, <3>4
    <3> QED BY <3>4, <3>5
  <2> QED BY <2>2, <2>3
<1> QED BY <1>1, <1>2

LEMMA WhatDrops ==
    ASSUME TypeOK
    PROVE  /\ UNCHANGED pool => Drops
           /\ Clean => Drops
           /\ Tick => Drops
           /\ \A m, i : HandsOn(m, i) => Drops
           /\ \A m, i : Keeps(m, i) \/ Throws(m, i) => Stores(m, i)
<1>1. UNCHANGED pool => Drops
  BY DEF Drops
<1>2. Clean => Drops
  BY DEF Clean, CleanupTimeouts, Drops
<1>3. ASSUME Tick PROVE Drops
  <2>1. pool' = [g \in DOMAIN pool |->
                   [pool[g] EXCEPT !.age = Min({@ + 1, Timeout + 1})]]
    BY <1>3 DEF Tick, GrowOlder
  <2>2. ASSUME NEW g \in DOMAIN pool
        PROVE  pool'[g].lines = pool[g].lines /\ pool'[g].total = pool[g].total
    <3>1. pool[g] = [total |-> pool[g].total, lines |-> pool[g].lines, age |-> pool[g].age]
      BY DEF TypeOK, PoolTypeOK
    <3>2. pool'[g] = [pool[g] EXCEPT !.age = Min({@ + 1, Timeout + 1})]
      BY <2>1
    <3> HIDE <2>1
    <3> QED BY <3>1, <3>2
  <2> QED BY <2>1, <2>2 DEF Drops
<1>4. ASSUME NEW m, NEW i, HandsOn(m, i) PROVE Drops
  BY <1>1, <1>4 DEF HandsOn, Single, Completed, ProcSingle, Assemble, Drops
<1>5. ASSUME NEW m, NEW i, Keeps(m, i) \/ Throws(m, i) PROVE Stores(m, i)
  BY <1>5 DEF Keeps, Throws, KeepLine, SpliceThrows, Stores
<1> QED BY <1>1, <1>2, <1>3, <1>4, <1>5
------------------------------------------------------------------------------
(***************************************************************************)
(* The order of the lines.                                                 *)
(***************************************************************************)
\* There is a k-th number.
LEMMA NthIsThere ==
    ASSUME NEW T \in SUBSET Nat, IsFiniteSet(T), NEW k \in 1 .. Cardinality(T)
    PROVE  Nth(T, k) \in T
<1> DEFINE Enough == {i \in T : Cardinality(UpTo(T, i)) >= k}
<1>0. Cardinality(T) \in Nat /\ k \in Nat /\ k >= 1 /\ k <= Cardinality(T)
  BY FS_CardinalityType
<1>1. PICK top \in T : \A y \in T : y <= top
  <2>1. T # {}
    BY <1>0, FS_EmptySet
  <2> QED BY <2>1, GreatestNumber
<1>2. top \in Enough
  <2>1. UpTo(T, top) = T
    BY <1>1 DEF UpTo
  <2> QED BY <2>1, <1>0
<1>3. PICK x \in Enough : \A y \in Enough : x <= y
  <2>1. Enough \in SUBSET Nat /\ Enough # {}
    BY <1>2
  <2> HIDE DEF Enough
  <2> QED BY <2>1, LeastNumber
<1>4. /\ IsFiniteSet(UpTo(T, x)) /\ Cardinality(UpTo(T, x)) \in Nat
      /\ Cardinality(UpTo(T, x)) >= k /\ x \in UpTo(T, x) /\ x \in Nat
  BY UpToType
<1>5. Cardinality(UpTo(T, x)) = k
  <2> SUFFICES ASSUME Cardinality(UpTo(T, x)) # k PROVE FALSE
    OBVIOUS
  <2> DEFINE Below == UpTo(T, x) \ {x}
  <2>1. IsFiniteSet(Below) /\ Cardinality(Below) = Cardinality(UpTo(T, x)) - 1
    BY <1>4, FS_RemoveElement
  <2>2. Cardinality(Below) >= k
    BY <2>1, <1>4, <1>0
  <2>3. Below \in SUBSET Nat /\ Below # {}
    <3>1. Cardinality(Below) # 0
      BY <2>1, <2>2, <1>0, <1>4
    <3>2. Below # {}
      <4> HIDE DEF Below
      <4> QED BY <3>1, FS_EmptySet
    <3> QED BY <3>2 DEF UpTo
  <2>4. PICK y \in Below : \A z \in Below : z <= y
    <3> HIDE DEF Below
    <3> QED BY <2>1, <2>3, GreatestNumber
  <2>5. y \in T /\ y \in Nat /\ y < x
    BY <1>4 DEF UpTo
  <2>6. Below = UpTo(T, y)
    <3>1. ASSUME NEW z \in Below PROVE z \in UpTo(T, y)
      BY <2>4 DEF UpTo
    <3>2. ASSUME NEW z \in UpTo(T, y) PROVE z \in Below
      <4>1. z \in T /\ z <= y /\ z \in Nat
        BY DEF UpTo
      <4>2. z <= x /\ z # x
        BY <4>1, <2>5, <1>4
      <4> QED BY <4>1, <4>2 DEF UpTo
    <3> QED BY <3>1, <3>2
  <2>7. y \in Enough
    BY <2>2, <2>5, <2>6
  <2>8. x <= y
    BY <2>7, <1>3
  <2> QED BY <2>5, <2>8, <1>4
<1>6. \E i \in T : Cardinality({j \in T : j <= i}) = k
  BY <1>5 DEF UpTo
<1> QED BY <1>6 DEF Nth

LEMMA FirstNumbers ==
    ASSUME NEW n \in Nat
    PROVE  Cardinality(1 .. n) = n /\ IsFiniteSet(1 .. n)
BY FS_Interval

LEMMA NthOfAll ==
    ASSUME NEW n \in Nat, NEW k \in 1 .. n
    PROVE  Nth(1 .. n, k) = k
<1>1. ASSUME NEW i \in 1 .. n PROVE Cardinality({j \in 1 .. n : j <= i}) = i
  <2>1. {j \in 1 .. n : j <= i} = 1 .. i
    OBVIOUS
  <2>2. Cardinality(1 .. i) = i
    BY FS_Interval
  <2> QED BY <2>1, <2>2
<1>2. \A i \in 1 .. n : Cardinality({j \in 1 .. n : j <= i}) = k <=> i = k
  BY <1>1
<1> QED BY <1>2 DEF Nth

\* What is spliced are lines of the group.
LEMMA SplicedAreLines ==
    ASSUME NEW lines, IsFiniteSet(DOMAIN lines), NEW total \in Nat,
           \A i \in DOMAIN lines : i \in Nat,
           NEW k \in DOMAIN Splice(lines, total)
    PROVE  \E i \in DOMAIN lines : Splice(lines, total)[k] = lines[i]
<1> DEFINE there == DOMAIN lines \cap 1 .. total
<1>1. there \in SUBSET Nat /\ IsFiniteSet(there)
  BY FS_Subset
<1>2. k \in 1 .. Cardinality(there) /\ Splice(lines, total)[k] = lines[Nth(there, k)]
  BY DEF Splice
<1>3. Nth(there, k) \in there
  <2> HIDE DEF there
  <2> QED BY <1>1, <1>2, NthIsThere
<1> QED BY <1>2, <1>3

\* A group that has all its lines is spliced in their order.
LEMMA SplicedInOrder ==
    ASSUME NEW lines, NEW total \in Nat, DOMAIN lines = 1 .. total
    PROVE  Splice(lines, total) = [k \in 1 .. total |-> lines[k]]
<1>1. DOMAIN lines \cap 1 .. total = 1 .. total /\ Cardinality(1 .. total) = total
  BY FS_Interval
<1>2. Splice(lines, total) = [k \in 1 .. total |-> lines[Nth(1 .. total, k)]]
  BY <1>1 DEF Splice
<1> QED BY <1>2, NthOfAll
------------------------------------------------------------------------------
(***************************************************************************)
(* The type invariant.                                                     *)
(***************************************************************************)
LEMMA PoolTypeStep ==
    ASSUME TypeOK, [Next]_vars PROVE PoolTypeOK'
<1>0. PoolTypeOK /\ deployment \in Deployments /\ Timeout \in Nat
  BY Numbers DEF TypeOK
<1>1. CASE UNCHANGED pool
  BY <1>0, <1>1 DEF PoolTypeOK
<1>2. ASSUME DOMAIN pool' \subseteq DOMAIN pool,
             \A g \in DOMAIN pool' : pool'[g] = pool[g]
      PROVE  PoolTypeOK'
  BY <1>0, <1>2 DEF PoolTypeOK
<1>3. CASE Clean
  BY <1>2, <1>3 DEF Clean, CleanupTimeouts
<1>4. ASSUME NEW m \in Messages, NEW i, HandsOn(m, i) PROVE PoolTypeOK'
  <2>1. CASE Single(m, i)
    BY <1>1, <2>1 DEF Single, ProcSingle
  <2>2. CASE Completed(m, i)
    BY <1>2, <2>2 DEF Completed, Assemble
  <2> QED BY <1>4, <2>1, <2>2 DEF HandsOn
<1>5. ASSUME NEW m \in Messages, NEW i, Stores(m, i) PROVE PoolTypeOK'
  <2>1. /\ DOMAIN pool' = DOMAIN pool \cup {GroupOf[m]}
        /\ \A h \in DOMAIN pool : h # GroupOf[m] => pool'[h] = pool[h]
        /\ pool'[GroupOf[m]] = [total |-> LinesOf[m], age |-> 0,
                                lines |-> LinesWith(GroupOf[m], i, <<m, i>>)]
    BY <1>5, NewPool
  <2>2. GroupOf[m] \in Groups /\ LinesOf[m] \in Nat
    BY <1>0, Sizes
  <2> QED BY <1>0, <2>1, <2>2 DEF PoolTypeOK
<1>6. CASE Tick
  <2>1. pool' = [g \in DOMAIN pool |->
                   [pool[g] EXCEPT !.age = Min({@ + 1, Timeout + 1})]]
    BY <1>6 DEF Tick, GrowOlder
  <2>2. ASSUME NEW g \in DOMAIN pool
        PROVE  /\ pool'[g] = [total |-> pool'[g].total, lines |-> pool'[g].lines,
                              age |-> pool'[g].age]
               /\ pool'[g].total \in Nat /\ pool'[g].age \in 0 .. Timeout + 1
    <3>1. /\ pool[g] = [total |-> pool[g].total, lines |-> pool[g].lines,
                        age |-> pool[g].age]
          /\ pool[g].total \in Nat /\ pool[g].age \in 0 .. Timeout + 1
      BY <1>0 DEF PoolTypeOK
    <3>2. Min({pool[g].age + 1, Timeout + 1}) \in 0 .. Timeout + 1
      <4>1. pool[g].age + 1 \in Nat /\ Timeout + 1 \in Nat
        BY <3>1, <1>0
      <4>2. Min({pool[g].age + 1, Timeout + 1}) =
              IF pool[g].age + 1 < Timeout + 1 THEN pool[g].age + 1 ELSE Timeout + 1
        BY <4>1, Extremes
      <4> QED BY <4>1, <4>2, <1>0
    <3>3. PICK a \in 0 .. Timeout + 1 : a = Min({pool[g].age + 1, Timeout + 1})
      BY <3>2
    <3>4. pool'[g] = [pool[g] EXCEPT !.age = a]
      BY <2>1, <3>3
    <3>5. pool'[g] = [total |-> pool[g].total, lines |-> pool[g].lines, age |-> a]
      <4> HIDE <2>1
      <4> QED BY <3>1, <3>4
    <3> HIDE <2>1
    <3> QED BY <3>1, <3>5
  <2> QED BY <1>0, <2>1, <2>2 DEF PoolTypeOK
<1>7. ASSUME (\E m \in Messages : Send(m)) \/ (\E s \in Sentences : Network(s))
             \/ UNCHANGED vars
      PROVE  UNCHANGED pool
  BY <1>7 DEF Send, Network, Lose, Duplicate, Unheard, parser, vars
<1> QED BY <1>1, <1>3, <1>4, <1>5, <1>6, <1>7, WhatDrops, Steps

LEMMA FewerInFlight ==
    ASSUME net \in [Sentences -> Nat], NEW s \in Sentences, net[s] > 0,
           net' = [net EXCEPT ![s] = @ - 1]
    PROVE  /\ net' \in [Sentences -> Nat]
           /\ \A t \in Sentences : net'[t] = IF t = s THEN net[t] - 1 ELSE net[t]
OBVIOUS

LEMMA MoreInFlight ==
    ASSUME net \in [Sentences -> Nat], NEW s \in Sentences, net' = [net EXCEPT ![s] = @ + 1]
    PROVE  /\ net' \in [Sentences -> Nat]
           /\ \A t \in Sentences : net'[t] = IF t = s THEN net[t] + 1 ELSE net[t]
OBVIOUS

LEMMA SentNet ==
    ASSUME TypeOK, NEW m \in Messages, Send(m)
    PROVE  /\ <<m, sent[m] + 1>> \in Sentences
           /\ net' \in [Sentences -> Nat]
           /\ \A t \in Sentences :
                net'[t] = IF t = <<m, sent[m] + 1>> THEN net[t] + 1 ELSE net[t]
<1>1. <<m, sent[m] + 1>> \in Sentences
  <2>1. sent[m] \in Nat /\ sent[m] < Size(m) /\ Size(m) \in Nat
    BY Sizes DEF Send, TypeOK
  <2>2. sent[m] + 1 \in 1 .. Size(m)
    BY <2>1
  <2> QED BY <2>2, Sizes DEF TypeOK
<1>2. PICK s \in Sentences : s = <<m, sent[m] + 1>>
  BY <1>1
<1>3. net' = [net EXCEPT ![s] = @ + 1]
  BY <1>2 DEF Send
<1>4. net \in [Sentences -> Nat]
  BY DEF TypeOK
<1>5. /\ net' \in [Sentences -> Nat]
      /\ \A t \in Sentences : net'[t] = IF t = s THEN net[t] + 1 ELSE net[t]
  BY <1>3, <1>4, MoreInFlight
<1> QED BY <1>1, <1>2, <1>5

LEMMA DeliveredNet ==
    ASSUME TypeOK, NEW m, NEW i, Delivery(m, i)
    PROVE  /\ net' \in [Sentences -> Nat]
           /\ \A t \in Sentences : net'[t] = IF t = <<m, i>> THEN net[t] - 1 ELSE net[t]
<1>1. PICK s : s = <<m, i>>
  OBVIOUS
<1>2. s \in Sentences /\ net[s] > 0 /\ net' = [net EXCEPT ![s] = @ - 1]
  BY <1>1 DEF Delivery, Arrive
<1>3. net \in [Sentences -> Nat]
  BY DEF TypeOK
<1>4. /\ net' \in [Sentences -> Nat]
      /\ \A t \in Sentences : net'[t] = IF t = s THEN net[t] - 1 ELSE net[t]
  BY <1>2, <1>3, FewerInFlight
<1> QED BY <1>1, <1>4

\* What comes.
LEMMA Arrival ==
    ASSUME TypeOK, NEW s \in Sentences, Arrive(s)
    PROVE  /\ arrived' \in [Sentences -> Nat] /\ net' \in [Sentences -> Nat]
           /\ \A t \in Sentences :
                /\ arrived'[t] = IF t = s THEN arrived[t] + 1 ELSE arrived[t]
                /\ net'[t] = IF t = s THEN net[t] - 1 ELSE net[t]
           /\ net[s] > 0
<1>1. /\ net \in [Sentences -> Nat] /\ arrived \in [Sentences -> Nat]
      /\ net[s] > 0 /\ net' = [net EXCEPT ![s] = @ - 1]
      /\ arrived' = [arrived EXCEPT ![s] = @ + 1]
  BY DEF TypeOK, Arrive
<1>2. /\ net' \in [Sentences -> Nat]
      /\ \A t \in Sentences : net'[t] = IF t = s THEN net[t] - 1 ELSE net[t]
  BY <1>1, FewerInFlight
<1>3. /\ arrived' \in [Sentences -> Nat]
      /\ \A t \in Sentences :
           arrived'[t] = IF t = s THEN arrived[t] + 1 ELSE arrived[t]
  BY <1>1
<1> QED BY <1>1, <1>2, <1>3

LEMMA DeliveredArrives ==
    ASSUME TypeOK, NEW m, NEW i, Delivery(m, i)
    PROVE  /\ <<m, i>> \in Sentences /\ Arrive(<<m, i>>)
           /\ arrived' \in [Sentences -> Nat]
           /\ \A t \in Sentences :
                arrived'[t] = IF t = <<m, i>> THEN arrived[t] + 1 ELSE arrived[t]
<1>1. PICK s : s = <<m, i>>
  OBVIOUS
<1>2. s \in Sentences /\ Arrive(s)
  BY <1>1 DEF Delivery
<1>3. /\ arrived' \in [Sentences -> Nat]
      /\ \A t \in Sentences : arrived'[t] = IF t = s THEN arrived[t] + 1 ELSE arrived[t]
  BY <1>2, Arrival
<1> QED BY <1>1, <1>2, <1>3

LEMMA TypeStep ==
    ASSUME TypeOK, [Next]_vars PROVE TypeOK'
<1>0. PoolTypeOK' /\ Steady
  BY PoolTypeStep, StepIsSteady
<1>a. /\ Timeout \in Nat /\ CleanPeriod \in Nat /\ MaxQuiet \in Nat
      /\ HasCleaner \in BOOLEAN
  BY Numbers DEF TypeOK
<1>b. \A m \in Messages : Size(m) \in Nat /\ GroupOf[m] \in Groups
  BY Sizes DEF TypeOK
<1>1. ASSUME NEW m \in Messages, Send(m) PROVE TypeOK'
  <2>1. sent' \in [Messages -> Nat] /\ \A n \in Messages : sent'[n] <= Size(n)
    BY <1>1, <1>b DEF Send, TypeOK
  <2>2. quiet' \in [Groups -> 0 .. MaxQuiet]
    BY <1>1, <1>a, <1>b DEF Send, TypeOK
  <2>3. net' \in [Sentences -> Nat]
    BY <1>1, SentNet
  <2> QED BY <1>0, <1>1, <2>1, <2>2, <2>3 DEF Send, TypeOK, Steady, parser
<1>2. ASSUME NEW s \in Sentences, Lose(s) PROVE TypeOK'
  <2>1. net' \in [Sentences -> Nat]
    BY <1>2 DEF Lose, TypeOK
  <2> QED BY <1>0, <1>2, <2>1 DEF Lose, TypeOK, Steady, parser
<1>3. ASSUME NEW s \in Sentences, Duplicate(s) PROVE TypeOK'
  <2>1. net' \in [Sentences -> Nat]
    BY <1>3 DEF Duplicate, TypeOK
  <2> QED BY <1>0, <1>3, <2>1 DEF Duplicate, TypeOK, Steady, parser
<1>8. ASSUME NEW s \in Sentences, Unheard(s) PROVE TypeOK'
  <2>1. arrived' \in [Sentences -> Nat] /\ net' \in [Sentences -> Nat]
    BY <1>8, Arrival DEF Unheard
  <2> QED BY <1>0, <1>8, <2>1 DEF Unheard, TypeOK, Steady, parser
<1>4. ASSUME NEW m \in Messages, NEW i \in Nat \ {0},
             HandsOn(m, i) \/ Keeps(m, i) \/ Throws(m, i)
      PROVE  TypeOK'
  <2>1. Delivery(m, i)
    BY <1>4 DEF HandsOn, Keeps, Throws, Single, Completed
  <2>2. net' \in [Sentences -> Nat] /\ arrived' \in [Sentences -> Nat]
    BY <2>1, DeliveredNet, DeliveredArrives
  <2>3. thrown' \in BOOLEAN
    BY <1>4 DEF HandsOn, Keeps, Throws, Single, Completed, ProcSingle, Assemble,
                KeepLine, SpliceThrows, TypeOK
  <2>4. count' \in [Messages -> Nat]
    <3>1. count' = count \/ count' = [count EXCEPT ![m] = @ + 1]
      BY <1>4 DEF HandsOn, Keeps, Throws
    <3> QED BY <3>1 DEF TypeOK
  <2> QED BY <1>0, <2>1, <2>2, <2>3, <2>4 DEF Delivery, TypeOK, Steady
<1>5. CASE Clean
  BY <1>0, <1>5, <1>a DEF Clean, CleanupTimeouts, TypeOK, Steady
<1>6. CASE Tick
  <2>1. quiet' \in [Groups -> 0 .. MaxQuiet]
    <3>1. \A g \in Groups : Min({quiet[g] + 1, MaxQuiet}) \in 0 .. MaxQuiet
      <4> SUFFICES ASSUME NEW g \in Groups
                   PROVE  Min({quiet[g] + 1, MaxQuiet}) \in 0 .. MaxQuiet
        OBVIOUS
      <4>1. quiet[g] \in 0 .. MaxQuiet
        BY DEF TypeOK
      <4>2. quiet[g] + 1 \in Nat /\ MaxQuiet \in Nat
        BY <4>1, <1>a
      <4>3. Min({quiet[g] + 1, MaxQuiet}) = IF quiet[g] + 1 < MaxQuiet THEN quiet[g] + 1
                                            ELSE MaxQuiet
        BY <4>2, Extremes
      <4> QED BY <4>1, <4>3, <1>a
    <3> QED BY <1>6, <3>1 DEF Tick
  <2>2. uncleaned' \in Nat /\ (HasCleaner => uncleaned' <= CleanPeriod)
    <3>1. HasCleaner => uncleaned < CleanPeriod
      BY <1>6 DEF Tick
    <3>2. uncleaned' = IF HasCleaner THEN uncleaned + 1 ELSE 0
      BY <1>6 DEF Tick
    <3>3. uncleaned \in Nat
      BY DEF TypeOK
    <3> QED BY <3>1, <3>2, <3>3, <1>a
  <2> QED BY <1>0, <1>6, <2>1, <2>2 DEF Tick, GrowOlder, TypeOK, Steady
<1>7. CASE UNCHANGED vars
  BY <1>0, <1>7 DEF vars, parser, TypeOK, Steady
<1> QED BY <1>1, <1>2, <1>3, <1>4, <1>5, <1>6, <1>7, <1>8, Steps DEF Network
------------------------------------------------------------------------------
(***************************************************************************)
(* What is in flight and what the pool holds.                              *)
(***************************************************************************)
NoSend == sent' = sent /\ \A t \in Sentences : net'[t] > 0 => net[t] > 0

LEMMA DeliverySendsNothing ==
    ASSUME TypeOK, NEW m, NEW i, Delivery(m, i) PROVE NoSend
<1>1. sent' = sent /\ \A t \in Sentences : net[t] \in Nat
  BY DEF Delivery, TypeOK
<1>2. \A t \in Sentences : net'[t] = IF t = <<m, i>> THEN net[t] - 1 ELSE net[t]
  BY DeliveredNet
<1>3. ASSUME NEW t \in Sentences, net'[t] > 0 PROVE net[t] > 0
  BY <1>1, <1>2, <1>3
<1> QED BY <1>1, <1>3 DEF NoSend

LEMMA WhatSends ==
    ASSUME TypeOK, [Next]_vars
    PROVE  NoSend \/ \E m \in Messages : Send(m)
<1>1. ASSUME NEW s \in Sentences, Lose(s) PROVE NoSend
  <2>1. net' = [net EXCEPT ![s] = @ - 1] /\ net \in [Sentences -> Nat] /\ sent' = sent
    BY <1>1 DEF Lose, TypeOK
  <2> QED BY <2>1 DEF NoSend
<1>2. ASSUME NEW s \in Sentences, Duplicate(s) PROVE NoSend
  <2>1. /\ net' = [net EXCEPT ![s] = @ + 1] /\ net \in [Sentences -> Nat] /\ sent' = sent
        /\ net[s] > 0
    BY <1>2 DEF Duplicate, TypeOK
  <2> QED BY <2>1 DEF NoSend
<1>5. ASSUME NEW s \in Sentences, Unheard(s) PROVE NoSend
  <2>1. sent' = sent /\ \A t \in Sentences : net[t] \in Nat
    BY <1>5 DEF Unheard, TypeOK
  <2>2. \A t \in Sentences : net'[t] = IF t = s THEN net[t] - 1 ELSE net[t]
    BY <1>5, Arrival DEF Unheard
  <2>3. ASSUME NEW t \in Sentences, net'[t] > 0 PROVE net[t] > 0
    BY <2>1, <2>2, <2>3
  <2> QED BY <2>1, <2>3 DEF NoSend
<1>3. ASSUME NEW m \in Messages, NEW i \in Nat \ {0},
             HandsOn(m, i) \/ Keeps(m, i) \/ Throws(m, i)
      PROVE  NoSend
  <2>1. Delivery(m, i)
    BY <1>3 DEF HandsOn, Keeps, Throws, Single, Completed
  <2> QED BY <2>1, DeliverySendsNothing
<1>4. CASE Clean \/ Tick \/ UNCHANGED vars
  BY <1>4 DEF Clean, Tick, vars, NoSend
<1> QED BY <1>1, <1>2, <1>3, <1>4, <1>5, Steps DEF Network

LEMMA WhatTicks ==
    ASSUME TypeOK, [Next]_vars
    PROVE  \/ Tick
           \/ \E m \in Messages : Send(m)
           \/ NoSend /\ quiet' = quiet
<1>1. \A s \in Sentences : Network(s) => quiet' = quiet
  BY DEF Network, Lose, Duplicate, Unheard
<1>2. ASSUME NEW m, NEW i, HandsOn(m, i) \/ Keeps(m, i) \/ Throws(m, i)
      PROVE  quiet' = quiet
  BY <1>2 DEF HandsOn, Keeps, Throws, Single, Completed, Delivery
<1>3. Clean \/ UNCHANGED vars => quiet' = quiet
  BY DEF Clean, vars
<1> QED BY <1>1, <1>2, <1>3, Steps, WhatSends

LEMMA FlightsStep ==
    ASSUME TypeOK, Flights, [Next]_vars PROVE Flights'
<1> SUFFICES ASSUME NEW m \in Messages, NEW i \in Nat \ {0},
                    <<m, i>> \in Sentences, net'[<<m, i>>] > 0
             PROVE  i <= sent'[m] /\ quiet'[GroupOf[m]] = 0
  BY StepIsSteady DEF Flights, Steady
<1>1. net[<<m, i>>] > 0 => i <= sent[m] /\ quiet[GroupOf[m]] = 0
  BY DEF Flights
<1>2. CASE NoSend /\ quiet' = quiet
  BY <1>1, <1>2 DEF NoSend
<1>3. ASSUME NEW n \in Messages, Send(n)
      PROVE  i <= sent'[m] /\ quiet'[GroupOf[m]] = 0
  <2>1. /\ sent' = [sent EXCEPT ![n] = @ + 1] /\ quiet' = [quiet EXCEPT ![GroupOf[n]] = 0]
        /\ sent \in [Messages -> Nat] /\ GroupOf[m] \in Groups /\ GroupOf[n] \in Groups
        /\ quiet \in [Groups -> 0 .. MaxQuiet]
    BY <1>3, Sizes DEF Send, TypeOK
  <2>2. CASE <<m, i>> = <<n, sent[n] + 1>>
    <3>1. m = n /\ i = sent[n] + 1
      BY <2>2
    <3> QED BY <3>1, <2>1
  <2>3. CASE <<m, i>> # <<n, sent[n] + 1>>
    <3>1. net'[<<m, i>>] = net[<<m, i>>]
      BY <1>3, <2>3, SentNet
    <3>2. i <= sent[m] /\ quiet[GroupOf[m]] = 0
      BY <3>1, <1>1
    <3>3. sent'[m] = sent[m] \/ sent'[m] = sent[m] + 1
      BY <2>1
    <3>4. quiet'[GroupOf[m]] = 0
      BY <2>1, <3>2
    <3> QED BY <2>1, <3>2, <3>3, <3>4
  <2> QED BY <2>2, <2>3
<1>4. CASE Tick
  <2>1. net'[<<m, i>>] = 0
    BY <1>4 DEF Tick
  <2> QED BY <2>1
<1> QED BY <1>2, <1>3, <1>4, WhatTicks

LEMMA SentGrows ==
    ASSUME TypeOK, [Next]_vars, NEW m \in Messages
    PROVE  sent[m] \in Nat /\ sent'[m] \in Nat /\ sent[m] <= sent'[m]
<1>1. sent \in [Messages -> Nat]
  BY DEF TypeOK
<1>2. ASSUME NEW n \in Messages, Send(n)
      PROVE  sent'[m] \in Nat /\ sent[m] <= sent'[m]
  BY <1>1, <1>2 DEF Send
<1>3. CASE NoSend
  BY <1>1, <1>3 DEF NoSend
<1> QED BY <1>1, <1>2, <1>3, WhatSends

\* A step in which a datagram comes, and one in which none does.
LEMMA WhatArrives ==
    ASSUME [Next]_vars
    PROVE  \/ \E s \in Sentences : Arrive(s) /\ sent' = sent
           \/ arrived' = arrived
<1>1. ASSUME NEW m, NEW i, HandsOn(m, i) \/ Keeps(m, i) \/ Throws(m, i)
      PROVE  <<m, i>> \in Sentences /\ Arrive(<<m, i>>) /\ sent' = sent
  BY <1>1 DEF HandsOn, Keeps, Throws, Single, Completed, Delivery
<1>2. \A s \in Sentences : Network(s) => arrived' = arrived \/ (Arrive(s) /\ sent' = sent)
  BY DEF Network, Lose, Duplicate, Unheard
<1>3. ASSUME (\E m \in Messages : Send(m)) \/ Clean \/ Tick \/ UNCHANGED vars
      PROVE  arrived' = arrived
  BY <1>3 DEF Send, Clean, Tick, vars
<1> QED BY <1>1, <1>2, <1>3, Steps

LEMMA CameStep ==
    ASSUME TypeOK, Flights, Came, [Next]_vars PROVE Came'
<1> SUFFICES ASSUME NEW m \in Messages, NEW i \in Nat \ {0},
                    <<m, i>> \in Sentences, arrived'[<<m, i>>] > 0
             PROVE  i <= sent'[m]
  BY DEF Came
<1>1. CASE arrived' = arrived
  <2>1. i <= sent[m]
    BY <1>1 DEF Came
  <2>2. sent[m] \in Nat /\ sent'[m] \in Nat /\ sent[m] <= sent'[m]
    BY SentGrows
  <2> QED BY <2>1, <2>2
<1>2. ASSUME NEW s \in Sentences, Arrive(s), sent' = sent PROVE i <= sent'[m]
  <2>1. CASE s = <<m, i>>
    BY <1>2, <2>1 DEF Arrive, Flights
  <2>2. CASE s # <<m, i>>
    <3>1. arrived'[<<m, i>>] = arrived[<<m, i>>]
      BY <1>2, <2>2, Arrival
    <3> QED BY <1>2, <3>1 DEF Came
  <2> QED BY <2>1, <2>2
<1> QED BY <1>1, <1>2, WhatArrives

\* A step drops groups or stores a line of the message it delivers.
LEMMA DropsOrStores ==
    ASSUME TypeOK, [Next]_vars
    PROVE  \/ Drops
           \/ \E m \in Messages, i \in Nat \ {0} :
                Delivery(m, i) /\ Stores(m, i) /\ (Keeps(m, i) \/ Throws(m, i))
<1>1. ASSUME (\E m \in Messages : Send(m)) \/ (\E s \in Sentences : Network(s))
             \/ UNCHANGED vars
      PROVE  UNCHANGED pool
  BY <1>1 DEF Send, Network, Lose, Duplicate, Unheard, parser, vars
<1>2. \A m, i : Keeps(m, i) \/ Throws(m, i) => Delivery(m, i)
  BY DEF Keeps, Throws
<1> QED BY <1>1, <1>2, Steps, WhatDrops

LEMMA StoredStep ==
    ASSUME TypeOK, Flights, Stored, [Next]_vars PROVE Stored'
<1>0. Steady
  BY StepIsSteady
<1>1. ASSUME NEW n \in Messages, NEW h \in DOMAIN pool, NEW k, IsLineOf(n, h, k),
             pool'[h].lines[k] = pool[h].lines[k]
      PROVE  IsLineOf(n, h, k)'
  <2>1. sent[n] \in Nat /\ sent'[n] \in Nat /\ sent[n] <= sent'[n]
    BY SentGrows
  <2>2. k \in 1 .. sent'[n]
    BY <1>1, <2>1 DEF IsLineOf
  <2> QED BY <1>0, <1>1, <2>2 DEF IsLineOf, Steady
<1>2. CASE Drops
  <2>1. ASSUME NEW h \in DOMAIN pool'
        PROVE  /\ h \in DOMAIN pool /\ pool'[h].lines = pool[h].lines
    BY <1>2 DEF Drops
  <2>2. ASSUME NEW h \in DOMAIN pool', NEW k \in DOMAIN pool'[h].lines
        PROVE  \E n \in Messages : IsLineOf(n, h, k)'
    <3>1. PICK n \in Messages : IsLineOf(n, h, k)
      BY <2>1 DEF Stored
    <3> QED BY <1>1, <2>1, <3>1
  <2> QED BY <2>1, <2>2 DEF Stored
<1>3. ASSUME NEW m \in Messages, NEW i \in Nat \ {0}, Delivery(m, i), Stores(m, i)
      PROVE  Stored'
  <2>1. ASSUME NEW g \in DOMAIN pool', g = GroupOf[m] PROVE IsLineOf(m, g, i)'
    <3>1. pool'[g].lines[i] = <<m, i>>
      <4>1. pool'[g].lines = LinesWith(g, i, <<m, i>>)
        BY <1>3, <2>1, NewPool
      <4> QED BY <4>1 DEF LinesWith
    <3>2. i <= sent[m] /\ sent' = sent
      BY <1>3 DEF Delivery, Flights
    <3>3. i \in 1 .. sent'[m]
      BY <3>2, SentGrows
    <3> QED BY <1>0, <1>3, <2>1, <3>1, <3>3 DEF IsLineOf, Steady, Stores
  <2>2. ASSUME NEW h \in DOMAIN pool', NEW k \in DOMAIN pool'[h].lines
        PROVE  \E n \in Messages : IsLineOf(n, h, k)'
    <3>1. CASE h = GroupOf[m] /\ k = i /\ pool'[h].lines[k] = <<m, i>>
      BY <2>1, <3>1
    <3>2. CASE /\ h \in DOMAIN pool /\ k \in DOMAIN pool[h].lines
               /\ pool'[h].lines[k] = pool[h].lines[k]
      <4>1. PICK n \in Messages : IsLineOf(n, h, k)
        BY <3>2 DEF Stored
      <4> QED BY <1>1, <3>2, <4>1
    <3> QED BY <1>3, <3>1, <3>2, NewOrOld
  <2>3. ASSUME NEW h \in DOMAIN pool'
        PROVE  IsFiniteSet(DOMAIN pool'[h].lines) /\ DOMAIN pool'[h].lines # {}
    <3>1. CASE h = GroupOf[m]
      <4>1. PICK s : s = <<m, i>>
        OBVIOUS
      <4>2. pool'[h].lines = LinesWith(h, i, s)
        BY <1>3, <3>1, <4>1, NewPool
      <4>3. IsFiniteSet(DOMAIN LinesWith(h, i, s))
        BY NewLines
      <4>4. i \in DOMAIN LinesWith(h, i, s)
        BY DEF LinesWith
      <4> QED BY <4>2, <4>3, <4>4
    <3>2. CASE h # GroupOf[m]
      <4>1. h \in DOMAIN pool /\ pool'[h] = pool[h]
        BY <1>3, <3>2, NewPool
      <4> QED BY <4>1 DEF Stored
    <3> QED BY <3>1, <3>2
  <2> QED BY <2>2, <2>3 DEF Stored
<1> QED BY <1>2, <1>3, DropsOrStores

LEMMA UnfinishedStep ==
    ASSUME TypeOK, Stored, Unfinished, [Next]_vars PROVE Unfinished'
<1>1. CASE Drops
  BY <1>1 DEF Drops, Unfinished, IsComplete
<1>2. ASSUME NEW m \in Messages, NEW i \in Nat \ {0}, Stores(m, i),
             Keeps(m, i) \/ Throws(m, i), NEW h \in DOMAIN pool',
             IsComplete(pool'[h].lines, pool'[h].total)
      PROVE  1 \notin DOMAIN pool'[h].lines
  <2>1. CASE h = GroupOf[m]
    <3>1. /\ pool'[h].lines = LinesWith(h, i, <<m, i>>)
          /\ pool'[h].total = LinesOf[m]
      BY <1>2, <2>1, NewPool
    <3> QED BY <1>2, <2>1, <3>1 DEF Keeps, Throws, KeepLine, SpliceThrows
  <2>2. CASE h # GroupOf[m]
    BY <1>2, <2>2, NewPool DEF Unfinished
  <2> QED BY <2>1, <2>2
<1> QED BY <1>1, <1>2, DropsOrStores DEF Unfinished, IsComplete
\* A second more for a group, as far as ages are told apart.
LEMMA OneSecondLater ==
    ASSUME TypeOK, Tick, NEW g \in DOMAIN pool
    PROVE  /\ pool'[g].age = IF pool[g].age + 1 < Timeout + 1 THEN pool[g].age + 1
                             ELSE Timeout + 1
           /\ quiet'[g] = IF quiet[g] + 1 < MaxQuiet THEN quiet[g] + 1 ELSE MaxQuiet
           /\ quiet[g] \in 0 .. MaxQuiet /\ pool[g].age \in 0 .. Timeout + 1
           /\ Timeout \in Nat /\ MaxQuiet \in Nat
           /\ LineGap \in Nat /\ MaxQuiet >= LineGap
<1>0. /\ Timeout \in Nat /\ MaxQuiet \in Nat /\ g \in Groups
      /\ LineGap \in Nat /\ MaxQuiet >= LineGap
      /\ quiet[g] \in 0 .. MaxQuiet /\ pool[g].age \in 0 .. Timeout + 1
      /\ pool[g] = [total |-> pool[g].total, lines |-> pool[g].lines, age |-> pool[g].age]
  BY Numbers DEF TypeOK, PoolTypeOK
<1>1. /\ pool' = [h \in DOMAIN pool |->
                    [pool[h] EXCEPT !.age = Min({@ + 1, Timeout + 1})]]
      /\ quiet' = [h \in Groups |-> Min({quiet[h] + 1, MaxQuiet})]
  BY DEF Tick, GrowOlder
<1>2. pool'[g].age = Min({pool[g].age + 1, Timeout + 1})
  <2>1. pool'[g] = [pool[g] EXCEPT !.age = Min({@ + 1, Timeout + 1})]
    BY <1>1
  <2> HIDE <1>1
  <2> QED BY <1>0, <2>1
<1>3. pool'[g].age = IF pool[g].age + 1 < Timeout + 1 THEN pool[g].age + 1 ELSE Timeout + 1
  <2>1. pool[g].age + 1 \in Nat /\ Timeout + 1 \in Nat
    BY <1>0
  <2> QED BY <1>2, <2>1, Extremes
<1>4. quiet'[g] = IF quiet[g] + 1 < MaxQuiet THEN quiet[g] + 1 ELSE MaxQuiet
  <2>1. quiet[g] + 1 \in Nat
    BY <1>0
  <2>2. quiet'[g] = Min({quiet[g] + 1, MaxQuiet})
    BY <1>0, <1>1
  <2> QED BY <1>0, <2>1, <2>2, Extremes
<1> QED BY <1>0, <1>3, <1>4

LEMMA AgesStep ==
    ASSUME TypeOK, Flights, Stored, Ages, [Next]_vars PROVE Ages'
<1>0. /\ Steady /\ Timeout \in Nat /\ MaxQuiet \in Nat /\ HasCleaner \in BOOLEAN
      /\ uncleaned \in Nat /\ quiet \in [Groups -> 0 .. MaxQuiet]
  BY StepIsSteady, Numbers DEF TypeOK
<1>b. \A g \in DOMAIN pool :
        /\ g \in Groups /\ quiet[g] \in Nat /\ pool[g].age \in 0 .. Timeout + 1
        /\ pool[g].age = Timeout + 1 \/ quiet[g] <= pool[g].age
        /\ HasCleaner => quiet[g] <= Timeout + uncleaned
  BY <1>0 DEF Ages, TypeOK, PoolTypeOK
<1>1. CASE Tick
  <2> SUFFICES ASSUME NEW g \in DOMAIN pool'
               PROVE  /\ pool'[g].age = Timeout + 1 \/ quiet'[g] <= pool'[g].age
                      /\ HasCleaner => quiet'[g] <= Timeout + uncleaned'
    BY <1>0 DEF Ages, Steady
  <2>1. g \in DOMAIN pool /\ uncleaned' = IF HasCleaner THEN uncleaned + 1 ELSE 0
    BY <1>1 DEF Tick, GrowOlder
  <2>2. /\ pool'[g].age = IF pool[g].age + 1 < Timeout + 1 THEN pool[g].age + 1
                          ELSE Timeout + 1
        /\ quiet'[g] = IF quiet[g] + 1 < MaxQuiet THEN quiet[g] + 1 ELSE MaxQuiet
        /\ quiet[g] \in 0 .. MaxQuiet
    BY <1>1, <2>1, OneSecondLater
  <2>7. quiet'[g] <= quiet[g] + 1 /\ quiet'[g] \in Nat
    BY <2>2, <1>0
  <2>8. HasCleaner => quiet'[g] <= Timeout + uncleaned'
    <3>1. HasCleaner => quiet[g] <= Timeout + uncleaned /\ uncleaned' = uncleaned + 1
      BY <1>b, <2>1
    <3> QED BY <2>2, <2>7, <3>1, <1>0
  <2>9. pool'[g].age = Timeout + 1 \/ quiet'[g] <= pool'[g].age
    <3>1. pool[g].age = Timeout + 1 \/ quiet[g] <= pool[g].age
      BY <1>b, <2>1
    <3>2. pool[g].age \in 0 .. Timeout + 1
      BY <1>b, <2>1
    <3> QED BY <2>2, <2>7, <3>1, <3>2, <1>0
  <2> QED BY <2>8, <2>9
<1>2. CASE Clean
  <2>1. /\ pool' = [g \in {h \in DOMAIN pool : pool[h].age <= Timeout} |-> pool[g]]
        /\ uncleaned' = 0 /\ quiet' = quiet
    BY <1>2 DEF Clean, CleanupTimeouts
  <2>2. ASSUME NEW g \in DOMAIN pool'
        PROVE  /\ quiet'[g] <= pool'[g].age
               /\ quiet'[g] <= Timeout + uncleaned'
    <3>1. g \in DOMAIN pool /\ pool[g].age <= Timeout /\ pool'[g] = pool[g]
      BY <2>1
    <3>2. /\ quiet[g] \in Nat /\ pool[g].age \in 0 .. Timeout + 1
          /\ pool[g].age = Timeout + 1 \/ quiet[g] <= pool[g].age
      BY <3>1, <1>b
    <3>3. quiet[g] <= pool[g].age /\ quiet[g] <= Timeout
      BY <3>1, <3>2, <1>0
    <3> QED BY <2>1, <3>1, <3>3, <1>0
  <2> QED BY <2>2 DEF Ages
<1>3. ASSUME NEW m \in Messages, Send(m) PROVE Ages'
  <2>1. /\ pool' = pool /\ uncleaned' = uncleaned
        /\ quiet' = [quiet EXCEPT ![GroupOf[m]] = 0]
    BY <1>3 DEF Send, parser
  <2>2. ASSUME NEW g \in DOMAIN pool PROVE quiet'[g] = quiet[g] \/ quiet'[g] = 0
    BY <2>1, <1>0, <1>b
  <2>3. ASSUME NEW g \in DOMAIN pool
        PROVE  /\ pool[g].age = Timeout + 1 \/ quiet'[g] <= pool[g].age
               /\ HasCleaner => quiet'[g] <= Timeout + uncleaned
    BY <2>2, <1>0, <1>b
  <2> QED BY <2>1, <2>3, <1>0 DEF Ages, Steady
<1>4. ASSUME DOMAIN pool' \subseteq DOMAIN pool, \A g \in DOMAIN pool' : pool'[g] = pool[g],
             UNCHANGED <<quiet, uncleaned>>
      PROVE  Ages'
  BY <1>0, <1>4 DEF Ages, Steady
<1>5. ASSUME NEW m \in Messages, NEW i \in Nat \ {0}, Delivery(m, i), Stores(m, i)
      PROVE  Ages'
  <2>1. UNCHANGED <<quiet, uncleaned>> /\ quiet[GroupOf[m]] = 0
    BY <1>5 DEF Delivery, Flights
  <2>2. ASSUME NEW g \in DOMAIN pool'
        PROVE  /\ pool'[g].age = Timeout + 1 \/ quiet[g] <= pool'[g].age
               /\ HasCleaner => quiet[g] <= Timeout + uncleaned
    <3>1. CASE g = GroupOf[m]
      <4>1. pool'[g].age = 0
        BY <1>5, <3>1, NewPool
      <4> QED BY <2>1, <3>1, <4>1, <1>0
    <3>2. CASE g # GroupOf[m]
      <4>1. g \in DOMAIN pool /\ pool'[g] = pool[g]
        BY <1>5, <3>2, NewPool
      <4> QED BY <4>1, <1>b
    <3> QED BY <3>1, <3>2
  <2> QED BY <2>1, <2>2, <1>0 DEF Ages, Steady
<1>6. ASSUME NEW m \in Messages, NEW i \in Nat \ {0}, HandsOn(m, i) PROVE Ages'
  <2>1. /\ DOMAIN pool' \subseteq DOMAIN pool /\ \A g \in DOMAIN pool' : pool'[g] = pool[g]
        /\ UNCHANGED <<quiet, uncleaned>>
    BY <1>6 DEF HandsOn, Single, Completed, Delivery, ProcSingle, Assemble
  <2> QED BY <2>1, <1>4
<1>7. ASSUME NEW s \in Sentences, Network(s) PROVE Ages'
  BY <1>4, <1>7 DEF Network, Lose, Duplicate, Unheard, parser
<1>8. CASE UNCHANGED vars
  BY <1>4, <1>8 DEF vars, parser
<1>9. \A m, i : Keeps(m, i) \/ Throws(m, i) => Delivery(m, i) /\ Stores(m, i)
  BY WhatDrops DEF Keeps, Throws
<1> QED BY <1>1, <1>2, <1>3, <1>5, <1>6, <1>7, <1>8, <1>9, Steps
------------------------------------------------------------------------------
(***************************************************************************)
(* Alone at an id.                                                         *)
(***************************************************************************)
LEMMA KeptBefore ==
    ASSUME TypeOK, Flights, Stored, [Next]_vars, NEW n \in Messages,
           NEW k \in Nat \ {0}, Kept(n, k)'
    PROVE  Kept(n, k) \/ \E i \in Nat \ {0} : Delivery(n, i)
<1>1. /\ GroupOf[n] \in DOMAIN pool' /\ k \in DOMAIN pool'[GroupOf[n]].lines
      /\ pool'[GroupOf[n]].lines[k] = <<n, k>>
  BY StepIsSteady DEF Kept, Steady
<1>2. CASE Drops
  BY <1>1, <1>2 DEF Drops, Kept
<1>3. ASSUME NEW m \in Messages, NEW i \in Nat \ {0}, Delivery(m, i), Stores(m, i)
      PROVE  Kept(n, k) \/ Delivery(n, i)
  <2>1. CASE <<n, k>> = <<m, i>>
    BY <1>3, <2>1
  <2>2. CASE <<n, k>> # <<m, i>>
    <3>1. PICK h \in DOMAIN pool' : h = GroupOf[n]
      BY <1>1
    <3>2. k \in DOMAIN pool'[h].lines /\ pool'[h].lines[k] = <<n, k>>
      BY <1>1, <3>1
    <3>3. /\ h \in DOMAIN pool /\ k \in DOMAIN pool[h].lines
          /\ pool'[h].lines[k] = pool[h].lines[k]
      BY <1>3, <2>2, <3>2, NewOrOld
    <3> QED BY <3>1, <3>2, <3>3 DEF Kept
  <2> QED BY <2>1, <2>2
<1> QED BY <1>2, <1>3, DropsOrStores

\* What is about after a step that sends nothing was about before it.
LEMMA PresentBefore ==
    ASSUME TypeOK, Flights, Stored, [Next]_vars, NoSend, NEW n \in Messages, Present(n)'
    PROVE  Present(n)
<1>1. ASSUME NEW i \in Nat \ {0}, Delivery(n, i) PROVE InFlight(n)
  BY <1>1 DEF Delivery, InFlight
<1>2. CASE InFlight(n)'
  BY <1>2 DEF InFlight, NoSend, Present
<1>3. CASE InPool(n)'
  <2>1. PICK k \in Nat \ {0} : Kept(n, k)'
    BY <1>3 DEF InPool
  <2>2. Kept(n, k) \/ InFlight(n)
    BY <2>1, <1>1, KeptBefore
  <2> QED BY <2>2 DEF InPool, Present
<1>4. CASE sent'[n] \notin {0, Size(n)}
  BY <1>4 DEF NoSend, Present
<1> QED BY <1>2, <1>3, <1>4, StepIsSteady DEF Present, Steady

LEMMA AloneStep ==
    ASSUME TypeOK, Flights, Stored, Ages, Alone, [Next]_vars PROVE Alone'
<1> SUFFICES ASSUME NEW a \in Messages, NEW b \in Messages, Safe(a),
                    GroupOf[b] = GroupOf[a], Present(a)', Present(b)', a # b
             PROVE  FALSE
  BY StepIsSteady DEF Alone, Steady
<1>1. CASE NoSend
  <2>1. Present(a) /\ Present(b)
    BY <1>1, PresentBefore
  <2> QED BY <2>1 DEF Alone
<1>2. Patient /\ Safe(b)
  BY DEF Safe, Unshared
<1>3. ASSUME NEW m \in Messages, Send(m) PROVE FALSE
  <2>1. /\ sent' = [sent EXCEPT ![m] = @ + 1] /\ pool' = pool
        /\ sent \in [Messages -> Nat] /\ quiet \in [Groups -> 0 .. MaxQuiet]
    BY <1>3 DEF Send, TypeOK, parser
  <2>2. ASSUME NEW n \in Messages \ {m}, Present(n)' PROVE Present(n)
    <3>1. sent'[n] = sent[n]
      BY <2>1
    <3>2. InPool(n)' => InPool(n)
      BY <2>1, StepIsSteady DEF InPool, Kept, Steady
    <3>3. InFlight(n)' => InFlight(n)
      <4>1. ASSUME NEW i \in Nat \ {0}, <<n, i>> \in Sentences
            PROVE  net'[<<n, i>>] = net[<<n, i>>]
        <5>1. <<n, i>> # <<m, sent[m] + 1>>
          OBVIOUS
        <5> QED BY <1>3, <4>1, <5>1, SentNet
      <4> QED BY <4>1 DEF InFlight
    <3> QED BY <2>2, <3>1, <3>2, <3>3, StepIsSteady DEF Present, Steady
  <2>3. ASSUME NEW n \in Messages \ {m}, GroupOf[n] = GroupOf[m], Present(n)
        PROVE  sent[m] # 0
    <3> SUFFICES ASSUME sent[m] = 0 PROVE FALSE
      OBVIOUS
    <3>1. sent[n] \in {0, Size(n)} /\ quiet[GroupOf[m]] >= ReuseGap
      BY <1>3, <2>3 DEF Send
    <3>2. /\ HasCleaner /\ ReuseGap >= Timeout + CleanPeriod + 1
          /\ ReuseGap \in Nat /\ Timeout \in Nat /\ CleanPeriod \in Nat
      BY <1>2, Numbers DEF Patient, TypeOK
    <3>3. GroupOf[m] \in Groups /\ quiet[GroupOf[m]] \in Nat
      BY <2>1, Sizes, Numbers DEF TypeOK
    <3>4. GroupOf[m] \notin DOMAIN pool
      <4>1. GroupOf[m] \in DOMAIN pool => quiet[GroupOf[m]] <= Timeout + uncleaned
        BY <3>2 DEF Ages
      <4>2. uncleaned \in Nat /\ uncleaned <= CleanPeriod
        BY <3>2 DEF TypeOK
      <4> QED BY <4>1, <4>2, <3>1, <3>2, <3>3
    <3>5. ~ InPool(n)
      BY <2>3, <3>4 DEF InPool, Kept
    <3>6. ~ InFlight(n)
      <4>1. quiet[GroupOf[n]] # 0
        BY <2>3, <3>1, <3>2, <3>3
      <4> QED BY <4>1 DEF InFlight, Flights
    <3> QED BY <2>3, <3>1, <3>5, <3>6 DEF Present
  <2>4. sent[m] # 0 => Present(m)
    BY <1>3, Sizes DEF Send, Present, TypeOK
  <2>5. CASE a # m /\ b # m
    BY <2>2, <2>5 DEF Alone
  <2>6. CASE a = m
    BY <2>2, <2>3, <2>4, <2>6 DEF Alone
  <2>7. CASE b = m
    <3>1. Present(a) /\ sent[m] # 0 /\ Present(m)
      BY <2>2, <2>3, <2>4, <2>7
    <3> QED BY <2>7, <3>1 DEF Alone
  <2> QED BY <2>5, <2>6, <2>7
<1> QED BY <1>1, <1>3, WhatSends
LEMMA TotalsStep ==
    ASSUME TypeOK, Flights, Stored, Totals, Alone', [Next]_vars PROVE Totals'
<1> SUFFICES ASSUME NEW m \in Messages, Safe(m), InPool(m)'
             PROVE  pool'[GroupOf[m]].total = LinesOf[m]
  BY StepIsSteady DEF Totals, Steady
<1>0. Steady
  BY StepIsSteady
<1>1. PICK k \in Nat \ {0} : Kept(m, k)'
  BY DEF InPool
<1>2. /\ GroupOf[m] \in DOMAIN pool' /\ k \in DOMAIN pool'[GroupOf[m]].lines
      /\ pool'[GroupOf[m]].lines[k] = <<m, k>>
  BY <1>0, <1>1 DEF Kept, Steady
<1>3. CASE Drops
  <2>1. Kept(m, k) /\ pool'[GroupOf[m]].total = pool[GroupOf[m]].total
    BY <1>2, <1>3 DEF Kept, Drops
  <2> QED BY <2>1 DEF Totals, InPool
<1>4. ASSUME NEW n \in Messages, NEW i \in Nat \ {0}, Stores(n, i)
      PROVE  pool'[GroupOf[m]].total = LinesOf[m]
  <2>1. CASE GroupOf[n] = GroupOf[m]
    <3>1. /\ pool'[GroupOf[n]].lines = LinesWith(GroupOf[n], i, <<n, i>>)
          /\ GroupOf[n] \in DOMAIN pool' /\ pool'[GroupOf[n]].total = LinesOf[n]
      BY <1>4, NewPool
    <3>2. Kept(n, i)'
      BY <1>0, <3>1 DEF Kept, Steady, LinesWith
    <3>3. Present(n)' /\ Present(m)'
      BY <3>2 DEF Present, InPool
    <3>4. n = m
      BY <1>0, <2>1, <3>3 DEF Alone, Steady
    <3> QED BY <3>1, <3>4
  <2>2. CASE GroupOf[n] # GroupOf[m]
    <3>1. GroupOf[m] \in DOMAIN pool /\ pool'[GroupOf[m]] = pool[GroupOf[m]]
      <4>1. PICK h \in DOMAIN pool' : h = GroupOf[m]
        BY <1>2
      <4>2. /\ DOMAIN pool' = DOMAIN pool \cup {GroupOf[n]}
            /\ \A g \in DOMAIN pool : g # GroupOf[n] => pool'[g] = pool[g]
        BY <1>4, NewPool
      <4> QED BY <2>2, <4>1, <4>2
    <3>2. InPool(m)
      BY <1>2, <3>1 DEF InPool, Kept
    <3> QED BY <3>1, <3>2 DEF Totals
  <2> QED BY <2>1, <2>2
<1> QED BY <1>3, <1>4, DropsOrStores
------------------------------------------------------------------------------
(***************************************************************************)
(* What is handed on.                                                      *)
(***************************************************************************)
\* The pool holds nothing else at the id of a safe message that is about.
LEMMA OwnLines ==
    ASSUME TypeOK, Stored, Alone, NEW m \in Messages, Safe(m), Present(m),
           NEW k \in DOMAIN Held(GroupOf[m])
    PROVE  Held(GroupOf[m])[k] = <<m, k>> /\ k \in 1 .. sent[m]
<1>1. PICK g : g = GroupOf[m]
  OBVIOUS
<1>2. /\ g \in DOMAIN pool /\ k \in DOMAIN pool[g].lines /\ k \in Nat \ {0}
      /\ Held(g)[k] = pool[g].lines[k]
      /\ \E n \in Messages : IsLineOf(n, g, k)
  BY <1>1, HeldLines
<1>3. PICK n \in Messages : IsLineOf(n, g, k)
  BY <1>2
<1>4. Kept(n, k) /\ GroupOf[n] = GroupOf[m]
  BY <1>1, <1>2, <1>3 DEF Kept, IsLineOf
<1>5. n = m
  BY <1>2, <1>4 DEF Alone, Present, InPool
<1> QED BY <1>1, <1>2, <1>3, <1>5 DEF IsLineOf

\* Nor does the group after one more of its lines.
LEMMA OwnNewLines ==
    ASSUME TypeOK, Flights, Stored, Alone, NEW m \in Messages, NEW i \in Nat \ {0},
           Safe(m), Delivery(m, i), LinesOf[m] # 0,
           NEW k \in DOMAIN LinesWith(GroupOf[m], i, <<m, i>>)
    PROVE  /\ LinesWith(GroupOf[m], i, <<m, i>>)[k] = <<m, k>>
           /\ k \in 1 .. sent[m] /\ k \in 1 .. LinesOf[m]
<1>1. Present(m)
  BY DEF Present, InFlight, Delivery
<1>2. i \in 1 .. sent[m]
  <2>1. i <= sent[m]
    BY DEF Delivery, Flights
  <2> QED BY <2>1 DEF TypeOK
<1>3. sent[m] <= LinesOf[m] /\ sent[m] \in Nat /\ LinesOf[m] \in Nat
  BY Sizes DEF TypeOK
<1>4. LinesWith(GroupOf[m], i, <<m, i>>)[k] = <<m, k>> /\ k \in 1 .. sent[m]
  <2>1. CASE k = i
    BY <1>2, <2>1 DEF LinesWith
  <2>2. CASE k # i
    <3>1. /\ k \in DOMAIN Held(GroupOf[m])
          /\ LinesWith(GroupOf[m], i, <<m, i>>)[k] = Held(GroupOf[m])[k]
      BY <2>2 DEF LinesWith
    <3> QED BY <1>1, <3>1, OwnLines
  <2> QED BY <2>1, <2>2
<1> QED BY <1>3, <1>4

\* When it is complete it has all its lines.
LEMMA OwnComplete ==
    ASSUME TypeOK, Flights, Stored, Alone, NEW m \in Messages, NEW i \in Nat \ {0},
           Safe(m), Delivery(m, i), LinesOf[m] # 0,
           IsComplete(LinesWith(GroupOf[m], i, <<m, i>>), LinesOf[m])
    PROVE  /\ DOMAIN LinesWith(GroupOf[m], i, <<m, i>>) = 1 .. LinesOf[m]
           /\ sent[m] = LinesOf[m]
<1>1. PICK lines : lines = LinesWith(GroupOf[m], i, <<m, i>>)
  OBVIOUS
<1>2. LinesOf[m] \in Nat /\ sent[m] \in Nat /\ sent[m] <= LinesOf[m] /\ LinesOf[m] > 0
  BY Sizes DEF TypeOK
<1>3. DOMAIN lines \in SUBSET (1 .. LinesOf[m]) /\ DOMAIN lines \in SUBSET (1 .. sent[m])
  BY <1>1, OwnNewLines
<1>4. Cardinality(1 .. LinesOf[m]) = LinesOf[m] /\ IsFiniteSet(1 .. LinesOf[m])
  BY <1>2, FirstNumbers
<1>5. Cardinality(DOMAIN lines) = LinesOf[m]
  BY <1>1 DEF IsComplete
<1>6. DOMAIN lines = 1 .. LinesOf[m]
  BY <1>3, <1>4, <1>5, FS_Subset
<1>7. LinesOf[m] \in 1 .. sent[m]
  BY <1>2, <1>3, <1>6
<1> QED BY <1>1, <1>2, <1>6, <1>7

LEMMA OwnIsWhole ==
    ASSUME TypeOK, Flights, Stored, Alone, NEW m \in Messages, NEW i \in Nat \ {0},
           Safe(m), HandsOn(m, i)
    PROVE  out'.parts = Whole(m)
<1>1. Delivery(m, i)
  BY DEF HandsOn, Single, Completed
<1>2. CASE Single(m, i)
  <2>1. i = 1 /\ Size(m) = 1
    <3>1. i <= sent[m] /\ sent[m] <= Size(m) /\ Size(m) = 1 /\ sent[m] \in Nat
      BY <1>1, <1>2, Sizes DEF Single, Delivery, Flights, TypeOK
    <3> QED BY <3>1
  <2>2. out'.parts = <<<<m, 1>>>>
    BY <1>2, <2>1 DEF Single, ProcSingle, Sentence
  <2> QED BY <2>1, <2>2 DEF Whole
<1>3. CASE Completed(m, i)
  <2>1. PICK lines : lines = LinesWith(GroupOf[m], i, <<m, i>>)
    OBVIOUS
  <2>2. /\ IsComplete(lines, LinesOf[m]) /\ LinesOf[m] # 0
        /\ out'.parts = Splice(lines, LinesOf[m])
    BY <1>3, <2>1 DEF Completed, Assemble, Sentence
  <2>3. DOMAIN lines = 1 .. LinesOf[m]
    BY <1>1, <2>1, <2>2, OwnComplete
  <2>4. \A k \in 1 .. LinesOf[m] : lines[k] = <<m, k>>
    BY <1>1, <2>1, <2>2, <2>3, OwnNewLines
  <2>5. LinesOf[m] \in Nat /\ Size(m) = LinesOf[m]
    BY <2>2, Sizes DEF TypeOK
  <2>6. Splice(lines, LinesOf[m]) = [k \in 1 .. LinesOf[m] |-> lines[k]]
    BY <2>3, <2>5, SplicedInOrder
  <2>7. [k \in 1 .. LinesOf[m] |-> lines[k]] = [k \in 1 .. LinesOf[m] |-> <<m, k>>]
    BY <2>4
  <2> QED BY <2>2, <2>5, <2>6, <2>7 DEF Whole
<1> QED BY <1>2, <1>3 DEF HandsOn

LEMMA OwnNeverThrows ==
    ASSUME TypeOK, Flights, Stored, Alone, NEW m \in Messages, NEW i \in Nat \ {0},
           Safe(m), Throws(m, i)
    PROVE  FALSE
<1>1. /\ Delivery(m, i) /\ LinesOf[m] # 0
      /\ IsComplete(LinesWith(GroupOf[m], i, <<m, i>>), LinesOf[m])
      /\ 1 \notin DOMAIN LinesWith(GroupOf[m], i, <<m, i>>)
  BY DEF Throws, SpliceThrows
<1>2. 1 \notin 1 .. LinesOf[m]
  BY <1>1, OwnComplete
<1> QED BY <1>1, <1>2, Sizes DEF TypeOK

\* What a step hands on.
LEMMA WhatHandsOn ==
    ASSUME TypeOK, [Next]_vars
    PROVE  \/ \E m \in Messages, i \in Nat \ {0} : HandsOn(m, i)
           \/ out' = out /\ count' = count
<1>1. ASSUME NEW m, NEW i, Keeps(m, i) \/ Throws(m, i) PROVE out' = out /\ count' = count
  BY <1>1 DEF Keeps, Throws, KeepLine, SpliceThrows
<1>2. ASSUME (\E m \in Messages : Send(m)) \/ (\E s \in Sentences : Network(s))
             \/ Clean \/ Tick \/ UNCHANGED vars
      PROVE  out' = out /\ count' = count
  BY <1>2 DEF Send, Network, Lose, Duplicate, Unheard, Clean, CleanupTimeouts, Tick,
              GrowOlder, parser, vars
<1> QED BY <1>1, <1>2, Steps

LEMMA WholeStep ==
    ASSUME TypeOK, Flights, Stored, Alone, WholeMessages, [Next]_vars
    PROVE  WholeMessages'
<1> SUFFICES ASSUME Patient
             PROVE  out' = Nothing \/ \E m \in Messages : out'.parts = Whole(m)
  BY StepIsSteady DEF WholeMessages, Steady
<1>1. ASSUME NEW m \in Messages, NEW i \in Nat \ {0}, HandsOn(m, i)
      PROVE  out'.parts = Whole(m)
  BY <1>1, OwnIsWhole DEF Safe
<1> QED BY <1>1, WhatHandsOn DEF WholeMessages

LEMMA ThrowsStep ==
    ASSUME TypeOK, Flights, Stored, Alone, ThrowsNotIfPatient, [Next]_vars
    PROVE  ThrowsNotIfPatient'
<1> SUFFICES ASSUME Patient PROVE ~ thrown'
  BY StepIsSteady DEF ThrowsNotIfPatient, NeverThrows, Steady
<1>1. ~ thrown
  BY DEF ThrowsNotIfPatient, NeverThrows
<1>2. ASSUME NEW m \in Messages, NEW i \in Nat \ {0}, Throws(m, i) PROVE FALSE
  BY <1>2, OwnNeverThrows DEF Safe
<1>3. ASSUME NEW m, NEW i, HandsOn(m, i) \/ Keeps(m, i) PROVE thrown' = thrown
  BY <1>3 DEF HandsOn, Keeps, Single, Completed, ProcSingle, Assemble, KeepLine
<1>4. ASSUME (\E m \in Messages : Send(m)) \/ (\E s \in Sentences : Network(s))
             \/ Clean \/ Tick \/ UNCHANGED vars
      PROVE  thrown' = thrown
  BY <1>4 DEF Send, Network, Lose, Duplicate, Unheard, Clean, CleanupTimeouts, Tick,
              GrowOlder, parser, vars
<1> QED BY <1>1, <1>2, <1>3, <1>4, Steps

\* What is spliced comes from messages that use the same id.
LEMMA SplicedFrom ==
    ASSUME TypeOK, Stored, NEW n \in Messages, NEW i \in Nat \ {0}, Completed(n, i),
           NEW k \in DOMAIN out'.parts
    PROVE  \E a \in Messages, j \in Nat \ {0} :
             GroupOf[a] = GroupOf[n] /\ out'.parts[k] = <<a, j>>
<1>1. PICK g, s : g = GroupOf[n] /\ s = <<n, i>>
  OBVIOUS
<1>2. PICK lines : lines = LinesWith(g, i, s)
  OBVIOUS
<1>3. out'.parts = Splice(lines, LinesOf[n]) /\ LinesOf[n] \in Nat
  BY <1>1, <1>2, Sizes DEF Completed, Assemble, Sentence, TypeOK
<1>4. /\ IsFiniteSet(DOMAIN lines)
      /\ \A x \in DOMAIN lines : x \in Nat
  BY <1>2, NewLines
<1>5. PICK x \in DOMAIN lines : Splice(lines, LinesOf[n])[k] = lines[x]
  BY <1>3, <1>4, SplicedAreLines
<1>6. CASE x = i
  <2>1. lines[x] = s
    BY <1>2, <1>6 DEF LinesWith
  <2> QED BY <1>1, <1>3, <1>5, <2>1
<1>7. CASE x # i
  <2>1. g \in DOMAIN pool /\ x \in DOMAIN pool[g].lines /\ lines[x] = pool[g].lines[x]
    BY <1>2, <1>7, OldLine
  <2>2. PICK a \in Messages : IsLineOf(a, g, x)
    BY <2>1 DEF Stored
  <2>3. x \in Nat \ {0}
    BY <2>2 DEF IsLineOf, TypeOK
  <2> QED BY <1>1, <1>3, <1>5, <2>1, <2>2, <2>3 DEF IsLineOf
<1> QED BY <1>6, <1>7

LEMMA OwnOnlyStep ==
    ASSUME TypeOK, Flights, Stored, Alone, OwnOnly, [Next]_vars
    PROVE  OwnOnly'
<1> SUFFICES ASSUME NEW m \in Messages, Unshared(m), NEW k \in DOMAIN out'.parts,
                    out'.parts[k] \in SentencesOf(m)
             PROVE  out'.parts = Whole(m)
  BY StepIsSteady DEF OwnOnly, Steady
<1>1. CASE out' = out
  BY <1>1 DEF OwnOnly
<1>2. ASSUME NEW n \in Messages, NEW i \in Nat \ {0}, HandsOn(n, i)
      PROVE  out'.parts = Whole(m)
  <2>1. PICK j \in 1 .. Size(m) : out'.parts[k] = <<m, j>>
    BY DEF SentencesOf
  <2>2. CASE n = m
    BY <1>2, <2>2, OwnIsWhole DEF Safe
  <2>3. CASE n # m
    <3>1. CASE Single(n, i)
      <4>1. out'.parts = <<<<n, i>>>>
        BY <3>1 DEF Single, ProcSingle, Sentence
      <4>2. out'.parts[k] = <<n, i>>
        BY <4>1
      <4> QED BY <2>1, <2>3, <4>2
    <3>2. CASE Completed(n, i)
      <4>1. PICK a \in Messages, x \in Nat \ {0} :
              GroupOf[a] = GroupOf[n] /\ out'.parts[k] = <<a, x>>
        BY <3>2, SplicedFrom
      <4>2. a = m
        BY <2>1, <4>1
      <4> QED BY <2>3, <4>1, <4>2 DEF Unshared
    <3> QED BY <1>2, <3>1, <3>2 DEF HandsOn
  <2> QED BY <2>2, <2>3
<1> QED BY <1>1, <1>2, WhatHandsOn
------------------------------------------------------------------------------
(***************************************************************************)
(* Nothing is dropped.                                                     *)
(***************************************************************************)
LEMMA HistoryGrows ==
    ASSUME TypeOK, [Next]_vars, NEW m \in Messages
    PROVE  /\ count'[m] = 0 => count[m] = 0
           /\ ~ thrown' => ~ thrown
<1>0. count \in [Messages -> Nat]
  BY DEF TypeOK
<1>1. count'[m] = 0 => count[m] = 0
  <2>1. ASSUME NEW n \in Messages, NEW i, HandsOn(n, i), count'[m] = 0
        PROVE  count[m] = 0
    <3>1. count' = count \/ count' = [count EXCEPT ![n] = @ + 1]
      BY <2>1 DEF HandsOn
    <3> QED BY <1>0, <2>1, <3>1
  <2> QED BY <2>1, WhatHandsOn
<1>2. ASSUME thrown PROVE thrown'
  <2>1. ASSUME NEW n, NEW i PROVE ~ (HandsOn(n, i) \/ Keeps(n, i) \/ Throws(n, i))
    BY <1>2 DEF HandsOn, Keeps, Throws, Single, Completed, Delivery
  <2>2. ASSUME (\E n \in Messages : Send(n)) \/ (\E t \in Sentences : Network(t))
               \/ Clean \/ Tick \/ UNCHANGED vars
        PROVE  thrown' = thrown
    BY <2>2 DEF Send, Network, Lose, Duplicate, Unheard, Clean, CleanupTimeouts, Tick,
                GrowOlder, parser, vars
  <2> QED BY <1>2, <2>1, <2>2, Steps
<1> QED BY <1>1, <1>2

\* The lines of a message that were sent are sentences.
LEMMA SentLines ==
    ASSUME TypeOK, NEW m \in Messages, NEW i \in 1 .. sent[m]
    PROVE  /\ i \in Nat \ {0} /\ i \in 1 .. Size(m) /\ <<m, i>> \in Sentences
           /\ net[<<m, i>>] \in Nat /\ arrived[<<m, i>>] \in Nat
<1>1. sent[m] \in Nat /\ sent[m] <= Size(m) /\ Size(m) \in Nat
  BY Sizes DEF TypeOK
<1>2. i \in Nat \ {0} /\ i \in 1 .. Size(m)
  BY <1>1
<1>3. <<m, i>> \in Sentences
  BY <1>2, Sizes DEF TypeOK
<1> QED BY <1>2, <1>3 DEF TypeOK

\* A line that is lost does not come any more.
LEMMA LostBefore ==
    ASSUME TypeOK, Flights, [Next]_vars, NEW m \in Messages, NotLost(m)'
    PROVE  NotLost(m)
<1> SUFFICES ASSUME NEW i \in 1 .. sent[m] PROVE arrived[<<m, i>>] > 0 \/ net[<<m, i>>] > 0
  BY DEF NotLost
<1> DEFINE s == <<m, i>>
<1>1. s \in Sentences /\ i \in Nat \ {0}
  BY SentLines
<1>2. i \in 1 .. sent'[m] /\ i <= sent[m] /\ sent[m] \in Nat
  BY SentGrows
<1>3. arrived'[s] > 0 \/ net'[s] > 0
  BY <1>2 DEF NotLost
<1>4. ASSUME arrived'[s] > 0, arrived' = arrived PROVE arrived[s] > 0
  BY <1>4
<1>5. ASSUME NEW t \in Sentences, Arrive(t), arrived'[s] > 0
      PROVE  arrived[s] > 0 \/ net[s] > 0
  <2>1. CASE t = s
    BY <1>5, <2>1 DEF Arrive
  <2>2. CASE t # s
    <3> HIDE DEF s
    <3> QED BY <1>1, <1>5, <2>2, Arrival
  <2> QED BY <2>1, <2>2
<1>6. ASSUME net'[s] > 0, NoSend PROVE net[s] > 0
  BY <1>1, <1>6 DEF NoSend
<1>7. ASSUME net'[s] > 0, NEW n \in Messages, Send(n) PROVE net[s] > 0
  <2>1. s # <<n, sent[n] + 1>>
    <3> SUFFICES ASSUME m = n, i = sent[n] + 1 PROVE FALSE
      OBVIOUS
    <3> QED BY <1>2
  <2> HIDE DEF s
  <2> QED BY <1>1, <1>7, <2>1, SentNet
<1> HIDE DEF s
<1>8. ASSUME arrived'[s] > 0 PROVE arrived[s] > 0 \/ net[s] > 0
  BY <1>4, <1>5, <1>8, WhatArrives
<1>9. ASSUME net'[s] > 0 PROVE net[s] > 0
  BY <1>6, <1>7, <1>9, WhatSends
<1> QED BY <1>3, <1>8, <1>9 DEF s

\* A safe message of which nothing is about and nothing is lost was not begun.
LEMMA NotBegun ==
    ASSUME TypeOK, NEW m \in Messages, Here(m), NotLost(m), ~ Present(m)
    PROVE  sent[m] = 0
<1>1. sent[m] \in {0, Size(m)} /\ Size(m) \in Nat \ {0}
  BY Sizes DEF Present, TypeOK
<1>2. CASE sent[m] = Size(m)
  <2>1. 1 \in 1 .. sent[m]
    BY <1>1, <1>2
  <2>2. net[<<m, 1>>] > 0 \/ Kept(m, 1)
    BY <2>1 DEF Here, NotLost
  <2>3. <<m, 1>> \in Sentences
    BY <2>1, SentLines
  <2> QED BY <2>2, <2>3 DEF Present, InFlight, InPool
<1> QED BY <1>1, <1>2

LEMMA StaysAway ==
    ASSUME TypeOK, Flights, Stored, [Next]_vars, NoSend, NEW m \in Messages,
           Here(m), NotLost(m), ~ Present(m)
    PROVE  Here(m)' /\ Young(m)'
<1>1. ~ Present(m)'
  BY PresentBefore
<1>2. sent'[m] = 0
  BY NotBegun DEF NoSend
<1> QED BY <1>1, <1>2 DEF Here, Young, Present

LEMMA Undisturbed ==
    ASSUME TypeOK, Steady, NEW m \in Messages, Here(m), Young(m), NotLost(m)',
           sent'[m] = sent[m], quiet'[GroupOf[m]] = quiet[GroupOf[m]],
           \A i \in 1 .. sent[m] : arrived'[<<m, i>>] = arrived[<<m, i>>],
           GroupOf[m] \in DOMAIN pool' <=> GroupOf[m] \in DOMAIN pool,
           GroupOf[m] \in DOMAIN pool => pool'[GroupOf[m]] = pool[GroupOf[m]]
    PROVE  Here(m)' /\ Young(m)'
<1>1. \A i : Kept(m, i)' <=> Kept(m, i)
  BY DEF Kept, Steady
<1>2. InPool(m)' <=> InPool(m)
  BY <1>1 DEF InPool
<1>3. Coming(m) => Coming(m)'
  BY DEF Coming, NotLost
<1>5. Here(m)'
  BY <1>1 DEF Here, Steady
<1>6. InPool(m) => GroupOf[m] \in DOMAIN pool
  BY DEF InPool, Kept
<1>7. Young(m)'
  BY <1>2, <1>3, <1>6 DEF Young, Steady
<1> QED BY <1>5, <1>7

\* A complete group of a safe message is not left in the pool.
LEMMA StillOpen ==
    ASSUME TypeOK, Stored, Alone, Totals, Unfinished, NEW m \in Messages, Safe(m),
           GroupOf[m] \in DOMAIN pool
    PROVE  ~ IsComplete(pool[GroupOf[m]].lines, pool[GroupOf[m]].total)
<1>1. PICK g : g = GroupOf[m]
  OBVIOUS
<1>2. g \in DOMAIN pool /\ Held(g) = pool[g].lines
  BY <1>1 DEF Held
<1>3. PICK k \in DOMAIN pool[g].lines : TRUE
  BY <1>2 DEF Stored
<1>4. PICK n \in Messages : IsLineOf(n, g, k)
  BY <1>2 DEF Stored
<1>5. k \in Nat \ {0} /\ GroupOf[n] = g /\ LinesOf[n] # 0
  BY <1>4 DEF IsLineOf, TypeOK
<1>6. Safe(n) /\ InPool(n) /\ Present(n)
  <2>1. Kept(n, k)
    BY <1>2, <1>3, <1>4 DEF Kept, IsLineOf
  <2>2. Safe(n)
    BY <1>1, <1>5 DEF Safe, Unshared
  <2> QED BY <1>5, <2>1, <2>2 DEF InPool, Present
<1>7. LinesOf[n] \in Nat /\ Size(n) = LinesOf[n] /\ sent[n] \in Nat /\ sent[n] <= Size(n)
  BY <1>5, Sizes DEF TypeOK
<1>8. DOMAIN pool[g].lines \in SUBSET (1 .. LinesOf[n])
  <2>1. \A x \in DOMAIN pool[g].lines : x \in 1 .. sent[n]
    BY <1>2, <1>5, <1>6, OwnLines
  <2> QED BY <1>7, <2>1
<1>9. pool[g].total = LinesOf[n]
  BY <1>5, <1>6 DEF Totals
<1> SUFFICES ASSUME IsComplete(pool[g].lines, pool[g].total) PROVE FALSE
  BY <1>1
<1>10. Cardinality(1 .. LinesOf[n]) = LinesOf[n] /\ IsFiniteSet(1 .. LinesOf[n])
  BY <1>7, FirstNumbers
<1>11. DOMAIN pool[g].lines = 1 .. LinesOf[n]
  <2>1. Cardinality(DOMAIN pool[g].lines) = LinesOf[n]
    BY <1>9 DEF IsComplete
  <2> QED BY <1>8, <1>10, <2>1, FS_Subset
<1>12. 1 \in DOMAIN pool[g].lines
  BY <1>5, <1>7, <1>11
<1> QED BY <1>2, <1>12 DEF Unfinished

\* Nor is one of which all lines have come.
LEMMA NotFinished ==
    ASSUME TypeOK, Stored, Alone, Totals, Unfinished, NEW m \in Messages, Safe(m),
           sent[m] = Size(m), \A x \in 1 .. Size(m) : LinesOf[m] # 0 /\ Kept(m, x)
    PROVE  FALSE
<1>1. PICK g : g = GroupOf[m]
  OBVIOUS
<1>2. Size(m) \in Nat \ {0} /\ 1 \in 1 .. Size(m)
  BY Sizes DEF TypeOK
<1>3. LinesOf[m] = Size(m) /\ InPool(m)
  BY <1>2, Sizes DEF InPool, TypeOK
<1>4. g \in DOMAIN pool /\ Held(g) = pool[g].lines /\ Present(m)
  BY <1>1, <1>2, <1>3 DEF Kept, Held, Present
<1>5. \A x \in DOMAIN pool[g].lines : x \in 1 .. Size(m)
  BY <1>1, <1>4, OwnLines
<1>6. DOMAIN pool[g].lines = 1 .. Size(m)
  BY <1>1, <1>5 DEF Kept
<1>7. Cardinality(1 .. Size(m)) = Size(m)
  BY <1>2, FirstNumbers
<1>8. pool[g].total = Size(m)
  BY <1>1, <1>3 DEF Totals
<1>9. IsComplete(pool[g].lines, pool[g].total)
  BY <1>6, <1>7, <1>8 DEF IsComplete
<1> QED BY <1>1, <1>4, <1>9, StillOpen

\* The line that is delivered is in the pool, and those before it stay there.
LEMMA StoredOwn ==
    ASSUME TypeOK, Flights, Stored, Steady, NEW m \in Messages, NEW i \in Nat \ {0},
           Delivery(m, i), Stores(m, i), Here(m)
    PROVE  Here(m)' /\ Young(m)'
<1>1. PICK g, s : g = GroupOf[m] /\ s = <<m, i>>
  OBVIOUS
<1>2. /\ DOMAIN pool' = DOMAIN pool \cup {g} /\ pool'[g].age = 0
      /\ pool'[g].lines = LinesWith(g, i, s)
  BY <1>1, NewPool
<1>3. LinesOf[m] # 0 /\ sent' = sent /\ quiet' = quiet
  BY DEF Delivery, Stores
<1>4. ASSUME NEW j \in Nat \ {0}, j = i \/ Kept(m, j) PROVE Kept(m, j)'
  <2>1. CASE j = i
    <3>1. j \in DOMAIN LinesWith(g, i, s) /\ LinesWith(g, i, s)[j] = <<m, j>>
      BY <1>1, <2>1 DEF LinesWith
    <3> QED BY <1>1, <1>2, <3>1 DEF Kept, Steady
  <2>2. CASE j # i
    <3>1. g \in DOMAIN pool /\ j \in DOMAIN pool[g].lines /\ pool[g].lines[j] = <<m, j>>
      BY <1>1, <1>4, <2>2 DEF Kept
    <3>2. j \in DOMAIN LinesWith(g, i, s) /\ LinesWith(g, i, s)[j] = <<m, j>>
      BY <2>2, <3>1 DEF LinesWith, Held
    <3> QED BY <1>1, <1>2, <3>2 DEF Kept, Steady
  <2> QED BY <2>1, <2>2
<1>5. ASSUME NEW j \in 1 .. sent[m], arrived'[<<m, j>>] > 0 PROVE Kept(m, j)'
  <2>1. j \in Nat \ {0} /\ <<m, j>> \in Sentences
    BY SentLines
  <2>2. CASE j # i
    <3>1. <<m, j>> # <<m, i>>
      BY <2>2
    <3>2. arrived'[<<m, j>>] = arrived[<<m, j>>]
      BY <2>1, <3>1, DeliveredArrives
    <3> QED BY <1>4, <1>5, <2>1, <3>2 DEF Here
  <2> QED BY <1>4, <2>1, <2>2
<1>6. Here(m)'
  BY <1>3, <1>5 DEF Here, Steady
<1>7. quiet[g] \in Nat /\ Timeout \in Nat
  BY <1>1, Sizes, Numbers DEF TypeOK
<1>8. Young(m)'
  BY <1>1, <1>2, <1>3, <1>7 DEF Young, Steady
<1> QED BY <1>6, <1>8

LEMMA NotDroppedStep ==
    ASSUME TypeOK, Flights, Came, Stored, Unfinished, Alone, Totals, NotDropped,
           Alone', [Next]_vars
    PROVE  NotDropped'
<1> SUFFICES ASSUME NEW m \in Messages, Safe(m), InTime, ~ thrown', NotLost(m)',
                    count'[m] = 0
             PROVE  Here(m)' /\ Young(m)'
  BY StepIsSteady DEF NotDropped, Pending, Steady
<1>0. Steady /\ Here(m) /\ Young(m) /\ NotLost(m) /\ ~ thrown
  BY StepIsSteady, HistoryGrows, LostBefore DEF NotDropped, Pending
<1>1. ASSUME NEW n \in Messages, Send(n) PROVE Here(m)' /\ Young(m)'
  <2>1. /\ sent' = [sent EXCEPT ![n] = @ + 1] /\ quiet' = [quiet EXCEPT ![GroupOf[n]] = 0]
        /\ pool' = pool /\ arrived' = arrived
        /\ sent \in [Messages -> Nat] /\ quiet \in [Groups -> 0 .. MaxQuiet]
        /\ \A a \in Messages : GroupOf[a] \in Groups
    BY <1>1, Sizes DEF Send, parser, TypeOK
  <2>2. /\ <<n, sent[n] + 1>> \in Sentences
        /\ \A t \in Sentences :
             net'[t] = IF t = <<n, sent[n] + 1>> THEN net[t] + 1 ELSE net[t]
        /\ \A t \in Sentences : net[t] \in Nat
    BY <1>1, SentNet DEF TypeOK
  <2>3. net'[<<n, sent[n] + 1>>] > 0 /\ sent[n] + 1 \in Nat \ {0}
    BY <2>1, <2>2
  <2>4. InFlight(n)'
    BY <2>2, <2>3 DEF InFlight
  <2>5. CASE n = m
    <3>1. sent'[m] = sent[m] + 1 /\ sent[m] \in Nat
      BY <2>1, <2>5
    <3>2. ~ (arrived[<<m, sent[m] + 1>>] > 0)
      <4>1. ~ (sent[m] + 1 <= sent[m])
        BY <3>1
      <4> QED BY <2>2, <2>3, <2>5, <4>1 DEF Came
    <3>3. ASSUME NEW i \in 1 .. sent'[m], arrived'[<<m, i>>] > 0
          PROVE  LinesOf[m] # 0 /\ Kept(m, i)'
      <4>1. i # sent[m] + 1
        BY <2>1, <3>2, <3>3
      <4>2. i \in 1 .. sent[m]
        BY <3>1, <4>1
      <4>3. LinesOf[m] # 0 /\ Kept(m, i)
        BY <1>0, <2>1, <3>3, <4>2 DEF Here
      <4> QED BY <1>0, <2>1, <4>3 DEF Kept, Steady
    <3>4. Here(m)'
      BY <1>0, <3>3 DEF Here, Steady
    <3>5. InPool(m)' => InPool(m)
      BY <1>0, <2>1 DEF InPool, Kept, Steady
    <3>6. Coming(m)'
      <4>1. sent[m] + 1 \in 1 .. sent'[m]
        BY <3>1
      <4> QED BY <2>1, <2>3, <2>5, <3>2, <4>1 DEF Coming
    <3>7. Young(m)'
      BY <1>0, <2>1, <3>5, <3>6 DEF Young, Steady
    <3> QED BY <3>4, <3>7
  <2>6. CASE n # m
    <3>1. sent'[m] = sent[m]
      BY <2>1, <2>6
    <3>3. CASE GroupOf[n] # GroupOf[m]
      <4>1. quiet'[GroupOf[m]] = quiet[GroupOf[m]]
        BY <2>1, <3>3
      <4> QED BY <1>0, <2>1, <3>1, <4>1, Undisturbed
    <3>4. CASE GroupOf[n] = GroupOf[m]
      <4>1. ~ Present(m)'
        BY <1>0, <2>4, <2>6, <3>4 DEF Alone, Steady, Present
      <4>2. ~ Present(m)
        <5>1. InPool(m)' <=> InPool(m)
          BY <1>0, <2>1 DEF InPool, Kept, Steady
        <5>2. ASSUME NEW i \in Nat \ {0}, <<m, i>> \in Sentences
              PROVE  net'[<<m, i>>] = net[<<m, i>>]
          <6>1. <<m, i>> # <<n, sent[n] + 1>>
            BY <2>6
          <6> QED BY <2>2, <5>2, <6>1
        <5>3. InFlight(m)' <=> InFlight(m)
          BY <5>2 DEF InFlight
        <5> QED BY <1>0, <3>1, <4>1, <5>1, <5>3 DEF Present, Steady
      <4>3. sent[m] = 0
        BY <1>0, <4>2, NotBegun
      <4> QED BY <3>1, <4>1, <4>3 DEF Here, Young, Present
    <3> QED BY <3>3, <3>4
  <2> QED BY <2>5, <2>6
<1>2. ASSUME NEW s \in Sentences, Network(s) PROVE Here(m)' /\ Young(m)'
  <2>1. ~ Unheard(s)
    BY <1>0 DEF Unheard
  <2>2. UNCHANGED <<sent, quiet, arrived, pool>>
    BY <1>2, <2>1 DEF Network, Lose, Duplicate, parser
  <2> QED BY <1>0, <2>2, Undisturbed
<1>4. ASSUME NEW n \in Messages, NEW i \in Nat \ {0}, Delivery(n, i), n # m,
             NoSend,
             \A h : h # GroupOf[n] =>
               /\ h \in DOMAIN pool' <=> h \in DOMAIN pool
               /\ h \in DOMAIN pool => pool'[h] = pool[h]
      PROVE  Here(m)' /\ Young(m)'
  <2>1. CASE GroupOf[n] = GroupOf[m]
    <3>1. Present(n)
      BY <1>4 DEF Delivery, Present, InFlight
    <3>2. ~ Present(m)
      BY <1>4, <2>1, <3>1 DEF Alone
    <3> QED BY <1>0, <1>4, <3>2, StaysAway
  <2>2. CASE GroupOf[n] # GroupOf[m]
    <3>1. ASSUME NEW j \in 1 .. sent[m] PROVE arrived'[<<m, j>>] = arrived[<<m, j>>]
      <4>1. <<m, j>> # <<n, i>> /\ <<m, j>> \in Sentences
        BY <1>4, SentLines
      <4> QED BY <1>4, <4>1, DeliveredArrives
    <3>2. sent' = sent /\ quiet' = quiet
      BY <1>4 DEF Delivery
    <3> QED BY <1>0, <1>4, <2>2, <3>1, <3>2, Undisturbed
  <2> QED BY <2>1, <2>2
<1>5. ASSUME NEW n \in Messages, NEW i \in Nat \ {0}, HandsOn(n, i)
      PROVE  Here(m)' /\ Young(m)'
  <2>1. Delivery(n, i) /\ count \in [Messages -> Nat]
    BY <1>5 DEF HandsOn, Single, Completed, TypeOK
  <2>2. CASE n = m
    <3>1. count' = [count EXCEPT ![m] = @ + 1]
      BY <1>5, <2>2, OwnIsWhole DEF HandsOn
    <3> QED BY <2>1, <3>1
  <2>3. CASE n # m
    <3>1. \A h : h # GroupOf[n] =>
            /\ h \in DOMAIN pool' <=> h \in DOMAIN pool
            /\ h \in DOMAIN pool => pool'[h] = pool[h]
      BY <1>5 DEF HandsOn, Single, Completed, ProcSingle, Assemble
    <3>2. NoSend
      BY <2>1, DeliverySendsNothing
    <3> QED BY <1>4, <2>1, <2>3, <3>1, <3>2
  <2> QED BY <2>2, <2>3
<1>6. ASSUME NEW n \in Messages, NEW i \in Nat \ {0}, Keeps(n, i) \/ Throws(n, i)
      PROVE  Here(m)' /\ Young(m)'
  <2>1. Delivery(n, i) /\ Stores(n, i)
    BY <1>6, WhatDrops DEF Keeps, Throws
  <2>2. CASE n = m
    BY <1>0, <2>1, <2>2, StoredOwn
  <2>3. CASE n # m
    <3>1. \A h : h # GroupOf[n] =>
            /\ h \in DOMAIN pool' <=> h \in DOMAIN pool
            /\ h \in DOMAIN pool => pool'[h] = pool[h]
      BY <2>1, NewPool
    <3>2. NoSend
      BY <2>1, DeliverySendsNothing
    <3> QED BY <1>4, <2>1, <2>3, <3>1, <3>2
  <2> QED BY <2>2, <2>3
<1>7. CASE Clean
  <2>1. /\ pool' = [g \in {h \in DOMAIN pool : pool[h].age <= Timeout} |-> pool[g]]
        /\ HasCleaner /\ UNCHANGED <<sent, quiet, net, arrived>>
    BY <1>7 DEF Clean, CleanupTimeouts
  <2>2. CASE InPool(m)
    <3>1. GroupOf[m] \in DOMAIN pool /\ pool[GroupOf[m]].age <= Timeout
      BY <1>0, <2>1, <2>2 DEF InPool, Kept, Young
    <3>2. GroupOf[m] \in DOMAIN pool' /\ pool'[GroupOf[m]] = pool[GroupOf[m]]
      BY <2>1, <3>1
    <3> QED BY <1>0, <2>1, <3>1, <3>2, Undisturbed
  <2>3. CASE ~ InPool(m)
    <3>1. Drops
      BY <1>7, WhatDrops
    <3>2. \A k : Kept(m, k)' => Kept(m, k)
      BY <1>0, <3>1 DEF Kept, Steady, Drops
    <3>3. ~ InPool(m)'
      BY <2>3, <3>2 DEF InPool
    <3>4. ASSUME NEW i \in 1 .. sent[m] PROVE ~ Kept(m, i)
      BY <2>3 DEF InPool, TypeOK
    <3> QED BY <1>0, <2>1, <3>3, <3>4 DEF Here, Young, Steady
  <2> QED BY <2>2, <2>3
<1>8. CASE Tick
  <2>1. /\ DOMAIN pool' = DOMAIN pool /\ UNCHANGED <<sent, net, arrived>>
        /\ \A s \in Sentences : net[s] = 0
    BY <1>8 DEF Tick, GrowOlder
  <2>2. Drops
    BY <1>8, WhatDrops
  <2>3. \A k : Kept(m, k)' <=> Kept(m, k)
    BY <1>0, <2>1, <2>2 DEF Kept, Steady, Drops
  <2>4. Here(m)'
    BY <1>0, <2>1, <2>3 DEF Here, Steady
  <2>5. ASSUME InPool(m)', HasCleaner
        PROVE  pool'[GroupOf[m]].age <= Timeout /\ pool'[GroupOf[m]].age <= quiet'[GroupOf[m]]
    <3>1. InPool(m)
      BY <2>3, <2>5 DEF InPool
    <3>2. \A i \in 1 .. sent[m] : <<m, i>> \in Sentences /\ ~ (net[<<m, i>>] > 0)
      BY <2>1, SentLines
    <3>3. pool[GroupOf[m]].age <= Timeout /\ pool[GroupOf[m]].age <= quiet[GroupOf[m]]
      BY <1>0, <2>5, <3>1, <3>2 DEF Young, Coming
    <3>4. quiet[GroupOf[m]] < LineGap /\ LineGap <= Timeout
      <4>1. \A i \in 1 .. sent[m] : LinesOf[m] # 0 /\ Kept(m, i)
        BY <1>0, <3>2 DEF NotLost, Here
      <4>2. sent[m] # Size(m)
        BY <4>1, NotFinished
      <4>3. sent[m] # 0
        <5>1. PICK k \in Nat \ {0} : Kept(m, k)
          BY <3>1 DEF InPool
        <5>2. PICK n \in Messages : IsLineOf(n, GroupOf[m], k)
          BY <5>1 DEF Stored, Kept
        <5>3. n = m /\ k \in 1 .. sent[n]
          BY <5>1, <5>2 DEF IsLineOf, Kept
        <5> QED BY <5>3
      <4> QED BY <1>8, <2>5, <4>2, <4>3 DEF Tick, InTime
    <3> QED BY <1>8, <3>1, <3>3, <3>4, OneSecondLater DEF InPool, Kept
  <2>6. Young(m)'
    BY <1>0, <2>5 DEF Young, Steady
  <2> QED BY <2>4, <2>6
<1>9. CASE UNCHANGED vars
  BY <1>0, <1>9, Undisturbed DEF vars, parser
<1> QED BY <1>1, <1>2, <1>5, <1>6, <1>7, <1>8, <1>9, Steps
------------------------------------------------------------------------------
(***************************************************************************)
(* Nothing is handed on more often than it came.                           *)
(***************************************************************************)
LEMMA MoreCame ==
    ASSUME TypeOK, [Next]_vars, NEW s \in Sentences
    PROVE  arrived[s] \in Nat /\ arrived'[s] \in Nat /\ arrived[s] <= arrived'[s]
<1>1. arrived[s] \in Nat
  BY DEF TypeOK
<1>2. ASSUME NEW t \in Sentences, Arrive(t)
      PROVE  arrived'[s] = arrived[s] \/ arrived'[s] = arrived[s] + 1
  BY <1>2, Arrival
<1> QED BY <1>1, <1>2, WhatArrives

\* The lines of a message that is handed on whole: the one that has just come,
\* and lines of the pool, in which they are no more.
LEMMA PartsOfWhole ==
    ASSUME TypeOK, Stored, Steady, NEW m \in Messages, NEW i \in Nat \ {0}, HandsOn(m, i),
           out'.parts = Whole(m), NEW j \in 1 .. Size(m)
    PROVE  j = i \/ Kept(m, j)
<1>0. Size(m) \in Nat /\ j \in Nat
  BY Sizes DEF TypeOK
<1>1. j \in DOMAIN out'.parts /\ out'.parts[j] = <<m, j>>
  BY <1>0 DEF Whole
<1>2. CASE Single(m, i)
  <2>1. out'.parts = <<<<m, i>>>>
    BY <1>2 DEF Single, ProcSingle, Sentence
  <2>2. out'.parts[j] = <<m, i>>
    BY <1>1, <2>1
  <2> QED BY <1>1, <2>2
<1>3. CASE Completed(m, i)
  <2>1. PICK g, s : g = GroupOf[m] /\ s = <<m, i>>
    OBVIOUS
  <2>2. PICK lines : lines = LinesWith(g, i, s)
    OBVIOUS
  <2>3. out'.parts = Splice(lines, LinesOf[m]) /\ LinesOf[m] \in Nat
    BY <1>3, <2>1, <2>2, Sizes DEF Completed, Assemble, Sentence, TypeOK
  <2>4. IsFiniteSet(DOMAIN lines) /\ \A x \in DOMAIN lines : x \in Nat
    BY <2>2, NewLines
  <2>5. PICK x \in DOMAIN lines : Splice(lines, LinesOf[m])[j] = lines[x]
    BY <1>1, <2>3, <2>4, SplicedAreLines
  <2>6. CASE x = i
    <3>1. lines[x] = s
      BY <2>2, <2>6 DEF LinesWith
    <3> QED BY <1>1, <2>1, <2>3, <2>5, <3>1
  <2>7. CASE x # i
    <3>1. g \in DOMAIN pool /\ x \in DOMAIN pool[g].lines /\ lines[x] = pool[g].lines[x]
      BY <2>2, <2>7, OldLine
    <3>2. pool[g].lines[x] = <<m, j>>
      BY <1>1, <2>3, <2>5, <3>1
    <3>3. PICK a \in Messages : IsLineOf(a, g, x)
      BY <3>1 DEF Stored
    <3>4. x = j
      BY <3>2, <3>3 DEF IsLineOf
    <3> QED BY <2>1, <3>1, <3>2, <3>4 DEF Kept
  <2> QED BY <2>6, <2>7
<1> QED BY <1>2, <1>3 DEF HandsOn

LEMMA HandedOnIsGone ==
    ASSUME TypeOK, Stored, Steady, NEW m \in Messages, NEW i \in Nat \ {0}, HandsOn(m, i),
           NEW j, Kept(m, j)'
    PROVE  FALSE
<1>1. CASE Single(m, i)
  <2>1. pool' = pool /\ LinesOf[m] = 0
    BY <1>1 DEF Single, ProcSingle
  <2>2. Kept(m, j)
    BY <2>1 DEF Kept, Steady
  <2>3. PICK n \in Messages : IsLineOf(n, GroupOf[m], j)
    BY <2>2 DEF Stored, Kept
  <2>4. n = m /\ LinesOf[n] # 0
    BY <2>2, <2>3 DEF IsLineOf, Kept
  <2> QED BY <2>1, <2>4
<1>2. CASE Completed(m, i)
  <2>1. GroupOf[m] \notin DOMAIN pool'
    BY <1>2 DEF Completed, Assemble
  <2> QED BY <2>1 DEF Kept, Steady
<1> QED BY <1>1, <1>2 DEF HandsOn

LEMMA CountedStep ==
    ASSUME TypeOK, Stored, Counted, [Next]_vars PROVE Counted'
<1>0. Steady /\ count \in [Messages -> Nat]
  BY StepIsSteady DEF TypeOK
<1> SUFFICES ASSUME NEW m \in Messages, NEW j \in 1 .. Size(m)
             PROVE  /\ count'[m] <= arrived'[<<m, j>>]
                    /\ Kept(m, j)' => count'[m] < arrived'[<<m, j>>]
  BY <1>0 DEF Counted, Steady
<1> DEFINE s == <<m, j>>
<1>1. s \in Sentences /\ j \in Nat \ {0} /\ count[m] \in Nat
  BY <1>0, Sizes DEF TypeOK
<1>2. arrived[s] \in Nat /\ arrived'[s] \in Nat /\ arrived[s] <= arrived'[s]
  <2> HIDE DEF s
  <2> QED BY <1>1, MoreCame
<1>3. count[m] <= arrived[s] /\ (Kept(m, j) => count[m] < arrived[s])
  BY DEF Counted
<1>4. ASSUME count'[m] = count[m], Kept(m, j)' => Kept(m, j)
      PROVE  /\ count'[m] <= arrived'[s]
             /\ Kept(m, j)' => count'[m] < arrived'[s]
  <2> HIDE DEF s
  <2> QED BY <1>1, <1>2, <1>3, <1>4
<1>5. ASSUME Drops PROVE Kept(m, j)' => Kept(m, j)
  BY <1>0, <1>5 DEF Kept, Drops, Steady
<1>6. ASSUME NEW n \in Messages, NEW i \in Nat \ {0}, HandsOn(n, i)
      PROVE  /\ count'[m] <= arrived'[s]
             /\ Kept(m, j)' => count'[m] < arrived'[s]
  <2>1. Drops /\ Delivery(n, i)
    BY <1>6, WhatDrops DEF HandsOn, Single, Completed
  <2>2. CASE count'[m] = count[m]
    BY <1>4, <1>5, <2>1, <2>2
  <2>3. CASE count'[m] # count[m]
    <3>1. n = m /\ out'.parts = Whole(m) /\ count'[m] = count[m] + 1
      BY <1>0, <1>6, <2>3 DEF HandsOn
    <3>2. j = i \/ Kept(m, j)
      BY <1>0, <1>6, <3>1, PartsOfWhole
    <3>3. ~ Kept(m, j)'
      BY <1>0, <1>6, <3>1, HandedOnIsGone
    <3>4. j = i => arrived'[s] = arrived[s] + 1
      BY <1>1, <2>1, <3>1, DeliveredArrives
    <3>5. count[m] + 1 <= arrived'[s]
      <4> HIDE DEF s
      <4> QED BY <1>1, <1>2, <1>3, <3>2, <3>4
    <3> QED BY <3>1, <3>3, <3>5
  <2> QED BY <2>2, <2>3
<1>7. ASSUME NEW n \in Messages, NEW i \in Nat \ {0}, Keeps(n, i) \/ Throws(n, i)
      PROVE  /\ count'[m] <= arrived'[s]
             /\ Kept(m, j)' => count'[m] < arrived'[s]
  <2>1. Delivery(n, i) /\ Stores(n, i) /\ count' = count
    BY <1>7, WhatDrops DEF Keeps, Throws
  <2>2. CASE s = <<n, i>>
    <3>1. arrived'[s] = arrived[s] + 1
      BY <1>1, <2>1, <2>2, DeliveredArrives
    <3> HIDE DEF s
    <3> QED BY <1>1, <1>2, <1>3, <2>1, <3>1
  <2>3. CASE s # <<n, i>>
    <3>1. ASSUME Kept(m, j)' PROVE Kept(m, j)
      <4>1. PICK h : h = GroupOf[m]
        OBVIOUS
      <4>2. h \in DOMAIN pool' /\ j \in DOMAIN pool'[h].lines /\ pool'[h].lines[j] = s
        BY <1>0, <3>1, <4>1 DEF Kept, Steady
      <4>3. /\ h \in DOMAIN pool /\ j \in DOMAIN pool[h].lines
            /\ pool'[h].lines[j] = pool[h].lines[j]
        BY <2>1, <2>3, <4>2, NewOrOld
      <4> QED BY <4>1, <4>2, <4>3 DEF Kept
    <3> QED BY <1>4, <2>1, <3>1
  <2> QED BY <2>2, <2>3
<1>8. ASSUME ~ \E n \in Messages, i \in Nat \ {0} :
                 HandsOn(n, i) \/ Keeps(n, i) \/ Throws(n, i)
      PROVE  Drops
  BY <1>8, DropsOrStores
<1>9. ASSUME ~ \E n \in Messages, i \in Nat \ {0} : HandsOn(n, i)
      PROVE  count'[m] = count[m]
  BY <1>9, WhatHandsOn
<1> HIDE DEF s
<1>10. CASE ~ \E n \in Messages, i \in Nat \ {0} :
                 HandsOn(n, i) \/ Keeps(n, i) \/ Throws(n, i)
  BY <1>4, <1>5, <1>8, <1>9, <1>10 DEF s
<1> QED BY <1>6, <1>7, <1>10 DEF s
------------------------------------------------------------------------------
(***************************************************************************)
(* The theorems.                                                           *)
(***************************************************************************)
LEMMA InitInv == Init => Inv
<1> SUFFICES ASSUME Init PROVE Inv
  OBVIOUS
<1>0. deployment \in Deployments
  BY DEF Init
<1>1. /\ DOMAIN pool = {} /\ out = Nothing /\ thrown = FALSE
      /\ \A m \in Messages : sent[m] = 0 /\ count[m] = 0
      /\ \A s \in Sentences : net[s] = 0 /\ arrived[s] = 0
  BY DEF Init, ParserInit
<1>2. \A m \in Messages : GroupOf[m] \in Groups /\ Size(m) \in Nat \ {0}
  BY <1>0, Sizes
<1>3. /\ MaxQuiet \in Nat /\ CleanPeriod \in Nat
  BY <1>0, Numbers
<1>4. TypeOK
  <2>1. PoolTypeOK
    BY <1>1 DEF PoolTypeOK
  <2>2. sent \in [Messages -> Nat] /\ \A m \in Messages : sent[m] <= Size(m)
    BY <1>2 DEF Init
  <2>3. quiet \in [Groups -> 0 .. MaxQuiet]
    BY <1>3 DEF Init
  <2>4. /\ net \in [Sentences -> Nat] /\ arrived \in [Sentences -> Nat]
        /\ count \in [Messages -> Nat]
    BY DEF Init
  <2>5. thrown \in BOOLEAN /\ losses \in Nat /\ copies \in Nat
    BY <1>1 DEF Init
  <2>6. uncleaned \in Nat /\ (HasCleaner => uncleaned <= CleanPeriod)
    BY <1>3 DEF Init
  <2> QED BY <1>0, <2>1, <2>2, <2>3, <2>4, <2>5, <2>6 DEF TypeOK
<1>5. Stored /\ Ages /\ Unfinished
  BY <1>1 DEF Stored, Ages, Unfinished
<1>6. \A m \in Messages : ~ Present(m) /\ ~ InPool(m)
  <2> SUFFICES ASSUME NEW m \in Messages PROVE ~ Present(m) /\ ~ InPool(m)
    OBVIOUS
  <2>1. ~ InPool(m)
    BY <1>1 DEF InPool, Kept
  <2>2. \A s \in Sentences : ~ (net[s] > 0)
    BY <1>1
  <2> QED BY <1>1, <2>1, <2>2 DEF Present, InFlight
<1>7. Flights /\ Came
  <2>1. \A s \in Sentences : ~ (net[s] > 0) /\ ~ (arrived[s] > 0)
    BY <1>1
  <2> QED BY <2>1 DEF Flights, Came
<1>8. Alone /\ Totals
  BY <1>6 DEF Alone, Totals
<1>9. NotDropped
  BY <1>1, <1>6 DEF NotDropped, Here, Young
<1>10. Counted
  <2> SUFFICES ASSUME NEW m \in Messages, NEW i \in 1 .. Size(m)
               PROVE  /\ count[m] <= arrived[<<m, i>>]
                      /\ Kept(m, i) => count[m] < arrived[<<m, i>>]
    BY DEF Counted
  <2>1. <<m, i>> \in Sentences /\ ~ Kept(m, i)
    BY <1>0, <1>1, Sizes DEF Kept
  <2> QED BY <1>1, <2>1
<1>11. WholeMessages /\ ThrowsNotIfPatient
  BY <1>1 DEF WholeMessages, ThrowsNotIfPatient, NeverThrows
<1>12. OwnOnly
  BY <1>1 DEF OwnOnly, Nothing, Sentence
<1> QED BY <1>4, <1>5, <1>7, <1>8, <1>9, <1>10, <1>11, <1>12 DEF Inv

\* The inductive invariant, for every set of messages, of surroundings and of
\* group ids, and for every time-out.
THEOREM InductiveInvariant == Spec => []Inv
<1>1. Inv /\ [Next]_vars => Inv'
  <2> SUFFICES ASSUME Inv, [Next]_vars PROVE Inv'
    OBVIOUS
  <2> USE DEF Inv
  <2>1. TypeOK'
    BY TypeStep
  <2>2. Flights' /\ Came' /\ Stored' /\ Ages' /\ Unfinished'
    BY FlightsStep, CameStep, StoredStep, AgesStep, UnfinishedStep
  <2>3. Alone'
    BY AloneStep
  <2>4. Totals' /\ NotDropped' /\ Counted'
    BY <2>3, TotalsStep, NotDroppedStep, CountedStep
  <2>5. WholeMessages' /\ ThrowsNotIfPatient' /\ OwnOnly'
    BY WholeStep, ThrowsStep, OwnOnlyStep
  <2> QED BY <2>1, <2>2, <2>3, <2>4, <2>5
<1> QED BY <1>1, InitInv, PTL DEF Spec

\* A safe message of which all lines have come was handed on.
LEMMA NoneIsMissing ==
    ASSUME Inv, NEW m \in Messages, Safe(m), InTime, HasCome(m), ~ thrown
    PROVE  count[m] >= 1
<1> SUFFICES ASSUME count[m] = 0 PROVE FALSE
  BY DEF Inv, TypeOK
<1> USE DEF Inv
<1>1. \A i \in 1 .. Size(m) : arrived[<<m, i>>] > 0
  BY DEF HasCome, SentencesOf
<1>2. Size(m) \in Nat \ {0} /\ sent[m] \in Nat /\ sent[m] <= Size(m)
  BY Sizes DEF TypeOK
<1>3. sent[m] = Size(m)
  <2>1. <<m, Size(m)>> \in Sentences /\ Size(m) \in 1 .. Size(m)
    BY <1>2, Sizes DEF TypeOK
  <2>2. Size(m) <= sent[m]
    BY <1>1, <1>2, <2>1 DEF Came
  <2> QED BY <1>2, <2>2
<1>4. NotLost(m)
  BY <1>1, <1>3 DEF NotLost
<1>5. Here(m)
  BY <1>4 DEF NotDropped, Pending
<1>6. \A x \in 1 .. Size(m) : LinesOf[m] # 0 /\ Kept(m, x)
  BY <1>1, <1>3, <1>5 DEF Here
<1> QED BY <1>3, <1>6, NotFinished

\* The parser and its surroundings are type correct.
THEOREM TypeCorrect == Spec => []TypeOK
BY InductiveInvariant, PTL DEF Inv

\* HandleTagBlock hands on whole messages only, whatever is lost, duplicated or
\* reordered, where a cleaner runs and talkers leave an id alone for long enough.
THEOREM OnlyWholeMessages == Spec => []WholeMessages
BY InductiveInvariant, PTL DEF Inv

\* Under the same hypothesis the splicing of HandleTagBlock never throws.
THEOREM SplicingNeverThrows == Spec => []ThrowsNotIfPatient
BY InductiveInvariant, PTL DEF Inv

\* Under the same hypothesis a message of which every datagram has come was handed
\* on, whatever the network lost or duplicated of other messages under its id; and
\* anywhere no message is handed on more often than each of its datagrams has come.
THEOREM AllAreHandedOn == Spec => []HandedOn
<1>1. Inv => HandedOn
  <2> SUFFICES ASSUME Inv, NEW m \in Messages
               PROVE  /\ Patient /\ HasCome(m) => count[m] >= 1
                      /\ \A s \in SentencesOf(m) : count[m] <= arrived[s]
    BY DEF HandedOn
  <2>1. ASSUME Patient, HasCome(m) PROVE count[m] >= 1
    <3>1. Safe(m) /\ InTime /\ ~ thrown
      BY <2>1 DEF Safe, InTime, Patient, Inv, ThrowsNotIfPatient, NeverThrows
    <3> QED BY <2>1, <3>1, NoneIsMissing
  <2>2. \A s \in SentencesOf(m) : count[m] <= arrived[s]
    BY DEF Inv, Counted, SentencesOf
  <2> QED BY <2>1, <2>2
<1> QED BY <1>1, InductiveInvariant, PTL

\* A message that has an id of its own is handed on whole or not at all; it is
\* handed on when every datagram of it has come, unless an exception has ended the
\* thread by then; and its group is not the one that ends it.
THEOREM OwnIdIsSafe == Spec => []OwnIdUnharmed
<1>1. Inv => OwnIdUnharmed
  <2> SUFFICES ASSUME Inv, NEW m \in Messages, Unshared(m)
               PROVE  /\ (\E k \in DOMAIN out.parts : out.parts[k] \in SentencesOf(m))
                           => out.parts = Whole(m)
                      /\ HasCome(m) /\ (HasCleaner => LineGap <= Timeout)
                           => count[m] >= 1 \/ thrown
                      /\ GroupOf[m] \in DOMAIN pool =>
                           ~ IsComplete(pool[GroupOf[m]].lines, pool[GroupOf[m]].total)
    BY DEF OwnIdUnharmed
  <2>1. Safe(m)
    BY DEF Safe
  <2>2. (\E k \in DOMAIN out.parts : out.parts[k] \in SentencesOf(m))
          => out.parts = Whole(m)
    BY DEF Inv, OwnOnly
  <2>3. HasCome(m) /\ (HasCleaner => LineGap <= Timeout) => count[m] >= 1 \/ thrown
    BY <2>1, NoneIsMissing DEF InTime
  <2>4. GroupOf[m] \in DOMAIN pool =>
          ~ IsComplete(pool[GroupOf[m]].lines, pool[GroupOf[m]].total)
    BY <2>1, StillOpen DEF Inv
  <2> QED BY <2>2, <2>3, <2>4
<1> QED BY <1>1, InductiveInvariant, PTL
==============================================================================
