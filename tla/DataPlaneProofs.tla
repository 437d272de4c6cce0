--------------------------- MODULE DataPlaneProofs ---------------------------
(***************************************************************************)
(* What the shared statistics and the loss percentage guarantee, for any   *)
(* number of CPUs and packets and any settings.                            *)
(***************************************************************************)
EXTENDS DataPlane, TLAPS

USE SettingsAssumption, DrawsAssumption, CostsAssumption, BoundAssumption

LEMMA IncrementsNat == \A k \in StatKeys : Increments(k) \subseteq Nat
  BY DEF Increments

LEMMA EffectivePercentage == \A v \in Settings \cup {None} : Effective(v) \in 0..100
  BY DEF Effective

-----------------------------------------------------------------------------
(* Types.                                                                  *)

LEMMA TypeInit == Init => TypeOK
  BY DEF Init, TypeOK, StatKeys, Zero

LEMMA TypeNext == TypeOK /\ [Next]_vars => TypeOK'
<1> SUFFICES ASSUME TypeOK, [Next]_vars PROVE TypeOK'
  OBVIOUS
<1> USE DEF TypeOK
<1>1. ASSUME NEW c \in CPUs, Receive(c) PROVE TypeOK'
  BY <1>1 DEF Receive, reader
<1>2. ASSUME NEW c \in CPUs, Classify(c) PROVE TypeOK'
  <2>1. percentage' \in [CPUs -> 0..100]
    BY <1>2, EffectivePercentage DEF Classify
  <2>2. key' \in [CPUs -> StatKeys]
    BY <1>2 DEF Classify, StatKeys
  <2> QED
    BY <1>2, <2>1, <2>2 DEF Classify, reader
<1>3. ASSUME NEW c \in CPUs, Get(c) PROVE TypeOK'
  <2>1. PICK d \in Increments(key[c]) :
          /\ inc' = [inc EXCEPT ![c] = d]
          /\ value' = [value EXCEPT ![c] = stats[key[c]] + d]
    BY <1>3 DEF Get
  <2>2. d \in Nat /\ stats[key[c]] \in Nat
    BY <2>1, IncrementsNat
  <2>3. raced' \subseteq StatKeys
    BY <1>3 DEF Get, NoteRace
  <2> QED
    BY <1>3, <2>1, <2>2, <2>3 DEF Get, reader
<1>4. ASSUME NEW c \in CPUs, Put(c) PROVE TypeOK'
  <2>1. key' \in [CPUs -> StatKeys]
    BY <1>4 DEF Put, NextKey, StatKeys
  <2>2. stats' \in [StatKeys -> Nat] /\ total' \in [StatKeys -> Nat]
    BY <1>4 DEF Put
  <2>3. stage' \in [CPUs -> {"idle", "config", "get", "put"}] /\ ret' \in [CPUs -> {"pass", "drop"}]
    BY <1>4 DEF Put
  <2> QED
    BY <1>4, <2>1, <2>2, <2>3 DEF Put, reader
<1>5. ASSUME NEW v \in Settings, SetConfig(v) PROVE TypeOK'
  BY <1>5 DEF SetConfig, handler, reader
<1>6. CASE BeginReport
  BY <1>6 DEF BeginReport, handler, Zero, StatKeys
<1>7. CASE ReadStat
  BY <1>7 DEF ReadStat, NextRead, handler, StatKeys
<1>8. CASE UNCHANGED vars
  BY <1>8 DEF vars, handler, reader
<1> QED
  BY <1>1, <1>2, <1>3, <1>4, <1>5, <1>6, <1>7, <1>8 DEF Next

\* The maps and the locals of the handlers keep their types.
THEOREM TypeCorrect == Spec => []TypeOK
  BY TypeInit, TypeNext, PTL DEF Spec

-----------------------------------------------------------------------------
(* The statistics never say too much.                                      *)

\* A value about to be stored is at most what the statistic would be had
\* nothing been lost.
PendingBounded ==
    \A c \in CPUs : stage[c] = "put" => value[c] <= total[key[c]] + inc[c]

CountInv == NeverOvercounts /\ ReportsNoMoreThanHappened /\ PendingBounded

LEMMA CountInit == Init => CountInv
  BY DEF Init, CountInv, NeverOvercounts, ReportsNoMoreThanHappened, PendingBounded,
         Zero, StatKeys

LEMMA CountNext == TypeOK /\ CountInv /\ [Next]_vars => CountInv'
<1> SUFFICES ASSUME TypeOK, CountInv, [Next]_vars PROVE CountInv'
  OBVIOUS
<1> USE DEF TypeOK, CountInv, NeverOvercounts, ReportsNoMoreThanHappened, PendingBounded
<1>1. ASSUME NEW c \in CPUs, Receive(c) PROVE CountInv'
  BY <1>1 DEF Receive, reader
<1>2. ASSUME NEW c \in CPUs, Classify(c) PROVE CountInv'
  <2>1. /\ UNCHANGED <<stats, report, total, value, inc>>
        /\ \A o \in CPUs : stage'[o] = "put" => stage[o] = "put" /\ o # c
        /\ \A o \in CPUs \ {c} : key'[o] = key[o]
    BY <1>2 DEF Classify, reader
  <2> QED
    BY <2>1
<1>3. ASSUME NEW c \in CPUs, Get(c) PROVE CountInv'
  <2>1. PICK d \in Increments(key[c]) :
          /\ inc' = [inc EXCEPT ![c] = d]
          /\ value' = [value EXCEPT ![c] = stats[key[c]] + d]
    BY <1>3 DEF Get
  <2>2. d \in Nat
    BY <2>1, IncrementsNat
  <2>3. UNCHANGED <<stats, report, total, key>>
    BY <1>3 DEF Get, reader
  <2>4. value'[c] <= total'[key'[c]] + inc'[c]
    BY <2>1, <2>2, <2>3
  <2>5. \A o \in CPUs \ {c} : stage'[o] = stage[o] /\ value'[o] = value[o] /\ inc'[o] = inc[o]
    BY <1>3, <2>1 DEF Get
  <2> QED
    BY <2>3, <2>4, <2>5
<1>4. ASSUME NEW c \in CPUs, Put(c) PROVE CountInv'
  <2>1. /\ stats' = [stats EXCEPT ![key[c]] = value[c]]
        /\ total' = [total EXCEPT ![key[c]] = @ + inc[c]]
        /\ UNCHANGED <<value, inc, report>>
        /\ value[c] <= total[key[c]] + inc[c]
    BY <1>4 DEF Put, reader
  <2>2. \A k \in StatKeys : total[k] <= total'[k]
    BY <2>1
  <2>3. NeverOvercounts' /\ ReportsNoMoreThanHappened'
    BY <2>1, <2>2
  <2>4. ASSUME NEW o \in CPUs, stage'[o] = "put" PROVE value'[o] <= total'[key'[o]] + inc'[o]
    <3>1. o # c /\ stage[o] = "put" /\ key'[o] = key[o]
      BY <1>4, <2>4 DEF Put
    <3>2. total[key[o]] <= total'[key[o]]
      BY <2>2
    <3>3. total'[key[o]] \in Nat
      BY <2>1
    <3> QED
      BY <2>1, <3>1, <3>2, <3>3
  <2> QED
    BY <2>3, <2>4
<1>5. ASSUME NEW v \in Settings, SetConfig(v) PROVE CountInv'
  BY <1>5 DEF SetConfig, handler, reader
<1>6. CASE BeginReport
  BY <1>6 DEF BeginReport, handler, Zero
<1>7. CASE ReadStat
  BY <1>7 DEF ReadStat, handler
<1>8. CASE UNCHANGED vars
  BY <1>8 DEF vars, handler, reader
<1> QED
  BY <1>1, <1>2, <1>3, <1>4, <1>5, <1>6, <1>7, <1>8 DEF Next

\* However many CPUs race on a statistic, it is never larger than what they
\* have added to it.
THEOREM NoOvercount == Spec => []NeverOvercounts
<1>1. CountInv => NeverOvercounts
  BY DEF CountInv
<1> QED
  BY TypeInit, TypeNext, CountInit, CountNext, <1>1, PTL DEF Spec

\* Nor does the stats command ever print more than what has happened.
THEOREM ReportsBounded == Spec => []ReportsNoMoreThanHappened
<1>1. CountInv => ReportsNoMoreThanHappened
  BY DEF CountInv
<1> QED
  BY TypeInit, TypeNext, CountInit, CountNext, <1>1, PTL DEF Spec

-----------------------------------------------------------------------------
(* Statistics no two CPUs have had in hand at once.                        *)

Updating(c, k) == stage[c] = "put" /\ key[c] = k

\* A statistic that was not raced is exact, at most one CPU is about to store
\* it, and the value it stores is exact too.
RaceInv ==
    /\ ExactUnlessRaced
    /\ \A k \in StatKeys \ raced : \A c \in CPUs :
          Updating(c, k) => /\ value[c] = total[k] + inc[c]
                            /\ \A o \in CPUs : Updating(o, k) => o = c

LEMMA RaceInit == Init => RaceInv
  BY DEF Init, RaceInv, ExactUnlessRaced, Updating, Zero, StatKeys

LEMMA RaceGet ==
  ASSUME TypeOK, RaceInv, NEW c \in CPUs, Get(c)
  PROVE  RaceInv'
<1> USE DEF TypeOK, RaceInv, ExactUnlessRaced, Updating
<1>1. PICK d \in Increments(key[c]) :
        /\ inc' = [inc EXCEPT ![c] = d]
        /\ value' = [value EXCEPT ![c] = stats[key[c]] + d]
  BY DEF Get
<1>2. /\ stage[c] = "get" /\ stage' = [stage EXCEPT ![c] = "put"]
      /\ UNCHANGED <<stats, total, key>>
      /\ raced' = IF Race(c) THEN raced \cup {key[c]} ELSE raced
  BY DEF Get, NoteRace
<1>3. ExactUnlessRaced'
  BY <1>2
<1>4. ASSUME NEW k \in StatKeys \ raced', NEW o \in CPUs, Updating(o, k)'
      PROVE  value'[o] = total'[k] + inc'[o]
  <2>1. CASE o = c
    BY <1>1, <1>2, <1>4, <2>1
  <2>2. CASE o # c
    BY <1>1, <1>2, <1>4, <2>2
  <2> QED
    BY <2>1, <2>2
<1>5. ASSUME NEW k \in StatKeys \ raced', NEW o \in CPUs, NEW q \in CPUs,
             Updating(o, k)', Updating(q, k)', q # o
      PROVE  FALSE
  <2>1. CASE o # c /\ q # c
    BY <1>2, <1>5, <2>1
  <2>2. CASE o = c \/ q = c
    <3>1. Race(c) /\ key[c] = k
      BY <1>2, <1>5, <2>2 DEF Race
    <3> QED
      BY <1>2, <1>5, <3>1
  <2> QED
    BY <2>1, <2>2
<1> QED
  BY <1>3, <1>4, <1>5

LEMMA RacePut ==
  ASSUME TypeOK, RaceInv, NEW c \in CPUs, Put(c)
  PROVE  RaceInv'
<1> USE DEF TypeOK, RaceInv, ExactUnlessRaced, Updating
<1>1. /\ stats' = [stats EXCEPT ![key[c]] = value[c]]
      /\ total' = [total EXCEPT ![key[c]] = @ + inc[c]]
      /\ UNCHANGED <<value, inc, raced>>
      /\ stage[c] = "put" /\ stage'[c] # "put"
      /\ \A o \in CPUs \ {c} : stage'[o] = stage[o] /\ key'[o] = key[o]
  BY DEF Put
<1>2. key[c] \notin raced => value[c] = total[key[c]] + inc[c]
  BY <1>1
<1>3. ExactUnlessRaced'
  BY <1>1, <1>2
<1>4. ASSUME NEW k \in StatKeys \ raced', NEW o \in CPUs, Updating(o, k)'
      PROVE  Updating(o, k) /\ key[c] # k
  <2>1. o # c /\ Updating(o, k)
    BY <1>1, <1>4
  <2> QED
    BY <1>1, <2>1
<1>5. ASSUME NEW k \in StatKeys \ raced', NEW o \in CPUs, Updating(o, k)'
      PROVE  value'[o] = total'[k] + inc'[o]
  BY <1>1, <1>4, <1>5
<1>6. ASSUME NEW k \in StatKeys \ raced', NEW o \in CPUs, NEW q \in CPUs,
             Updating(o, k)', Updating(q, k)'
      PROVE  q = o
  BY <1>1, <1>4, <1>6
<1> QED
  BY <1>3, <1>5, <1>6

LEMMA RaceNext == TypeOK /\ RaceInv /\ [Next]_vars => RaceInv'
<1> SUFFICES ASSUME TypeOK, RaceInv, [Next]_vars PROVE RaceInv'
  OBVIOUS
<1> USE DEF RaceInv, ExactUnlessRaced, Updating
<1>1. ASSUME NEW c \in CPUs, Receive(c) PROVE RaceInv'
  BY <1>1 DEF Receive, TypeOK
<1>2. ASSUME NEW c \in CPUs, Classify(c) PROVE RaceInv'
  BY <1>2 DEF Classify, TypeOK
<1>3. ASSUME NEW v \in Settings, SetConfig(v) PROVE RaceInv'
  BY <1>3 DEF SetConfig, handler
<1>4. CASE BeginReport
  BY <1>4 DEF BeginReport, handler
<1>5. CASE ReadStat
  BY <1>5 DEF ReadStat, handler
<1>6. CASE UNCHANGED vars
  BY <1>6 DEF vars, handler
<1> QED
  BY RaceGet, RacePut, <1>1, <1>2, <1>3, <1>4, <1>5, <1>6 DEF Next

\* A statistic that no two CPUs had in hand at once is what was added to it.
THEOREM UnracedIsExact == Spec => []ExactUnlessRaced
<1>1. RaceInv => ExactUnlessRaced
  BY DEF RaceInv
<1> QED
  BY TypeInit, TypeNext, RaceInit, RaceNext, <1>1, PTL DEF Spec

\* And it never goes back.
THEOREM UnracedIsMonotone == Spec => MonotoneUnlessRaced
<1>1. TypeOK /\ RaceInv /\ [Next]_vars
        => [\A k \in StatKeys \ raced : stats'[k] >= stats[k]]_vars
  <2> SUFFICES ASSUME TypeOK, RaceInv, [Next]_vars, NEW k \in StatKeys \ raced
               PROVE  stats'[k] >= stats[k]
    OBVIOUS
  <2>1. CASE UNCHANGED stats
    BY <2>1 DEF TypeOK
  <2>2. ASSUME NEW c \in CPUs, Put(c) PROVE stats'[k] >= stats[k]
    <3>1. stats' = [stats EXCEPT ![key[c]] = value[c]] /\ Updating(c, key[c])
      BY <2>2 DEF Put, Updating
    <3>2. key[c] = k => value[c] = stats[k] + inc[c] /\ inc[c] \in Nat
      BY <3>1 DEF TypeOK, RaceInv, ExactUnlessRaced
    <3> QED
      BY <3>1, <3>2 DEF TypeOK
  <2> QED
    BY <2>1, <2>2
       DEF Next, vars, handler, reader, Receive, Classify, Get, SetConfig, BeginReport, ReadStat
<1> QED
  BY TypeInit, TypeNext, RaceInit, RaceNext, <1>1, PTL DEF Spec, MonotoneUnlessRaced

OneCPU == \E c : CPUs = {c}

NothingRaced == raced = {}

\* On one CPU there is nothing to race with, so every statistic is exact.
THEOREM AloneIsExact == OneCPU /\ Spec => [](stats = total)
<1>0. OneCPU => []OneCPU
  <2>1. OneCPU => OneCPU'
    BY DEF OneCPU
  <2> QED
    BY <2>1, PTL
<1>1. Init => NothingRaced
  BY DEF Init, NothingRaced
<1>2. OneCPU /\ NothingRaced /\ [Next]_vars => NothingRaced'
  BY DEF Next, vars, reader, handler, Receive, Classify, Get, Put, SetConfig, BeginReport,
         ReadStat, NoteRace, Race, OneCPU, NothingRaced
<1>3. TypeOK /\ ExactUnlessRaced /\ NothingRaced => stats = total
  BY DEF TypeOK, ExactUnlessRaced, NothingRaced
<1> QED
  BY TypeCorrect, UnracedIsExact, <1>0, <1>1, <1>2, <1>3, PTL DEF Spec

-----------------------------------------------------------------------------
(* The extremes of the percentage.                                         *)

LossInv == LossExtremes /\ \A c \in CPUs : stage[c] = "config" => ret[c] = "pass"

LEMMA LossNext == TypeOK /\ LossInv /\ [Next]_vars => LossInv'
<1> SUFFICES ASSUME TypeOK, LossInv, [Next]_vars PROVE LossInv'
  OBVIOUS
<1> USE DEF TypeOK, LossInv, LossExtremes, Dropping
<1>1. ASSUME NEW c \in CPUs, Receive(c) PROVE LossInv'
  BY <1>1 DEF Receive
<1>2. ASSUME NEW c \in CPUs, Classify(c) PROVE LossInv'
  <2>1. PICK draw \in Draws :
          key' = [key EXCEPT ![c] = IF Drops(draw, percentage'[c]) THEN "dropped" ELSE "processed"]
    BY <1>2 DEF Classify
  <2>2. draw \in 0..99 /\ percentage' = [percentage EXCEPT ![c] = Effective(config)]
    BY <1>2 DEF Classify
  <2>3. percentage'[c] \in 0..100
    BY <2>2, EffectivePercentage
  <2>4. percentage'[c] = 0 => key'[c] = "processed"
    BY <2>1, <2>2, <2>3 DEF Drops
  <2>5. percentage'[c] = 100 => key'[c] = "dropped"
    BY <2>1, <2>2, <2>3 DEF Drops
  <2>6. ret'[c] = "pass" /\ stage'[c] = "get"
    BY <1>2 DEF Classify
  <2>7. \A o \in CPUs \ {c} : /\ stage'[o] = stage[o] /\ ret'[o] = ret[o]
                              /\ key'[o] = key[o] /\ percentage'[o] = percentage[o]
    BY <1>2, <2>1 DEF Classify
  <2>8. /\ percentage'[c] = 0 => ~Dropping(c)'
        /\ percentage'[c] = 100 => Dropping(c)'
    BY <2>4, <2>5, <2>6
  <2>9. ASSUME NEW o \in CPUs \ {c}, stage'[o] \in {"get", "put"}
        PROVE  /\ percentage'[o] = 0 => ~Dropping(o)'
               /\ percentage'[o] = 100 => Dropping(o)'
    BY <2>7, <2>9
  <2>10. \A o \in CPUs : stage'[o] = "config" => ret'[o] = "pass"
    BY <2>6, <2>7
  <2> QED
    BY <2>8, <2>9, <2>10
<1>3. ASSUME NEW c \in CPUs, Get(c) PROVE LossInv'
  BY <1>3 DEF Get
<1>4. ASSUME NEW c \in CPUs, Put(c) PROVE LossInv'
  <2>1. /\ ret' = [ret EXCEPT ![c] = IF key[c] = "dropped" THEN "drop" ELSE @]
        /\ key' = [key EXCEPT ![c] = NextKey(key[c])]
        /\ UNCHANGED percentage
        /\ stage[c] = "put"
        /\ \A o \in CPUs \ {c} : stage'[o] = stage[o]
        /\ stage'[c] # "config"
    BY <1>4 DEF Put
  <2>2. NextKey(key[c]) # "dropped"
    BY DEF NextKey
  <2>3. Dropping(c)' <=> Dropping(c)
    BY <2>1, <2>2
  <2>4. \A o \in CPUs \ {c} : key'[o] = key[o] /\ ret'[o] = ret[o]
    BY <2>1
  <2> QED
    BY <2>1, <2>3, <2>4
<1>5. ASSUME NEW v \in Settings, SetConfig(v) PROVE LossInv'
  BY <1>5 DEF SetConfig, handler
<1>6. CASE BeginReport
  BY <1>6 DEF BeginReport, handler
<1>7. CASE ReadStat
  BY <1>7 DEF ReadStat, handler
<1>8. CASE UNCHANGED vars
  BY <1>8 DEF vars, handler
<1> QED
  BY <1>1, <1>2, <1>3, <1>4, <1>5, <1>6, <1>7, <1>8 DEF Next

\* A percentage of 0 or no percentage drops nothing, 100 or more drops all,
\* whatever values are configured while packets are handled.
THEOREM ExtremesAreSure == Spec => []LossExtremes
<1>1. Init => LossInv
  BY DEF Init, LossInv, LossExtremes
<1>2. LossInv => LossExtremes
  BY DEF LossInv
<1> QED
  BY TypeInit, TypeNext, LossNext, <1>1, <1>2, PTL DEF Spec
=============================================================================
