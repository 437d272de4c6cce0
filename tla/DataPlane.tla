------------------------------ MODULE DataPlane ------------------------------
(***************************************************************************)
(* The loaded module at work: packet_handler of tc_bernoulli and           *)
(* xdp_bernoulli (the same code but for the names of the verdicts) runs on *)
(* every CPU at once, over two maps it shares with the other CPUs and with *)
(* the commands of the user.  A call of a map helper is one atomic step;   *)
(* what is between two calls is local to a CPU.                            *)
(*                                                                         *)
(* `packets', `total' and `raced' are auxiliary: what the counters ought   *)
(* to say, and the statistics two CPUs have had in hand at once.           *)
(***************************************************************************)
EXTENDS Integers, FiniteSets

CONSTANTS CPUs,        \* the CPUs that receive packets
          Settings,    \* values the user gives packet_loss_percentage
          Draws,       \* the outcomes of bpf_get_prandom_u32() % 100
          Costs,       \* nanoseconds a call of the handler takes
          MaxPackets,  \* bound: packets received
          None         \* the config map has no entry yet

ASSUME SettingsAssumption == Settings \subseteq Nat /\ None \notin Nat
ASSUME DrawsAssumption    == Draws \subseteq 0..99
ASSUME CostsAssumption    == Costs \subseteq Nat
ASSUME BoundAssumption    == MaxPackets \in Nat

StatKeys == {"processed", "dropped", "time"}

VARIABLES stats,       \* stats_map; a missing entry reads as 0
          config,      \* the entry of config_map
          stage, key, percentage, value, inc, ret,   \* the handler, per CPU
          reading,     \* the key dump_stats reads next, or "none"
          report,      \* what it has read
          packets, total, raced

handler == <<stage, key, percentage, value, inc, ret>>
reader  == <<reading, report>>
vars    == <<stats, config, handler, reader, packets, total, raced>>

Zero == [k \in StatKeys |-> 0]

Init ==
    /\ stats = Zero
    /\ config = None
    /\ stage = [c \in CPUs |-> "idle"]
    /\ key = [c \in CPUs |-> "processed"]
    /\ percentage = [c \in CPUs |-> 0]
    /\ value = [c \in CPUs |-> 0]
    /\ inc = [c \in CPUs |-> 0]
    /\ ret = [c \in CPUs |-> "pass"]
    /\ reading = "none"
    /\ report = Zero
    /\ packets = 0
    /\ total = Zero
    /\ raced = {}

-----------------------------------------------------------------------------
(* packet_handler.                                                         *)

Receive(c) ==
    /\ stage[c] = "idle"
    /\ packets < MaxPackets                          \* bound
    /\ packets' = packets + 1
    /\ stage' = [stage EXCEPT ![c] = "config"]
    /\ ret' = [ret EXCEPT ![c] = "pass"]
    /\ UNCHANGED <<stats, config, key, percentage, value, inc, reader, total, raced>>

\* Mutant: the percentage is not cut off at 100.
EffectiveUncapped(setting) == IF setting = None THEN 0 ELSE setting

\* get_config_value and the cap at 100.
Effective(setting) ==
    IF setting = None THEN 0 ELSE IF setting > 100 THEN 100 ELSE setting

\* Mutant: <= instead of <.
DropsOrEqual(draw, percent) == draw <= percent

Drops(draw, percent) == draw < percent

\* The config map is read and the packet's fate drawn.
Classify(c) ==
    /\ stage[c] = "config"
    /\ percentage' = [percentage EXCEPT ![c] = Effective(config)]
    /\ \E draw \in Draws :
          key' = [key EXCEPT ![c] =
                     IF Drops(draw, percentage'[c]) THEN "dropped" ELSE "processed"]
    /\ stage' = [stage EXCEPT ![c] = "get"]
    /\ UNCHANGED <<stats, config, value, inc, ret, reader, packets, total, raced>>

\* What one call adds to a statistic.
Increments(k) == IF k = "time" THEN Costs ELSE {1}

\* Another CPU is between its look-up and its update of the same statistic.
Race(c) == \E o \in CPUs \ {c} : stage[o] = "put" /\ key[o] = key[c]

NoteRace(c) == raced' = IF Race(c) THEN raced \cup {key[c]} ELSE raced

\* Mutant: the key is not moved on before the look-up.
GetWrongKey(c) ==
    /\ stage[c] = "get"
    /\ \E d \in Increments(key[c]) :
          /\ inc' = [inc EXCEPT ![c] = d]
          /\ value' = [value EXCEPT ![c] = stats["processed"] + d]
    /\ stage' = [stage EXCEPT ![c] = "put"]
    /\ NoteRace(c)
    /\ UNCHANGED <<stats, config, key, percentage, ret, reader, packets, total>>

\* Mutant: a CPU adds to what it last wrote itself.
GetCached(c) ==
    /\ stage[c] = "get"
    /\ \E d \in Increments(key[c]) :
          /\ inc' = [inc EXCEPT ![c] = d]
          /\ value' = [value EXCEPT ![c] = @ + d]
    /\ stage' = [stage EXCEPT ![c] = "put"]
    /\ NoteRace(c)
    /\ UNCHANGED <<stats, config, key, percentage, ret, reader, packets, total>>

\* value = get_stats(key) + ...
Get(c) ==
    /\ stage[c] = "get"
    /\ \E d \in Increments(key[c]) :
          /\ inc' = [inc EXCEPT ![c] = d]
          /\ value' = [value EXCEPT ![c] = stats[key[c]] + d]
    /\ stage' = [stage EXCEPT ![c] = "put"]
    /\ NoteRace(c)
    /\ UNCHANGED <<stats, config, key, percentage, ret, reader, packets, total>>

\* The order of the three updates; the call returns after the last.
NextKey(k) == IF k = "dropped" THEN "processed" ELSE "time"

\* Mutant: update_stats with BPF_NOEXIST.
PutOnce(c) ==
    /\ stage[c] = "put"
    /\ stats' = IF stats[key[c]] = 0 THEN [stats EXCEPT ![key[c]] = value[c]] ELSE stats
    /\ total' = [total EXCEPT ![key[c]] = @ + inc[c]]
    /\ ret' = [ret EXCEPT ![c] = IF key[c] = "dropped" THEN "drop" ELSE @]
    /\ stage' = [stage EXCEPT ![c] = IF key[c] = "time" THEN "idle" ELSE "get"]
    /\ key' = [key EXCEPT ![c] = NextKey(@)]
    /\ UNCHANGED <<config, percentage, value, inc, reader, packets, raced>>

\* update_stats(key, value), whatever the entry says by now.
Put(c) ==
    /\ stage[c] = "put"
    /\ stats' = [stats EXCEPT ![key[c]] = value[c]]
    /\ total' = [total EXCEPT ![key[c]] = @ + inc[c]]
    /\ ret' = [ret EXCEPT ![c] = IF key[c] = "dropped" THEN "drop" ELSE @]
    /\ stage' = [stage EXCEPT ![c] = IF key[c] = "time" THEN "idle" ELSE "get"]
    /\ key' = [key EXCEPT ![c] = NextKey(@)]
    /\ UNCHANGED <<config, percentage, value, inc, reader, packets, raced>>

-----------------------------------------------------------------------------
(* The user's commands, while the packets flow.                            *)

\* config packet_loss_percentage=v, when it reaches the entry the handlers look
\* up (ModuleConfig says when); otherwise nothing changes here.
SetConfig(v) ==
    /\ config' = v
    /\ UNCHANGED <<stats, handler, reader, packets, total, raced>>

\* dump_stats: three look-ups one after the other.
NextRead(k) == IF k = "processed" THEN "dropped" ELSE IF k = "dropped" THEN "time" ELSE "none"

BeginReport ==
    /\ reading = "none"
    /\ reading' = "processed"
    /\ report' = Zero
    /\ UNCHANGED <<stats, config, handler, packets, total, raced>>

\* Mutant: the result goes to the variable of the next look-up.
ReadStatMisplaced ==
    /\ reading # "none"
    /\ report' = [report EXCEPT ![IF reading = "processed" THEN "dropped" ELSE "time"] =
                     stats[reading]]
    /\ reading' = NextRead(reading)
    /\ UNCHANGED <<stats, config, handler, packets, total, raced>>

ReadStat ==
    /\ reading # "none"
    /\ report' = [report EXCEPT ![reading] = stats[reading]]
    /\ reading' = NextRead(reading)
    /\ UNCHANGED <<stats, config, handler, packets, total, raced>>

-----------------------------------------------------------------------------

Next ==
    \/ \E c \in CPUs : Receive(c) \/ Classify(c) \/ Get(c) \/ Put(c)
    \/ \E v \in Settings : SetConfig(v)
    \/ BeginReport
    \/ ReadStat

Spec == Init /\ [][Next]_vars

-----------------------------------------------------------------------------
(* Properties.                                                             *)

\* The maps and the locals hold unsigned numbers, and the percentage used is
\* one.
TypeOK ==
    /\ stats \in [StatKeys -> Nat]
    /\ config \in Settings \cup {None}
    /\ stage \in [CPUs -> {"idle", "config", "get", "put"}]
    /\ key \in [CPUs -> StatKeys]
    /\ percentage \in [CPUs -> 0..100]
    /\ value \in [CPUs -> Nat]
    /\ inc \in [CPUs -> Nat]
    /\ ret \in [CPUs -> {"pass", "drop"}]
    /\ reading \in StatKeys \cup {"none"}
    /\ report \in [StatKeys -> Nat]
    /\ packets \in Nat
    /\ total \in [StatKeys -> Nat]
    /\ raced \subseteq StatKeys

\* However the CPUs interleave, the unlocked read-modify-write of a statistic
\* never makes it larger than the sum of what the handlers have added.
NeverOvercounts == \A k \in StatKeys : stats[k] <= total[k]

\* Nor does a report, whose three numbers are of three different moments.
ReportsNoMoreThanHappened == \A k \in StatKeys : report[k] <= total[k]

\* An update is lost only where two CPUs have overlapped: a statistic that no
\* two of them ever had in hand at once is exact, whatever the others suffered.
ExactUnlessRaced == \A k \in StatKeys \ raced : stats[k] = total[k]

\* And only such an overlap makes a statistic go back.
MonotoneUnlessRaced == [][\A k \in StatKeys \ raced : stats'[k] >= stats[k]]_vars

\* A percentage of 0, or none configured, drops no packet; 100 or more drops
\* every packet, whatever is drawn.
Dropping(c) == key[c] = "dropped" \/ ret[c] = "drop"
LossExtremes ==
    \A c \in CPUs : stage[c] \in {"get", "put"} =>
        /\ percentage[c] = 0 => ~Dropping(c)
        /\ percentage[c] = 100 => Dropping(c)
=============================================================================
