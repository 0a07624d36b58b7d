----------------------------- MODULE MainProofs -----------------------------
(***************************************************************************)
(* Theorems about what the mains of the two binaries do: load_config of    *)
(* both (TunnelConfig) and the reconnect loop of tunnel-client (Reconnect).*)
(* The delays follow the exponential law and stay between the configured   *)
(* bounds for every pair of bounds and any number of sessions; the maps    *)
(* that load_config builds are what the last entries say, for settings of  *)
(* any length.                                                             *)
(***************************************************************************)
EXTENDS TunnelConfig, Reconnect, WellFoundedInduction, TLAPS

-----------------------------------------------------------------------------
(* Least elements and powers of two                                        *)

(* A non-empty set of natural numbers has a least element.                 *)
LEMMA LeastElement ==
  ASSUME NEW T, T \subseteq Nat, T # {}
  PROVE  \E x \in T : \A y \in T : x <= y
<1> DEFINE R == OpToRel(<, Nat)
<1>1. IsWellFoundedOn(R, Nat)
  BY NatLessThanWellFounded
<1>2. \A x, y \in Nat : <<y, x>> \in R <=> y < x
  BY DEF OpToRel
<1> HIDE DEF R
<1>3. PICK x \in T : \A y \in T : ~(<<y, x>> \in R)
  BY <1>1, WFMin
<1>4. ASSUME NEW y \in T PROVE x <= y
  <2>1. x \in Nat /\ y \in Nat /\ ~(<<y, x>> \in R)
    BY <1>3
  <2>2. ~(y < x)
    BY <1>2, <2>1
  <2> QED
    BY <2>1, <2>2
<1> QED
  BY <1>4

(* g is the table of the powers of two up to n.                            *)
PowerTable(g, n) ==
  /\ g \in [0..n -> Nat] /\ g[0] = 1
  /\ \A k \in 1..n : g[k] = 2 * g[k - 1]

(* There is a table of any length: the least length without one would      *)
(* extend the table before it.                                             *)
LEMMA PowerTableExists == \A n \in Nat : \E g : PowerTable(g, n)
<1> DEFINE T == {n \in Nat : ~ \E g : PowerTable(g, n)}
<1> SUFFICES ASSUME T # {} PROVE FALSE
  OBVIOUS
<1>1. PICK n \in T : \A m \in T : n <= m
  BY LeastElement
<1>2. n \in Nat /\ ~ \E g : PowerTable(g, n)
  BY <1>1
<1>3. CASE n = 0
  <2>1. PowerTable([k \in 0..n |-> 1], n)
    BY <1>3 DEF PowerTable
  <2> QED
    BY <1>2, <2>1
<1>4. CASE n # 0
  <2>1. n - 1 \in Nat /\ n - 1 \notin T
    BY <1>1, <1>2, <1>4
  <2>2. PICK g : PowerTable(g, n - 1)
    BY <2>1
  <2> DEFINE h == [k \in 0..n |-> IF k = n THEN 2 * g[n - 1] ELSE g[k]]
  <2>3. PowerTable(h, n)
    <3>1. \A k \in 0..(n - 1) : g[k] \in Nat
      BY <2>2 DEF PowerTable
    <3>2. n - 1 \in 0..(n - 1) /\ \A k \in 0..n : k # n => k \in 0..(n - 1)
      BY <1>2, <2>1
    <3>3. 2 * g[n - 1] \in Nat
      BY <3>1, <3>2
    <3>4. h \in [0..n -> Nat]
      BY <3>1, <3>2, <3>3
    <3>5. h[0] = 1
      BY <1>2, <1>4, <2>2 DEF PowerTable
    <3>6. ASSUME NEW k \in 1..n PROVE h[k] = 2 * h[k - 1]
      <4>1. k \in 0..n /\ k - 1 \in 0..n /\ k - 1 # n
        BY <1>2
      <4>2. h[k - 1] = g[k - 1]
        BY <4>1
      <4>3. CASE k = n
        BY <4>1, <4>2, <4>3
      <4>4. CASE k # n
        <5>1. k \in 1..(n - 1)
          BY <1>2, <4>4
        <5>2. g[k] = 2 * g[k - 1]
          BY <5>1, <2>2 DEF PowerTable
        <5> QED
          BY <4>1, <4>2, <4>4, <5>2
      <4> QED
        BY <4>3, <4>4
    <3> QED
      BY <3>4, <3>5, <3>6 DEF PowerTable
  <2> QED
    BY <1>2, <2>3
<1> QED
  BY <1>3, <1>4

(* Two tables agree where both are defined.                                *)
LEMMA PowerTableUnique ==
  ASSUME NEW m \in Nat, NEW n \in Nat, NEW g, NEW h,
         PowerTable(g, m), PowerTable(h, n), NEW i \in Nat, i <= m, i <= n
  PROVE  g[i] = h[i]
<1> DEFINE T == {k \in Nat : k <= m /\ k <= n /\ g[k] # h[k]}
<1> SUFFICES ASSUME T # {} PROVE FALSE
  OBVIOUS
<1>1. PICK k \in T : \A j \in T : k <= j
  BY LeastElement
<1>2. k \in Nat /\ k <= m /\ k <= n /\ g[k] # h[k]
  BY <1>1
<1>3. k # 0
  BY <1>2 DEF PowerTable
<1>4. k - 1 \in Nat /\ k - 1 <= m /\ k - 1 <= n /\ ~(k <= k - 1) /\ k \in 1..m /\ k \in 1..n
  BY <1>2, <1>3
<1>5. g[k - 1] = h[k - 1]
  BY <1>1, <1>4
<1> QED
  BY <1>2, <1>4, <1>5 DEF PowerTable

(* The recursive definition of PowerOfTwo has a solution, and so the       *)
(* function satisfies its own equation.                                    *)
LEMMA PowerOfTwoIs ==
  /\ PowerOfTwo \in [Nat -> Nat]
  /\ PowerOfTwo[0] = 1
  /\ \A n \in Nat : PowerOfTwo[n + 1] = 2 * PowerOfTwo[n]
<1> DEFINE Table(n) == CHOOSE g : PowerTable(g, n)
           f == [n \in Nat |-> Table(n)[n]]
<1>1. \A n \in Nat : PowerTable(Table(n), n)
  BY PowerTableExists
<1> HIDE DEF Table
<1>2. \A n \in Nat : f[n] \in Nat
  BY <1>1 DEF PowerTable
<1>3. f[0] = 1
  BY <1>1 DEF PowerTable
<1>4. ASSUME NEW n \in Nat, n # 0 PROVE f[n] = 2 * f[n - 1]
  <2>1. n - 1 \in Nat /\ n - 1 <= n /\ n - 1 <= n - 1 /\ n \in 1..n
    BY <1>4
  <2>2. PowerTable(Table(n), n) /\ PowerTable(Table(n - 1), n - 1)
    BY <1>1, <2>1
  <2>3. Table(n)[n - 1] = Table(n - 1)[n - 1]
    BY <2>1, <2>2, PowerTableUnique
  <2>4. Table(n)[n] = 2 * Table(n)[n - 1]
    BY <2>1, <2>2 DEF PowerTable
  <2> QED
    BY <2>1, <2>3, <2>4
<1>5. f = [n \in Nat |-> IF n = 0 THEN 1 ELSE 2 * f[n - 1]]
  BY <1>3, <1>4
<1> HIDE DEF f
<1>6. PowerOfTwo = [n \in Nat |-> IF n = 0 THEN 1 ELSE 2 * PowerOfTwo[n - 1]]
  BY <1>5 DEF PowerOfTwo
<1>7. PowerOfTwo[0] = 1
  BY <1>6
<1>8. ASSUME NEW n \in Nat PROVE PowerOfTwo[n + 1] = 2 * PowerOfTwo[n]
  <2>1. n + 1 \in Nat /\ n + 1 # 0 /\ (n + 1) - 1 = n
    OBVIOUS
  <2> QED
    BY <1>6, <2>1
<1>9. ASSUME NEW n \in Nat PROVE PowerOfTwo[n] \in Nat
  <2> DEFINE T == {k \in Nat : PowerOfTwo[k] \notin Nat}
  <2> SUFFICES ASSUME T # {} PROVE FALSE
    OBVIOUS
  <2>1. PICK k \in T : \A j \in T : k <= j
    BY LeastElement
  <2>2. k \in Nat /\ k # 0 /\ PowerOfTwo[k] \notin Nat
    BY <1>7, <2>1
  <2>3. k - 1 \in Nat /\ k - 1 \notin T
    BY <2>1, <2>2
  <2>4. PowerOfTwo[k] = 2 * PowerOfTwo[k - 1]
    BY <1>6, <2>2
  <2> QED
    BY <2>2, <2>3, <2>4
<1> QED
  BY <1>6, <1>7, <1>8, <1>9

-----------------------------------------------------------------------------
(* The reconnect loop                                                      *)

(* Every error of a chain ended a session of its own.                      *)
ChainFits == IF loop = "session" THEN chain < sessions ELSE chain <= sessions

(* The delay after n errors of a chain.                                    *)
LawfulDelay(n) == Min({BackoffMax, BackoffMin * PowerOfTwo[n]})

(* The delay in hand is the one that follows the chain.                    *)
ChainDelay ==
  /\ backoff = LawfulDelay(chain)
  /\ loop = "sleep" => chain # 0 /\ slept = LawfulDelay(chain - 1)

ReconnectInv == ReconnectTypeOK /\ ChainFits /\ ChainDelay

(* The minimum of two delays.                                              *)
LEMMA MinOfTwo ==
  ASSUME NEW a \in Int, NEW b \in Int
  PROVE  Min({a, b}) = IF a <= b THEN a ELSE b
<1> DEFINE S == {a, b}
           m == IF a <= b THEN a ELSE b
<1>1. m \in S /\ \A y \in S : m <= y
  OBVIOUS
<1>2. Min(S) \in S /\ \A y \in S : Min(S) <= y
  BY <1>1 DEF Min
<1>3. Min(S) = m
  BY <1>1, <1>2
<1> QED
  BY <1>3

(* The law starts at backoff_min, and doubling leads from one delay to the *)
(* next, at the cap and below it.                                          *)
LEMMA LawStarts == LawfulDelay(0) = BackoffMin
<1>1. BackoffMin * PowerOfTwo[0] = BackoffMin
  BY PowerOfTwoIs, BackoffAssumption
<1> QED
  BY <1>1, MinOfTwo, BackoffAssumption DEF LawfulDelay

(* Doubling a delay and capping it takes the law one failure further.      *)
LEMMA LawDoubles ==
  ASSUME NEW n \in Nat
  PROVE  Doubled(LawfulDelay(n)) = LawfulDelay(n + 1)
<1>1. PowerOfTwo[n] \in Nat /\ PowerOfTwo[n + 1] = 2 * PowerOfTwo[n]
  BY PowerOfTwoIs
<1>2. PICK d \in Nat : d = BackoffMin * PowerOfTwo[n]
  BY <1>1, BackoffAssumption
<1>3. BackoffMin * PowerOfTwo[n + 1] = d * 2
  BY <1>1, <1>2, BackoffAssumption
<1>4. LawfulDelay(n) = IF BackoffMax <= d THEN BackoffMax ELSE d
  BY <1>2, MinOfTwo, BackoffAssumption DEF LawfulDelay
<1>5. LawfulDelay(n + 1) = IF BackoffMax <= d * 2 THEN BackoffMax ELSE d * 2
  <2>1. d * 2 \in Int /\ BackoffMax \in Int
    BY BackoffAssumption
  <2> QED
    BY <1>3, <2>1, MinOfTwo DEF LawfulDelay
<1>6. LawfulDelay(n) \in Nat
  BY <1>4, BackoffAssumption
<1>7. Doubled(LawfulDelay(n)) =
        IF BackoffMax <= LawfulDelay(n) * 2 THEN BackoffMax ELSE LawfulDelay(n) * 2
  <2>1. LawfulDelay(n) * 2 \in Int /\ BackoffMax \in Int
    BY <1>6, BackoffAssumption
  <2> QED
    BY <2>1, MinOfTwo DEF Doubled
<1> QED
  BY <1>4, <1>5, <1>7, BackoffAssumption

(* Doubling stays between the bounds.                                      *)
LEMMA DoubledInBounds ==
  ASSUME NEW b \in BackoffMin..BackoffMax
  PROVE  Doubled(b) \in BackoffMin..BackoffMax
<1>1. b * 2 \in Int /\ b * 2 >= BackoffMin /\ BackoffMax \in Int
  BY BackoffAssumption
<1> QED
  BY <1>1, MinOfTwo, BackoffAssumption DEF Doubled

(* The loop starts with the smallest delay and no chain.                   *)
LEMMA ReconnectInitInv == ReconnectInit => ReconnectInv
  BY BackoffAssumption, MaxSessionsAssumption, LawStarts
  DEF ReconnectInit, ReconnectInv, ReconnectTypeOK, ChainFits, ChainDelay

(* Neither arm of the match, nor the start of a session, breaks it.        *)
LEMMA ReconnectInvKept ==
  ReconnectInv /\ [ReconnectNext]_reconnectVars => ReconnectInv'
<1> SUFFICES ASSUME ReconnectInv, [ReconnectNext]_reconnectVars
             PROVE  ReconnectInv'
  OBVIOUS
<1> USE BackoffAssumption, MaxSessionsAssumption
    DEF ReconnectInv, ReconnectTypeOK, ChainFits, CleanEnds
<1>0. \A n : LawfulDelay(n)' = LawfulDelay(n)
  BY DEF LawfulDelay
<1>1. ASSUME NEW how \in CleanEnds, EndedCleanly(how) PROVE ReconnectInv'
  <2>1. ChainDelay'
    BY <1>0, <1>1, LawStarts DEF EndedCleanly, ChainDelay
  <2> QED
    BY <1>1, <2>1 DEF EndedCleanly
<1>2. ASSUME NEW long \in BOOLEAN, Failed(long) PROVE ReconnectInv'
  <2> DEFINE delay == IF long THEN BackoffMin ELSE backoff
             errors == IF long THEN 0 ELSE chain
  <2>1. delay \in BackoffMin..BackoffMax /\ errors \in Nat
    OBVIOUS
  <2>2. Doubled(delay) \in BackoffMin..BackoffMax
    BY <2>1, DoubledInBounds
  <2>3. slept' = delay /\ backoff' = Doubled(delay) /\ chain' = errors + 1 /\ loop' = "sleep"
    BY <1>2 DEF Failed
  <2>4. delay = LawfulDelay(errors)
    BY LawStarts DEF ChainDelay
  <2>5. Doubled(delay) = LawfulDelay(errors + 1)
    BY <2>1, <2>4, LawDoubles
  <2>6. ChainDelay'
    <3>1. errors + 1 # 0 /\ (errors + 1) - 1 = errors
      BY <2>1
    <3> HIDE DEF delay, errors
    <3>2. backoff' = LawfulDelay(chain') /\ slept' = LawfulDelay(chain' - 1) /\ chain' # 0
      BY <2>3, <2>4, <2>5, <3>1
    <3> QED
      BY <1>0, <3>2 DEF ChainDelay
  <2>7. (ReconnectTypeOK /\ ChainFits)'
    BY <1>2, <2>1, <2>2, <2>3 DEF Failed
  <2> QED
    BY <2>6, <2>7
<1>3. CASE Wake
  BY <1>0, <1>3 DEF Wake, ChainDelay
<1>4. CASE UNCHANGED reconnectVars
  BY <1>0, <1>4 DEF reconnectVars, ChainDelay
<1> QED
  BY <1>1, <1>2, <1>3, <1>4 DEF ReconnectNext

(* The client never sleeps longer than backoff_max, and no delay it has    *)
(* yet to sleep is below backoff_min: doubling neither overshoots the cap  *)
(* nor sticks at zero.                                                     *)
THEOREM DelaysInBounds == ReconnectSpec => []ReconnectTypeOK
<1>1. ReconnectInv => ReconnectTypeOK
  BY DEF ReconnectInv
<1> QED
  BY <1>1, ReconnectInitInv, ReconnectInvKept, PTL DEF ReconnectSpec

(* The n-th error of a chain of quick failures is followed by a sleep of   *)
(* backoff_min * 2^(n-1), capped at backoff_max, for every chain length    *)
(* and both bounds: the delay that main carries in backoff is the one the  *)
(* number of failures calls for.                                           *)
THEOREM DelayLaw == ReconnectSpec => []DelayIsExponential
<1>1. ReconnectInv => DelayIsExponential
  BY DEF ReconnectInv, ChainDelay, LawfulDelay, DelayIsExponential
<1> QED
  BY <1>1, ReconnectInitInv, ReconnectInvKept, PTL DEF ReconnectSpec

-----------------------------------------------------------------------------
(* load_config                                                             *)

Typed ==
  /\ setting \in [spokes : SpokeSettings, targets : TargetSettings,
                  target : Hosts \cup {Unset}, id : SpokeIds \cup {Unset},
                  token : Tokens \cup {Unset}]
  /\ server.pos \in Nat /\ client.pos \in Nat
  /\ server = [st |-> server.st, pos |-> server.pos, spokes |-> server.spokes]
  /\ client = [st |-> client.st, pos |-> client.pos, targets |-> client.targets]
  /\ DOMAIN server.spokes = SpokeIds
  /\ DOMAIN client.targets = Names
  /\ server.spokes = [i \in SpokeIds |-> server.spokes[i]]
  /\ client.targets = [n \in Names |-> client.targets[n]]

OfSpoke(n, i) == setting.spokes[n].form = "full" /\ setting.spokes[n].id = i
OfTarget(n, x) == setting.targets[n].form = "full" /\ setting.targets[n].name = x

(* m is the last of the first pos entries that names what P tests for.     *)
LastSpoke(m, i) ==
  /\ m \in 1..server.pos /\ OfSpoke(m, i)
  /\ \A n \in 1..server.pos : OfSpoke(n, i) => n <= m

LastTarget(m, x) ==
  /\ m \in 1..client.pos /\ OfTarget(m, x)
  /\ \A n \in 1..client.pos : OfTarget(n, x) => n <= m

(* The loop of tunnel-server has in its map, for each spoke, the last      *)
(* entry it has read, which was not a bad one.                             *)
SpokesSoFar ==
  /\ server.st # "failed" => server.pos <= Len(setting.spokes)
  /\ server.st = "ready" => server.pos = Len(setting.spokes)
  /\ \A i \in SpokeIds :
       \/ /\ server.spokes[i] = Unset
          /\ \A n \in 1..server.pos : ~OfSpoke(n, i)
       \/ \E m \in 1..server.pos :
            /\ LastSpoke(m, i) /\ ~BadSpoke(setting.spokes[m])
            /\ server.spokes[i] = SpokeConfig(setting.spokes[m])

Fallback(x) == IF x = Default /\ client.st # "loading" THEN setting.target ELSE Unset

(* The loop of tunnel-client has the host of the last entry of each name;  *)
(* after it, TARGET stands in for a missing default.                       *)
TargetsSoFar ==
  /\ client.pos <= Len(setting.targets)
  /\ client.st = "ready" =>
       client.pos = Len(setting.targets) /\ setting.id # Unset
  /\ client.st # "failed" => \A x \in Names :
       \/ /\ client.targets[x] = Fallback(x)
          /\ \A n \in 1..client.pos : ~OfTarget(n, x)
       \/ \E m \in 1..client.pos :
            LastTarget(m, x) /\ client.targets[x] = setting.targets[m].host

ConfigInv == Typed /\ SpokesSoFar /\ TargetsSoFar

(* Entries are records of their parts.                                     *)
LEMMA Entries ==
  ASSUME Typed
  PROVE  /\ setting.spokes \in SpokeSettings
         /\ setting.spokes \in Seq(SpokeEntry)
         /\ setting.targets \in Seq(TargetEntry)
         /\ Len(setting.spokes) \in Nat /\ Len(setting.targets) \in Nat
         /\ DOMAIN setting.spokes = 1..Len(setting.spokes)
         /\ DOMAIN setting.targets = 1..Len(setting.targets)
         /\ \A n \in 1..Len(setting.spokes) : setting.spokes[n] \in SpokeEntry
         /\ \A n \in 1..Len(setting.targets) : setting.targets[n] \in TargetEntry
  BY ConfigAssumption DEF Typed

(* Before the first entry both maps are empty.                             *)
LEMMA ConfigInitInv == ConfigInit => ConfigInv
<1> SUFFICES ASSUME ConfigInit PROVE ConfigInv
  OBVIOUS
<1>1. Typed
  BY DEF ConfigInit, Typed
<1>2. SpokesSoFar
  BY <1>1, Entries DEF ConfigInit, SpokesSoFar
<1>3. TargetsSoFar
  BY <1>1, Entries DEF ConfigInit, TargetsSoFar, Fallback
<1> QED
  BY <1>1, <1>2, <1>3 DEF ConfigInv

(* An entry that is read is the last one for its spoke so far.             *)
LEMMA SpokeStepKeeps == ConfigInv /\ SpokeStep => ConfigInv'
<1> SUFFICES ASSUME ConfigInv, SpokeStep PROVE ConfigInv'
  OBVIOUS
<1> DEFINE p == server.pos + 1
           e == setting.spokes[p]
<1>1. /\ p \in 1..Len(setting.spokes) /\ e \in SpokeEntry
      /\ server.pos \in Nat /\ UNCHANGED <<setting, client>>
      /\ server.st = "loading"
  BY Entries DEF SpokeStep, ConfigInv, Typed
<1>2. TargetsSoFar'
  BY <1>1 DEF ConfigInv, TargetsSoFar, Fallback, LastTarget, OfTarget
<1>3. CASE e.form = "blank"
  <2>1. server' = [server EXCEPT !.pos = p]
    BY <1>3 DEF SpokeStep
  <2>2. Typed'
    BY <1>1, <2>1 DEF ConfigInv, Typed
  <2>3. server'.pos = p /\ server'.st = "loading" /\ server'.spokes = server.spokes
    BY <1>1, <2>1 DEF ConfigInv, Typed
  <2>4. SpokesSoFar'
    <3>1. \A i \in SpokeIds : ~OfSpoke(p, i)
      BY <1>3 DEF OfSpoke
    <3> QED
      BY <1>1, <2>3, <3>1 DEF ConfigInv, SpokesSoFar, LastSpoke, OfSpoke
  <2> QED
    BY <1>2, <2>2, <2>4 DEF ConfigInv
<1>4. CASE e.form # "blank" /\ BadSpoke(e)
  <2>1. server' = [server EXCEPT !.st = "failed"]
    BY <1>4 DEF SpokeStep
  <2>2. Typed'
    BY <1>1, <2>1 DEF ConfigInv, Typed
  <2>3. server'.pos = server.pos /\ server'.st = "failed"
        /\ server'.spokes = server.spokes
    BY <1>1, <2>1 DEF ConfigInv, Typed
  <2>4. SpokesSoFar'
    BY <1>1, <2>3 DEF ConfigInv, SpokesSoFar, LastSpoke, OfSpoke
  <2> QED
    BY <1>2, <2>2, <2>4 DEF ConfigInv
<1>5. CASE e.form # "blank" /\ ~BadSpoke(e)
  <2>1. server' = [server EXCEPT !.pos = p, !.spokes = Inserted(@, e)]
    BY <1>5 DEF SpokeStep
  <2>2. e.form = "full" /\ e.id \in SpokeIds
    <3>1. e.form # "bad"
      BY <1>5 DEF BadSpoke
    <3> QED
      BY <1>1, <1>5, <3>1 DEF SpokeEntry
  <2>3. /\ server'.pos = p /\ server'.st = "loading"
        /\ server'.spokes = [server.spokes EXCEPT ![e.id] = SpokeConfig(e)]
    BY <1>1, <2>1 DEF ConfigInv, Typed, Inserted
  <2>4. Typed'
    <3>1. /\ DOMAIN server'.spokes = SpokeIds
          /\ server'.spokes = [i \in SpokeIds |-> server'.spokes[i]]
      BY <2>3 DEF ConfigInv, Typed
    <3>2. server' = [st |-> server'.st, pos |-> server'.pos, spokes |-> server'.spokes]
      BY <2>1 DEF ConfigInv, Typed
    <3> QED
      BY <1>1, <2>3, <3>1, <3>2 DEF ConfigInv, Typed
  <2>5. ASSUME NEW i \in SpokeIds, i # e.id
        PROVE server'.spokes[i] = server.spokes[i] /\ ~OfSpoke(p, i)
    BY <2>3, <2>5 DEF ConfigInv, Typed, OfSpoke
  <2>6. server'.spokes[e.id] = SpokeConfig(e) /\ OfSpoke(p, e.id)
    BY <2>2, <2>3 DEF ConfigInv, Typed, OfSpoke
  <2>7. SpokesSoFar'
    BY <1>1, <1>5, <2>3, <2>5, <2>6 DEF ConfigInv, SpokesSoFar, LastSpoke, OfSpoke
  <2> QED
    BY <1>2, <2>4, <2>7 DEF ConfigInv
<1> QED
  BY <1>3, <1>4, <1>5

(* At the end of TUNNEL_SPOKES the map stays as it is.                     *)
LEMMA SpokesLoadedKeeps == ConfigInv /\ SpokesLoaded => ConfigInv'
<1> SUFFICES ASSUME ConfigInv, SpokesLoaded PROVE ConfigInv'
  OBVIOUS
<1>1. /\ server.pos = Len(setting.spokes) /\ UNCHANGED <<setting, client>>
      /\ server'.pos = server.pos /\ server'.spokes = server.spokes
      /\ Len(setting.spokes) \in Nat
  BY Entries DEF SpokesLoaded, ConfigInv, Typed
<1>2. Typed'
  BY <1>1 DEF SpokesLoaded, ConfigInv, Typed
<1>3. SpokesSoFar'
  BY <1>1 DEF ConfigInv, SpokesSoFar, LastSpoke, OfSpoke
<1>4. TargetsSoFar'
  BY <1>1 DEF ConfigInv, TargetsSoFar, Fallback, LastTarget, OfTarget
<1> QED
  BY <1>2, <1>3, <1>4 DEF ConfigInv

(* An entry that is read is the last one for its name so far.              *)
LEMMA TargetStepKeeps == ConfigInv /\ TargetStep => ConfigInv'
<1> SUFFICES ASSUME ConfigInv, TargetStep PROVE ConfigInv'
  OBVIOUS
<1>0. PICK p, e : p = client.pos + 1 /\ e = setting.targets[p]
  OBVIOUS
<1>1. /\ p \in 1..Len(setting.targets) /\ e \in TargetEntry
      /\ client.pos \in Nat /\ UNCHANGED <<setting, server>>
      /\ client.st = "loading" /\ Len(setting.targets) \in Nat
  BY <1>0, Entries DEF TargetStep, ConfigInv, Typed
<1>2. SpokesSoFar'
  BY <1>1 DEF ConfigInv, SpokesSoFar, LastSpoke, OfSpoke
<1>3. CASE e.form = "blank"
  <2>1. client' = [client EXCEPT !.pos = p]
    BY <1>0, <1>3 DEF TargetStep
  <2>2. Typed'
    BY <1>1, <2>1 DEF ConfigInv, Typed
  <2>3. client'.pos = p /\ client'.st = "loading" /\ client'.targets = client.targets
    BY <1>1, <2>1 DEF ConfigInv, Typed
  <2>4. \A x \in Names : ~OfTarget(p, x)
    BY <1>0, <1>3 DEF OfTarget
  <2>5. TargetsSoFar'
    BY <1>0, <1>1, <2>3, <2>4 DEF ConfigInv, TargetsSoFar, Fallback, LastTarget, OfTarget
  <2> QED
    BY <1>2, <2>2, <2>5 DEF ConfigInv
<1>4. CASE e.form = "bad"
  <2>1. client' = [client EXCEPT !.st = "failed"]
    BY <1>0, <1>4 DEF TargetStep
  <2>2. Typed'
    BY <1>1, <2>1 DEF ConfigInv, Typed
  <2>3. client'.pos = client.pos /\ client'.st = "failed"
    BY <1>1, <2>1 DEF ConfigInv, Typed
  <2>4. TargetsSoFar'
    BY <1>1, <2>3 DEF ConfigInv, TargetsSoFar
  <2> QED
    BY <1>2, <2>2, <2>4 DEF ConfigInv
<1>5. CASE e.form = "full"
  <2>1. client' = [client EXCEPT !.pos = p, !.targets[e.name] = e.host]
    BY <1>0, <1>5 DEF TargetStep
  <2>2. e.name \in Names
    BY <1>1 DEF TargetEntry
  <2>3. /\ client'.pos = p /\ client'.st = "loading"
        /\ client'.targets = [client.targets EXCEPT ![e.name] = e.host]
    BY <1>1, <2>1 DEF ConfigInv, Typed
  <2>4. Typed'
    <3>1. /\ DOMAIN client'.targets = Names
          /\ client'.targets = [n \in Names |-> client'.targets[n]]
      BY <2>3 DEF ConfigInv, Typed
    <3>2. client' = [st |-> client'.st, pos |-> client'.pos,
                     targets |-> client'.targets]
      BY <2>1 DEF ConfigInv, Typed
    <3> QED
      BY <1>0, <1>1, <2>3, <3>1, <3>2 DEF ConfigInv, Typed
  <2>5. ASSUME NEW x \in Names, x # e.name
        PROVE client'.targets[x] = client.targets[x] /\ ~OfTarget(p, x)
    BY <1>0, <2>3, <2>5 DEF ConfigInv, Typed, OfTarget
  <2>6. client'.targets[e.name] = e.host /\ OfTarget(p, e.name)
    BY <1>0, <1>5, <2>2, <2>3 DEF ConfigInv, Typed, OfTarget
  <2>7. \A n, x : OfTarget(n, x)' <=> OfTarget(n, x)
    BY <1>1 DEF OfTarget
  <2>8. LastTarget(p, e.name)'
    BY <1>0, <1>1, <2>3, <2>6, <2>7 DEF LastTarget
  <2>9. ASSUME NEW x \in Names, x # e.name, NEW m, LastTarget(m, x)
        PROVE LastTarget(m, x)'
    BY <1>0, <1>1, <2>3, <2>5, <2>7, <2>9 DEF LastTarget
  <2>10. ASSUME NEW x \in Names
         PROVE (\/ /\ client.targets[x] = Fallback(x)
                  /\ \A n \in 1..client.pos : ~OfTarget(n, x)
               \/ \E m \in 1..client.pos :
                    LastTarget(m, x) /\ client.targets[x] = setting.targets[m].host)'
    <3>1. CASE x = e.name
      BY <1>0, <1>1, <2>3, <2>6, <2>8, <3>1
    <3>2. CASE x # e.name
      BY <1>0, <1>1, <2>3, <2>5, <2>7, <2>9, <3>2 DEF ConfigInv, TargetsSoFar, Fallback
    <3> QED
      BY <3>1, <3>2
  <2>11. TargetsSoFar'
    BY <1>0, <1>1, <2>3, <2>10 DEF TargetsSoFar
  <2> QED
    BY <1>2, <2>4, <2>11 DEF ConfigInv
<1> QED
  BY <1>1, <1>3, <1>4, <1>5 DEF TargetEntry

(* At the end of TARGETS, TARGET fills in for the default.                 *)
LEMMA TargetsLoadedKeeps == ConfigInv /\ TargetsLoaded => ConfigInv'
<1> SUFFICES ASSUME ConfigInv, TargetsLoaded PROVE ConfigInv'
  OBVIOUS
<1>1. /\ client.pos = Len(setting.targets) /\ UNCHANGED <<setting, server>>
      /\ client'.pos = client.pos /\ client'.targets = WithTarget(client.targets)
      /\ client.st = "loading" /\ client'.st \in {"ready", "failed"}
      /\ client'.st = "ready" => setting.id # Unset
      /\ Len(setting.targets) \in Nat
  BY Entries DEF TargetsLoaded, ConfigInv, Typed
<1>2. /\ DOMAIN client'.targets = Names
      /\ client'.targets = [n \in Names |-> client'.targets[n]]
  BY <1>1 DEF ConfigInv, Typed, WithTarget
<1>3. client' = [st |-> client'.st, pos |-> client'.pos, targets |-> client'.targets]
  BY DEF TargetsLoaded, ConfigInv, Typed
<1>4. Typed'
  BY <1>1, <1>2, <1>3 DEF ConfigInv, Typed
<1>5. SpokesSoFar'
  BY <1>1 DEF ConfigInv, SpokesSoFar, LastSpoke, OfSpoke
<1>6. TargetsSoFar'
  <2>1. ASSUME NEW x \in Names
        PROVE \/ /\ client'.targets[x] = Fallback(x)'
                 /\ \A n \in 1..client.pos : ~OfTarget(n, x)
              \/ \E m \in 1..client.pos :
                   LastTarget(m, x) /\ client'.targets[x] = setting.targets[m].host
    <3>1. PICK h : h = client.targets[x]
      OBVIOUS
    <3>2. CASE x = Default
      <4>1. ASSUME NEW m \in 1..client.pos, LastTarget(m, x)
            PROVE setting.targets[m].host # Unset
        BY <1>1, <4>1, Entries, ConfigAssumption DEF ConfigInv, TargetEntry
      <4> QED
        BY <1>1, <3>2, <4>1, ConfigAssumption
        DEF ConfigInv, Typed, TargetsSoFar, Fallback, WithTarget
    <3>3. CASE x # Default
      BY <1>1, <3>3 DEF ConfigInv, Typed, TargetsSoFar, Fallback, WithTarget
    <3> QED
      BY <3>2, <3>3
  <2>2. \A m, x : LastTarget(m, x)' <=> LastTarget(m, x)
    BY <1>1 DEF LastTarget, OfTarget
  <2>3. \A n, x : OfTarget(n, x)' <=> OfTarget(n, x)
    BY <1>1 DEF OfTarget
  <2> QED
    BY <1>1, <2>1, <2>2, <2>3 DEF ConfigInv, TargetsSoFar
<1> QED
  BY <1>4, <1>5, <1>6 DEF ConfigInv

(* The invariant is inductive.                                             *)
LEMMA ConfigInvKept == ConfigInv /\ [ConfigNext]_configVars => ConfigInv'
<1>1. ConfigInv /\ UNCHANGED configVars => ConfigInv'
  BY DEF configVars, ConfigInv, Typed, SpokesSoFar, TargetsSoFar, Fallback,
         LastSpoke, LastTarget, OfSpoke, OfTarget
<1> QED
  BY <1>1, SpokeStepKeeps, SpokesLoadedKeeps, TargetStepKeeps, TargetsLoadedKeeps
  DEF ConfigNext

(* The map of a ready server, against what was written.                    *)
LEMMA ReadySpokes ==
  ASSUME ConfigInv, server.st = "ready", NEW i \in SpokeIds
  PROVE  \/ server.spokes[i] = Unset /\ WrittenFor(i) = {}
         \/ \E m \in 1..Len(setting.spokes) :
              /\ WrittenFor(i) = {setting.spokes[m]}
              /\ ~BadSpoke(setting.spokes[m])
              /\ server.spokes[i] = SpokeConfig(setting.spokes[m])
              /\ server.spokes[i] # Unset
<1>1. /\ server.pos = Len(setting.spokes) /\ Len(setting.spokes) \in Nat
      /\ DOMAIN setting.spokes = 1..Len(setting.spokes)
  BY Entries DEF ConfigInv, SpokesSoFar
<1>2. WrittenFor(i) = {setting.spokes[n] : n \in {m \in 1..server.pos :
        OfSpoke(m, i) /\ \A k \in 1..server.pos : OfSpoke(k, i) => k <= m}}
  BY <1>1 DEF WrittenFor, LastNaming, OfSpoke
<1>3. CASE server.spokes[i] = Unset /\ \A n \in 1..server.pos : ~OfSpoke(n, i)
  BY <1>2, <1>3
<1>4. ASSUME NEW m \in 1..server.pos, LastSpoke(m, i),
             ~BadSpoke(setting.spokes[m]),
             server.spokes[i] = SpokeConfig(setting.spokes[m])
      PROVE /\ WrittenFor(i) = {setting.spokes[m]}
            /\ server.spokes[i] # Unset
  <2>1. \A n \in 1..server.pos :
          (OfSpoke(n, i) /\ \A k \in 1..server.pos : OfSpoke(k, i) => k <= n)
            <=> n = m
    BY <1>1, <1>4 DEF LastSpoke
  <2>2. WrittenFor(i) = {setting.spokes[m]}
    BY <1>2, <2>1
  <2> QED
    BY <1>1, <1>4, <2>2, UnsetAssumption, Entries DEF ConfigInv
<1> QED
  BY <1>1, <1>3, <1>4 DEF ConfigInv, SpokesSoFar

(* The map of a ready client, against what was written.                    *)
LEMMA ReadyTargets ==
  ASSUME ConfigInv, client.st = "ready", NEW x \in Names
  PROVE  client.targets[x] \in WrittenHost(x)
<1> DEFINE es == LastNaming(setting.targets, LAMBDA e : e.form = "full" /\ e.name = x)
<1>1. /\ client.pos = Len(setting.targets) /\ Len(setting.targets) \in Nat
      /\ DOMAIN setting.targets = 1..Len(setting.targets)
  BY Entries DEF ConfigInv, TargetsSoFar
<1>2. es = {setting.targets[n] : n \in {m \in 1..client.pos :
        OfTarget(m, x) /\ \A k \in 1..client.pos : OfTarget(k, x) => k <= m}}
  BY <1>1 DEF LastNaming, OfTarget
<1>3. CASE /\ client.targets[x] = Fallback(x)
           /\ \A n \in 1..client.pos : ~OfTarget(n, x)
  <2>1. es = {}
    BY <1>2, <1>3
  <2> QED
    BY <1>3, <2>1 DEF WrittenHost, Fallback
<1>4. ASSUME NEW m \in 1..client.pos, LastTarget(m, x),
             client.targets[x] = setting.targets[m].host
      PROVE client.targets[x] \in WrittenHost(x)
  <2>1. setting.targets[m] \in es
    BY <1>2, <1>4 DEF LastTarget
  <2> QED
    BY <1>4, <2>1 DEF WrittenHost
<1> QED
  BY <1>3, <1>4 DEF ConfigInv, TargetsSoFar

(* A client gets in exactly with the token of the last entry of its spoke, *)
(* however many entries TUNNEL_SPOKES has.                                 *)
THEOREM AcceptedCorrect == ConfigSpec => []AcceptedAsWritten
<1>1. ConfigInv => AcceptedAsWritten
  <2> SUFFICES ASSUME ConfigInv, Serving
               PROVE Accepted <=> \E e \in WrittenFor(setting.id) :
                                    e.token = setting.token
    BY DEF AcceptedAsWritten
  <2>1. setting.id \in SpokeIds
    BY DEF Serving, ConfigInv, Typed, TargetsSoFar
  <2>2. CASE server.spokes[setting.id] = Unset /\ WrittenFor(setting.id) = {}
    BY <2>2 DEF Accepted
  <2>3. ASSUME NEW m \in 1..Len(setting.spokes),
               WrittenFor(setting.id) = {setting.spokes[m]},
               server.spokes[setting.id] = SpokeConfig(setting.spokes[m]),
               server.spokes[setting.id] # Unset
        PROVE Accepted <=> \E e \in WrittenFor(setting.id) :
                             e.token = setting.token
    BY <2>3 DEF Accepted, SpokeConfig
  <2> QED
    BY <2>1, <2>2, <2>3, ReadySpokes DEF Serving
<1> QED
  BY <1>1, ConfigInitInv, ConfigInvKept, PTL DEF ConfigSpec

(* Every port of an accepted spoke leads where the two settings say, for   *)
(* any mixture of legacy and new settings.                                 *)
THEOREM RoutesCorrect == ConfigSpec => []RoutesAsWritten
<1>1. ConfigInv => RoutesAsWritten
  <2> SUFFICES ASSUME ConfigInv, Serving, Accepted,
                      NEW e \in WrittenFor(setting.id), NEW n \in DOMAIN e.ports
               PROVE
      /\ server.spokes[setting.id].ports[n].port = e.ports[n].port
      /\ Reaches(server.spokes[setting.id].ports[n]) \in
           WrittenHost(IF e.ports[n].target = Unset THEN Default
                       ELSE e.ports[n].target)
    BY DEF RoutesAsWritten
  <2>1. setting.id \in SpokeIds
    BY DEF Serving, ConfigInv, Typed, TargetsSoFar
  <2>2. PICK m \in 1..Len(setting.spokes) :
          /\ e = setting.spokes[m] /\ ~BadSpoke(e)
          /\ server.spokes[setting.id] = SpokeConfig(e)
    BY <2>1, ReadySpokes DEF Serving
  <2>3. e \in SpokeEntry
    BY <2>2, Entries DEF ConfigInv
  <2>4. e.ports[n] \in Binding
    BY <2>3 DEF SpokeEntry
  <2>5. e.ports[n].target # Blank
    BY <2>2 DEF BadSpoke
  <2>6. TargetOf(e.ports[n]) \in Names
    BY <2>4, <2>5, ConfigAssumption DEF TargetOf, Binding
  <2>7. server.spokes[setting.id].ports[n] =
          [port |-> e.ports[n].port, target |-> TargetOf(e.ports[n])]
    BY <2>2 DEF SpokeConfig
  <2>8. client.targets[TargetOf(e.ports[n])] \in WrittenHost(TargetOf(e.ports[n]))
    BY <2>6, ReadyTargets DEF Serving
  <2> QED
    BY <2>7, <2>8 DEF Reaches, TargetOf
<1> QED
  BY <1>1, ConfigInitInv, ConfigInvKept, PTL DEF ConfigSpec
=============================================================================
