----------------------------- MODULE GameProofs -----------------------------
(***************************************************************************)
(* For any number of enemies and shots, any health and any order of keys:  *)
(* the latest key still down steers, a tick takes at most one life, and no *)
(* enemy but one that appeared at a score of zero outlasts its health.     *)
(***************************************************************************)
EXTENDS Game, FiniteSetTheorems, TLAPS

Enemies == [kind : Kinds, health : MinInt .. MaxInt, atZero : BOOLEAN]
Shots == {"bullet", "boom"}

\* The keys of an axis: the history of presses names those that are down, and
\* the last of it is the one the flags call the last.
KeyInv(a) ==
  /\ held[a] \in {<<>>, <<-1>>, <<1>>, <<-1, 1>>, <<1, -1>>}
  /\ down[a] = {held[a][i] : i \in DOMAIN held[a]}
  /\ held[a] # <<>> => last[a] = held[a][Len(held[a])]

\* The game is over when, and only when, no life is left.
LivesInv == lives = 0 <=> state = "over"

GameInv ==
  /\ TypeOK /\ LivesInv /\ OnlyZeroScoreIsInvincible
  /\ \A a \in Axes : KeyInv(a)

(***************************************************************************)
(* Operators.                                                              *)
(***************************************************************************)

\* The bounds, as integers.
LEMMA Bounds ==
  /\ MaxInt \in Nat /\ MinInt \in Int
  /\ MaxHealth \in Nat /\ MaxShots \in Nat /\ MaxEnemies \in Nat
  /\ MaxScore \in Nat /\ PaintCap \in Nat /\ PaintCap >= 3
  /\ MaxInt = MaxHealth + MaxShots /\ MinInt = -MaxHealth - MaxShots - 1
  BY GameAssumption DEF MaxInt, MinInt

\* The smaller of two.
LEMMA MinOfTwo ==
  ASSUME NEW m \in Int, NEW n \in Int
  PROVE  Min({m, n}) = IF m <= n THEN m ELSE n
  <1>1. CASE m <= n
    BY <1>1 DEF Min
  <1>2. CASE ~(m <= n)
    BY <1>2 DEF Min
  <1> QED BY <1>1, <1>2

\* A set of places of a sequence of length n.
LEMMA PlacesFinite ==
  ASSUME NEW n \in Nat, NEW S, S \subseteq 1 .. n
  PROVE  IsFiniteSet(S) /\ Cardinality(S) \in 0 .. n
  <1>1. IsFiniteSet(1 .. n) /\ Cardinality(1 .. n) = n
    BY FS_Interval
  <1>2. IsFiniteSet(S) /\ Cardinality(S) <= n
    BY <1>1, FS_Subset
  <1> QED BY <1>2, FS_CardinalityType

\* In a set of n places, for each k some place has k - 1 of them below it.
LEMMA RankExists ==
  ASSUME NEW n \in Nat, NEW S, S \subseteq 1 .. n, NEW k \in 1 .. Cardinality(S)
  PROVE  \E i \in S : Cardinality({j \in S : j < i}) = k - 1
  <1> DEFINE below(i) == {j \in S : j < i}
             rank == [i \in S |-> Cardinality(below(i))]
             Ranks == 0 .. Cardinality(S) - 1
  <1>1. IsFiniteSet(S) /\ Cardinality(S) \in Nat
    <2>1. IsFiniteSet(S) /\ Cardinality(S) \in 0 .. n
      BY PlacesFinite
    <2> QED BY <2>1
  <1>2. ASSUME NEW i \in S
        PROVE  /\ IsFiniteSet(below(i)) /\ Cardinality(below(i)) \in Nat
               /\ Cardinality(below(i)) < Cardinality(S)
    <2>1. below(i) \in SUBSET S /\ i \notin below(i)
      OBVIOUS
    <2>2. /\ IsFiniteSet(below(i)) /\ Cardinality(below(i)) <= Cardinality(S)
          /\ Cardinality(S) = Cardinality(below(i)) => S = below(i)
      BY <1>1, <2>1, FS_Subset
    <2>3. Cardinality(below(i)) \in Nat
      BY <2>2, FS_CardinalityType
    <2> QED BY <1>1, <2>1, <2>2, <2>3
  <1>3. ASSUME NEW i \in S, NEW j \in S, i < j
        PROVE  Cardinality(below(i)) < Cardinality(below(j))
    <2>0. S \subseteq Int
      OBVIOUS
    <2>1. below(i) \in SUBSET below(j) /\ i \in below(j) /\ i \notin below(i)
      <3>1. \A m \in S : m < i => m < j
        BY <1>3, <2>0
      <3>2. ~(i < i)
        BY <2>0
      <3> QED BY <1>3, <3>1, <3>2, Zenon
    <2>2. /\ Cardinality(below(i)) <= Cardinality(below(j))
          /\ Cardinality(below(j)) = Cardinality(below(i)) => below(j) = below(i)
      BY <1>2, <2>1, FS_Subset
    <2> QED BY <1>2, <2>1, <2>2
  <1> HIDE DEF below
  <1>4. rank \in [S -> Ranks]
    BY <1>1, <1>2
  <1>5. ASSUME NEW i \in S, NEW j \in S, rank[i] = rank[j]
        PROVE  i = j
    <2>1. i \in Nat /\ j \in Nat
      OBVIOUS
    <2>2. ~(i < j) /\ ~(j < i)
      BY <1>2, <1>3, <1>5
    <2> QED BY <2>1, <2>2
  <1>6. rank \in Injection(S, Ranks)
    BY <1>4, <1>5 DEF Injection, IsInjective
  <1>7. IsFiniteSet(Ranks) /\ Cardinality(Ranks) = Cardinality(S)
    <2> DEFINE c == Cardinality(S)
    <2>1. c \in Nat
      BY <1>1
    <2> HIDE DEF c
    <2>2. /\ IsFiniteSet(0 .. c - 1)
          /\ Cardinality(0 .. c - 1) = IF 0 > c - 1 THEN 0 ELSE (c - 1) - 0 + 1
      <3>1. 0 \in Int /\ c - 1 \in Int
        BY <2>1
      <3> QED BY <3>1, FS_Interval
    <2>3. Cardinality(0 .. c - 1) = c
      BY <2>1, <2>2
    <2> QED BY <2>2, <2>3 DEF c
  <1>8. rank \in Surjection(S, Ranks)
    BY <1>6, <1>7, FS_Injection
  <1>9. k - 1 \in Ranks
    BY <1>1
  <1>10. \E i \in S : rank[i] = k - 1
    BY <1>8, <1>9 DEF Surjection
  <1> QED BY <1>10 DEF below

\* At(s, S) is a sequence of elements of s, one for each place.
LEMMA AtIs ==
  ASSUME NEW T, NEW s \in Seq(T), NEW S, S \subseteq DOMAIN s
  PROVE  /\ At(s, S) \in Seq(T) /\ Len(At(s, S)) <= Len(s)
         /\ \A k \in DOMAIN At(s, S) : \E i \in S : At(s, S)[k] = s[i]
  <1>1. Len(s) \in Nat /\ DOMAIN s = 1 .. Len(s) /\ \A i \in 1 .. Len(s) : s[i] \in T
    OBVIOUS
  <1>2. Cardinality(S) \in 0 .. Len(s)
    BY <1>1, PlacesFinite
  <1> DEFINE place(k) == CHOOSE i \in S : Cardinality({j \in S : j < i}) = k - 1
  <1>3. \A k \in 1 .. Cardinality(S) : place(k) \in S
    BY <1>1, RankExists
  <1>4. At(s, S) = [k \in 1 .. Cardinality(S) |-> s[place(k)]]
    BY DEF At
  <1> HIDE DEF place
  <1>5. \A k \in 1 .. Cardinality(S) : s[place(k)] \in T
    BY <1>1, <1>3
  <1>6. At(s, S) \in Seq(T) /\ Len(At(s, S)) = Cardinality(S)
    BY <1>2, <1>4, <1>5
  <1> QED BY <1>2, <1>3, <1>4, <1>6, <1>1

\* A tick does not wrap a health twice.
LEMMA AsIntIs ==
  ASSUME NEW h \in MinInt .. MaxInt, NEW c \in 0 .. MaxShots
  PROVE  /\ AsInt(h - c) \in MinInt .. MaxInt
         /\ h >= 0 => AsInt(h - c) = h - c
         /\ AsInt(-1 - c) \in MinInt .. MaxInt /\ AsInt(-1 - c) < 0
         /\ h = MinInt => AsInt(h - c) = IF c = 0 THEN MinInt ELSE MaxInt + 1 - c
  BY Bounds DEF AsInt

\* An enemy as it is between ticks, and as nextOne makes it.
Tough(e) ==
  \/ e.health \in 0 .. MaxHealth
  \/ e.health > MaxHealth /\ e.atZero /\ e.kind \in {"red", "blue"}
Fresh(e) == Tough(e) \/ (e.health = MinInt /\ e.atZero /\ e.kind \in {"red", "blue"})

\* What the shots leave of an enemy: its kind, and less health, or what the
\* last boom left of it.
LEMMA HitIs ==
  ASSUME NEW objs \in Seq(Enemies), NEW shots \in Seq(Shots), Len(shots) <= MaxShots,
         NEW aim
  PROVE  /\ HitAction(objs, shots, aim) \in Seq(Enemies)
         /\ Len(HitAction(objs, shots, aim)) = Len(objs)
         /\ \A i \in DOMAIN objs :
              Fresh(objs[i]) /\ HitAction(objs, shots, aim)[i].health >= 0
                => Tough(HitAction(objs, shots, aim)[i])
  <1> DEFINE hits(i, b) == {k \in DOMAIN shots : shots[k] = b /\ CheckHit(objs, b, aim[k], i)}
             rest(i) == {k \in hits(i, "bullet") : \A n \in hits(i, "boom") : n < k}
             from(i) == IF hits(i, "boom") = {} THEN objs[i].health ELSE -1
             o == [i \in DOMAIN objs |->
                     [objs[i] EXCEPT !.health = AsInt(from(i) - Cardinality(rest(i)))]]
  <1>1. HitAction(objs, shots, aim) = o
    BY DEF HitAction
  <1>2. \A i : Cardinality(rest(i)) \in 0 .. MaxShots
    <2> SUFFICES ASSUME NEW i PROVE Cardinality(rest(i)) \in 0 .. MaxShots
      OBVIOUS
    <2>1. Len(shots) \in Nat /\ rest(i) \subseteq 1 .. Len(shots)
      OBVIOUS
    <2> HIDE DEF rest
    <2>2. Cardinality(rest(i)) \in 0 .. Len(shots)
      BY <2>1, PlacesFinite
    <2> QED BY <2>1, <2>2, Bounds
  <1>3. \A i : from(i) = objs[i].health \/ from(i) = -1
    OBVIOUS
  <1> HIDE DEF hits, rest, from
  <1>4. Len(objs) \in Nat /\ DOMAIN objs = 1 .. Len(objs)
    OBVIOUS
  <1>5. ASSUME NEW i \in DOMAIN objs
        PROVE  /\ o[i] \in Enemies
               /\ Fresh(objs[i]) /\ o[i].health >= 0 => Tough(o[i])
    <2>1. objs[i] \in Enemies
      OBVIOUS
    <2>2. PICK c \in 0 .. MaxShots : c = Cardinality(rest(i))
      BY <1>2
    <2>3. PICK f : f = from(i) /\ (f = objs[i].health \/ f = -1)
      BY <1>3
    <2> DEFINE h == objs[i].health
    <2>4. /\ o[i] = [objs[i] EXCEPT !.health = AsInt(f - c)]
          /\ h \in MinInt .. MaxInt
      BY <2>1, <2>2, <2>3 DEF Enemies
    <2>5. /\ o[i].health = AsInt(f - c)
          /\ o[i].kind = objs[i].kind /\ o[i].atZero = objs[i].atZero
      BY <2>1, <2>4 DEF Enemies
    <2>6. AsInt(f - c) \in MinInt .. MaxInt
      BY <2>3, <2>4, AsIntIs
    <2>7. o[i] \in Enemies
      BY <2>1, <2>4, <2>6 DEF Enemies
    <2>8. ASSUME Fresh(objs[i]), o[i].health >= 0
          PROVE  Tough(o[i])
      <3>1. f = h
        <4>1. AsInt(-1 - c) < 0 /\ AsInt(-1 - c) \in Int
          BY <2>4, AsIntIs, Bounds
        <4>2. f # -1
          BY <2>5, <2>8, <4>1
        <4> QED BY <2>3, <4>2
      <3>2. CASE h \in 0 .. MaxHealth
        <4>1. AsInt(f - c) = h - c
          BY <2>4, <3>1, <3>2, AsIntIs, Bounds
        <4>2. o[i].health \in 0 .. MaxHealth
          BY <2>5, <2>8, <3>2, <4>1, Bounds
        <4> QED BY <4>2 DEF Tough
      <3>3. CASE h > MaxHealth \/ h = MinInt
        <4>1. objs[i].atZero /\ objs[i].kind \in {"red", "blue"}
          BY <2>8, <3>3, Bounds DEF Fresh, Tough
        <4>2. o[i].health \in 0 .. MaxHealth \/ o[i].health > MaxHealth
          BY <2>5, <2>6, <2>8, Bounds
        <4> QED BY <2>5, <4>1, <4>2 DEF Tough
      <3> QED BY <2>8, <3>2, <3>3 DEF Fresh, Tough
    <2> QED BY <2>7, <2>8
  <1> HIDE DEF o
  <1>6. o \in Seq(Enemies) /\ Len(o) = Len(objs)
    <2>1. o = [i \in 1 .. Len(objs) |-> o[i]]
      BY <1>4 DEF o
    <2> QED BY <1>4, <1>5, <2>1
  <1> QED BY <1>1, <1>5, <1>6

(***************************************************************************)
(* A tick.                                                                 *)
(***************************************************************************)

\* A new enemy is as nextOne makes it, and there is room for it.
LEMMA SpawnIs ==
  ASSUME TypeOK, OnlyZeroScoreIsInvincible, NEW objs \in SpawnAction
  PROVE  /\ objs \in Seq(Enemies) /\ Len(objs) <= MaxEnemies
         /\ \A i \in DOMAIN objs : Fresh(objs[i])
  <1>1. objects \in Seq(Enemies) /\ Len(objects) \in Nat /\ Len(objects) <= MaxEnemies
    BY DEF TypeOK, Enemies
  <1>2. \A i \in 1 .. Len(objects) : Fresh(objects[i])
    BY <1>1 DEF OnlyZeroScoreIsInvincible, Fresh, Tough
  <1>3. CASE objs = objects
    BY <1>1, <1>2, <1>3
  <1>4. ASSUME NEW e \in NextOne, Len(objects) < MaxEnemies, objs = Append(objects, e)
        PROVE  /\ objs \in Seq(Enemies) /\ Len(objs) <= MaxEnemies
               /\ \A i \in DOMAIN objs : Fresh(objs[i])
    <2>0. /\ e.kind \in Kinds /\ e.atZero \in BOOLEAN
          /\ e = [kind |-> e.kind, health |-> e.health, atZero |-> e.atZero]
          /\ \/ e.health \in 0 .. MaxHealth
             \/ e.health = MinInt /\ e.atZero /\ e.kind \in {"red", "blue"}
      BY DEF NextOne, Made
    <2>a. e.health \in MinInt .. MaxInt
      BY <2>0, Bounds
    <2>1. e \in Enemies
      BY <2>0, <2>a DEF Enemies
    <2>2. Fresh(e)
      BY <2>0 DEF Fresh, Tough
    <2>3. /\ objs \in Seq(Enemies) /\ Len(objs) = Len(objects) + 1
          /\ \A i \in 1 .. Len(objs) :
               objs[i] = IF i = Len(objects) + 1 THEN e ELSE objects[i]
      BY <1>1, <1>4, <2>1
    <2>4. \A i \in 1 .. Len(objs) : i # Len(objects) + 1 => i \in 1 .. Len(objects)
      BY <1>1, <2>3
    <2>5. \A i \in 1 .. Len(objs) : Fresh(objs[i])
      BY <1>2, <2>2, <2>3, <2>4
    <2>6. Len(objs) <= MaxEnemies
      BY <1>1, <1>4, <2>3, Bounds
    <2> QED BY <2>3, <2>5, <2>6
  <1> QED BY <1>3, <1>4 DEF SpawnAction

\* A volley fits.
LEMMA ShootIs ==
  ASSUME TypeOK, NEW shots \in ShootAction
  PROVE  shots \in Seq(Shots) /\ Len(shots) <= MaxShots
  <1>1. bullets \in Seq(Shots) /\ Len(bullets) \in Nat /\ Len(bullets) <= MaxShots
    BY DEF TypeOK, Shots
  <1>2. ASSUME NEW n \in 1 .. Min({4, MaxShots - Len(bullets)}),
               shots = bullets \o [i \in 1 .. n |-> "bullet"]
        PROVE  shots \in Seq(Shots) /\ Len(shots) <= MaxShots
    <2>1. MaxShots - Len(bullets) \in Int /\ 4 \in Int
      BY <1>1, Bounds
    <2>2. n \in Nat /\ n <= MaxShots - Len(bullets)
      BY <2>1, MinOfTwo
    <2> DEFINE v == [i \in 1 .. n |-> "bullet"]
    <2>3. v \in Seq(Shots) /\ Len(v) = n
      BY <2>2 DEF Shots
    <2> HIDE DEF v
    <2>4. bullets \o v \in Seq(Shots) /\ Len(bullets \o v) = Len(bullets) + n
      BY <1>1, <2>3
    <2>5. Len(bullets) + n <= MaxShots
      BY <1>1, <2>2, Bounds
    <2> QED BY <1>2, <2>4, <2>5 DEF v
  <1> QED BY <1>1, <1>2 DEF ShootAction

\* Only the first of the touches is not removed by another.
LEMMA DeathsIs ==
  ASSUME NEW T, NEW s \in Seq(T), NEW touched
  PROVE  Deaths(touched \cap DOMAIN s) \in {0, 1}
  <1> DEFINE touching == touched \cap DOMAIN s
             first == {i \in touching : ~\E j \in touching : j < i}
  <1>1. touching \subseteq Int
    OBVIOUS
  <1> HIDE DEF touching
  <1>2. \A i, j \in first : i = j
    <2> SUFFICES ASSUME NEW i \in first, NEW j \in first PROVE i = j
      OBVIOUS
    <2>1. i \in Int /\ j \in Int /\ ~(i < j) /\ ~(j < i)
      BY <1>1
    <2> QED BY <2>1
  <1> HIDE DEF first
  <1>3. CASE first = {}
    BY <1>3, FS_EmptySet DEF Deaths, first, touching
  <1>4. ASSUME NEW i \in first
        PROVE  Cardinality(first) = 1
    <2>1. first = {i}
      BY <1>2
    <2> QED BY <2>1, FS_Singleton
  <1>5. Cardinality(first) \in {0, 1}
    BY <1>3, <1>4, FS_EmptySet
  <1> QED BY <1>5 DEF Deaths, first, touching

\* What goes off and what stays after the hits: counts stay in their bounds,
\* at most one life is lost, and with it every enemy.
LEMMA SettleIs ==
  ASSUME TypeOK, LivesInv, state = "play", lives <= PaintCap, spell <= PaintCap,
         NEW objs \in Seq(Enemies), Len(objs) <= MaxEnemies,
         \A i \in DOMAIN objs : objs[i].health >= 0 => Tough(objs[i]),
         NEW gone, NEW touched, Settle(objs, gone, touched)
  PROVE  /\ score' \in 0 .. MaxScore
         /\ lives' \in 0 .. PaintCap + MaxEnemies /\ spell' \in 0 .. PaintCap + MaxEnemies
         /\ objects' \in Seq(Enemies) /\ Len(objects') <= MaxEnemies
         /\ \A i \in DOMAIN objects' : Tough(objects'[i])
         /\ state' \in {"play", "over"} /\ (lives' = 0 <=> state' = "over")
         /\ lives' < lives => lives' = lives - 1 /\ objects' = <<>>
  <1> DEFINE dead   == {i \in DOMAIN objs \ gone : Dead(objs[i])}
             stay   == At(objs, DOMAIN objs \ (gone \cup dead))
             kills(kind) == Cardinality({i \in dead : objs[i].kind = kind})
             deaths == Deaths(touched \cap DOMAIN stay)
             worth  == 5 * kills("red") + 15 * kills("blue") + 10 * (kills("black") + kills("white"))
  <1>1. /\ score' = Min({MaxScore, score + worth})
        /\ lives' = lives + kills("white") - deaths
        /\ spell' = IF deaths > 0 THEN 3 ELSE spell + kills("black")
        /\ objects' = IF deaths > 0 THEN <<>> ELSE stay
        /\ state' = IF lives' <= 0 THEN "over" ELSE state
    BY DEF Settle
  <1>2. \A kind : kills(kind) \in Nat /\ kills(kind) <= MaxEnemies
    <2> SUFFICES ASSUME NEW kind PROVE kills(kind) \in Nat /\ kills(kind) <= MaxEnemies
      OBVIOUS
    <2> DEFINE K == {i \in dead : objs[i].kind = kind}
    <2>1. Len(objs) \in Nat /\ K \subseteq 1 .. Len(objs)
      OBVIOUS
    <2> HIDE DEF K
    <2>2. Cardinality(K) \in 0 .. Len(objs)
      BY <2>1, PlacesFinite
    <2>3. Cardinality(K) \in Nat /\ Cardinality(K) <= MaxEnemies
      BY <2>1, <2>2, Bounds
    <2> QED BY <2>3 DEF K
  <1>3. /\ stay \in Seq(Enemies) /\ Len(stay) <= MaxEnemies
        /\ \A k \in DOMAIN stay : Tough(stay[k])
    <2> DEFINE S == DOMAIN objs \ (gone \cup dead)
    <2>1. /\ At(objs, S) \in Seq(Enemies) /\ Len(At(objs, S)) <= Len(objs)
          /\ \A k \in DOMAIN At(objs, S) : \E i \in S : At(objs, S)[k] = objs[i]
      <3>1. S \subseteq DOMAIN objs
        OBVIOUS
      <3> HIDE DEF S
      <3> QED BY <3>1, AtIs
    <2>2. \A i \in S : i \in DOMAIN objs /\ ~Dead(objs[i])
      OBVIOUS
    <2>3. \A i \in DOMAIN objs : objs[i].health \in Int
      <3>1. \A i \in DOMAIN objs : objs[i] \in Enemies
        OBVIOUS
      <3>2. \A e \in Enemies : e.health \in Int
        BY Bounds DEF Enemies
      <3> QED BY <3>1, <3>2
    <2>4. \A i \in S : Tough(objs[i])
      BY <2>2, <2>3 DEF Dead
    <2> HIDE DEF S
    <2>5. \A k \in DOMAIN At(objs, S) : Tough(At(objs, S)[k])
      BY <2>1, <2>4
    <2>6. Len(At(objs, S)) \in Nat /\ Len(objs) \in Nat
      BY <2>1
    <2>7. Len(At(objs, S)) <= MaxEnemies
      BY <2>1, <2>6, Bounds
    <2> QED BY <2>1, <2>5, <2>7 DEF S
  <1> HIDE DEF stay
  <1>4. deaths \in {0, 1}
    BY <1>3, DeathsIs
  <1> HIDE DEF dead, kills, deaths
  <1>5. score \in 0 .. MaxScore /\ lives \in Nat /\ spell \in Nat /\ lives # 0
    BY DEF TypeOK, LivesInv
  <1>6. score' \in 0 .. MaxScore
    <2>1. worth \in Nat
      BY <1>2
    <2> HIDE DEF worth
    <2>2. score + worth \in Nat /\ MaxScore \in Nat
      BY <1>5, <2>1, Bounds
    <2>3. score' = IF MaxScore <= score + worth THEN MaxScore ELSE score + worth
      BY <1>1, <2>2, MinOfTwo
    <2> QED BY <2>2, <2>3
  <1>7. lives' \in 0 .. PaintCap + MaxEnemies /\ spell' \in 0 .. PaintCap + MaxEnemies
    BY <1>1, <1>2, <1>4, <1>5, Bounds
  <1>8. /\ objects' \in Seq(Enemies) /\ Len(objects') <= MaxEnemies
        /\ \A i \in DOMAIN objects' : Tough(objects'[i])
    <2>1. CASE deaths > 0
      <3>1. objects' = <<>>
        BY <1>1, <2>1
      <3> QED BY <3>1, Bounds
    <2>2. CASE ~(deaths > 0)
      BY <1>1, <1>3, <2>2
    <2> QED BY <2>1, <2>2
  <1>9. state' \in {"play", "over"} /\ (lives' = 0 <=> state' = "over")
    BY <1>1, <1>7, Bounds
  <1>10. lives' < lives => lives' = lives - 1 /\ objects' = <<>>
    BY <1>1, <1>2, <1>4, <1>5
  <1> QED BY <1>6, <1>7, <1>8, <1>9, <1>10

LEMMA TickStep ==
  ASSUME TypeOK, LivesInv, OnlyZeroScoreIsInvincible, Tick
  PROVE  /\ TypeOK' /\ LivesInv' /\ OnlyZeroScoreIsInvincible'
         /\ lives' < lives => lives' = lives - 1 /\ objects' = <<>>
  <1>1. PICK objs \in SpawnAction, shots \in ShootAction :
          \E aim \in [DOMAIN shots -> SUBSET DOMAIN objs],
             gone, touched \in SUBSET DOMAIN objs, left \in SUBSET DOMAIN shots :
            /\ Settle(HitAction(objs, shots, aim), gone, touched)
            /\ bullets' = At(shots, {i \in DOMAIN shots \ left :
                                       shots[i] = "boom" \/ aim[i] = {}})
    BY DEF Tick
  <1>2. PICK aim, gone, touched, left :
            /\ Settle(HitAction(objs, shots, aim), gone, touched)
            /\ bullets' = At(shots, {i \in DOMAIN shots \ left :
                                       shots[i] = "boom" \/ aim[i] = {}})
    BY <1>1
  <1>3. /\ objs \in Seq(Enemies) /\ Len(objs) <= MaxEnemies
        /\ \A i \in DOMAIN objs : Fresh(objs[i])
    BY SpawnIs
  <1>4. shots \in Seq(Shots) /\ Len(shots) <= MaxShots
    BY ShootIs
  <1>5. PICK o : o = HitAction(objs, shots, aim)
    OBVIOUS
  <1>6. /\ o \in Seq(Enemies) /\ Len(o) = Len(objs)
        /\ \A i \in DOMAIN objs : Fresh(objs[i]) /\ o[i].health >= 0 => Tough(o[i])
    BY <1>3, <1>4, <1>5, HitIs
  <1>7. DOMAIN o = DOMAIN objs /\ Len(o) <= MaxEnemies
    BY <1>3, <1>6
  <1>8. \A i \in DOMAIN o : o[i].health >= 0 => Tough(o[i])
    BY <1>3, <1>6, <1>7
  <1>9. state = "play" /\ lives <= PaintCap /\ spell <= PaintCap
    BY DEF Tick
  <1>10. /\ score' \in 0 .. MaxScore
         /\ lives' \in 0 .. PaintCap + MaxEnemies /\ spell' \in 0 .. PaintCap + MaxEnemies
         /\ objects' \in Seq(Enemies) /\ Len(objects') <= MaxEnemies
         /\ \A i \in DOMAIN objects' : Tough(objects'[i])
         /\ state' \in {"play", "over"} /\ (lives' = 0 <=> state' = "over")
         /\ lives' < lives => lives' = lives - 1 /\ objects' = <<>>
    <2>1. Settle(o, gone, touched)
      BY <1>2, <1>5
    <2> QED BY <1>6, <1>7, <1>8, <1>9, <2>1, SettleIs
  <1>11. bullets' \in Seq(Shots) /\ Len(bullets') <= MaxShots
    <2> DEFINE S == {i \in DOMAIN shots \ left : shots[i] = "boom" \/ aim[i] = {}}
    <2>1. S \subseteq DOMAIN shots /\ bullets' = At(shots, S)
      BY <1>2
    <2> HIDE DEF S
    <2>2. bullets' \in Seq(Shots) /\ Len(bullets') <= Len(shots)
      BY <1>4, <2>1, AtIs
    <2>3. Len(bullets') \in Nat /\ Len(shots) \in Nat
      BY <1>4, <2>2
    <2> QED BY <1>4, <2>2, <2>3, Bounds
  <1>12. TypeOK'
    <2>1. UNCHANGED <<isShoot, down, last, held>>
      BY DEF Tick
    <2> QED BY <1>10, <1>11, <2>1 DEF TypeOK, Enemies, Shots
  <1> QED BY <1>10, <1>12 DEF LivesInv, OnlyZeroScoreIsInvincible, Tough

(***************************************************************************)
(* Keys.                                                                   *)
(***************************************************************************)

\* The flags say which key is the latest one.
LEMMA KeysSteer == (\A a \in Axes : KeyInv(a)) => LatestKeyWins
  <1> SUFFICES ASSUME NEW a \in Axes, KeyInv(a)
               PROVE  Directions(a) = IF held[a] = <<>> THEN {0} ELSE {Last(held[a])}
    BY DEF LatestKeyWins
  <1>1. CASE held[a] = <<>>
    BY <1>1 DEF KeyInv, Directions
  <1>2. ASSUME NEW d \in {-1, 1}, held[a] = <<d>>
        PROVE  Directions(a) = {Last(held[a])}
    <2>1. down[a] = {d} /\ last[a] = d
      BY <1>2 DEF KeyInv
    <2> QED BY <1>2, <2>1 DEF Directions, Last
  <1>3. ASSUME NEW d \in {-1, 1}, held[a] = <<-d, d>>
        PROVE  Directions(a) = {Last(held[a])}
    <2>1. DOMAIN <<-d, d>> = {1, 2}
      OBVIOUS
    <2>2. down[a] = {-d, d} /\ last[a] = d
      BY <1>3, <2>1 DEF KeyInv
    <2> QED BY <1>3, <2>2 DEF Directions, Last
  <1>4. \/ held[a] = <<>>
        \/ \E d \in {-1, 1} : held[a] = <<d>> \/ held[a] = <<-d, d>>
    BY DEF KeyInv
  <1>5. (\E d \in {-1, 1} : held[a] = <<d>> \/ held[a] = <<-d, d>>) => held[a] # <<>>
    OBVIOUS
  <1> QED BY <1>1, <1>2, <1>3, <1>4, <1>5

\* Short sequences.
LEMMA Short ==
  ASSUME NEW T, NEW x \in T, NEW y \in T
  PROVE  /\ <<>> \in Seq(T) /\ <<x>> \in Seq(T) /\ <<y, x>> \in Seq(T)
         /\ Len(<<>>) = 0 /\ Len(<<x>>) = 1 /\ Len(<<y, x>>) = 2
         /\ Append(<<>>, x) = <<x>> /\ Append(<<y>>, x) = <<y, x>>
  <1>1. /\ <<>> \in Seq(T) /\ <<x>> \in Seq(T) /\ <<y>> \in Seq(T) /\ <<y, x>> \in Seq(T)
        /\ Len(<<>>) = 0 /\ Len(<<x>>) = 1 /\ Len(<<y>>) = 1 /\ Len(<<y, x>>) = 2
    OBVIOUS
  <1>2. Append(<<>>, x) = <<x>>
    <2>1. /\ Append(<<>>, x) \in Seq(T) /\ Len(Append(<<>>, x)) = 1
          /\ Append(<<>>, x)[1] = x /\ <<x>>[1] = x
      BY <1>1
    <2> QED BY <1>1, <2>1
  <1>3. Append(<<y>>, x) = <<y, x>>
    <2>1. /\ Append(<<y>>, x) \in Seq(T) /\ Len(Append(<<y>>, x)) = 2
          /\ Append(<<y>>, x)[1] = y /\ <<y, x>>[1] = y
          /\ Append(<<y>>, x)[2] = x /\ <<y, x>>[2] = x
      BY <1>1
    <2>2. \A s, t \in Seq(T) :
            Len(s) = 2 /\ Len(t) = 2 /\ s[1] = t[1] /\ s[2] = t[2] => s = t
      <3> SUFFICES ASSUME NEW s \in Seq(T), NEW t \in Seq(T),
                          Len(s) = 2, Len(t) = 2, s[1] = t[1], s[2] = t[2]
                   PROVE  s = t
        OBVIOUS
      <3>1. \A i \in 1 .. 2 : i = 1 \/ i = 2
        OBVIOUS
      <3> QED BY <3>1
    <2>3. Append(<<y>>, x)[1] = <<y, x>>[1] /\ Append(<<y>>, x)[2] = <<y, x>>[2]
      BY <2>1
    <2> QED BY <1>1, <2>1, <2>2, <2>3, Zenon
  <1> QED BY <1>1, <1>2, <1>3

\* The keys of an axis but d.
LEMMA WithoutIs ==
  ASSUME NEW a \in Axes, KeyInv(a), NEW d \in {-1, 1}
  PROVE  Without(held[a], d) = IF -d \in down[a] THEN <<-d>> ELSE <<>>
  BY DEF Without, Range, KeyInv

\* An axis on which nothing, or one key, or after the other one it is held.
LEMMA KeyForms ==
  ASSUME NEW a \in Axes, NEW d \in {-1, 1}, last[a] = d,
         \/ held[a] = <<d>> /\ down[a] = {d}
         \/ held[a] = <<-d, d>> /\ down[a] = {-d, d}
  PROVE  KeyInv(a)
  <1>1. CASE held[a] = <<d>> /\ down[a] = {d}
    BY <1>1 DEF KeyInv
  <1>2. CASE held[a] = <<-d, d>> /\ down[a] = {-d, d}
    <2>1. DOMAIN <<-d, d>> = {1, 2}
      OBVIOUS
    <2> QED BY <1>2, <2>1 DEF KeyInv
  <1> QED BY <1>1, <1>2

\* The lines of TypeOK about the keys.
KeyTypes ==
  /\ down \in [Axes -> SUBSET {-1, 1}] /\ last \in [Axes -> {-1, 1}]
  /\ held \in [Axes -> Seq({-1, 1})] /\ \A a \in Axes : Len(held[a]) <= 2

LEMMA PressStep ==
  ASSUME GameInv, NEW a \in Axes, NEW d \in {-1, 1}, PressMove(a, d)
  PROVE  KeyTypes' /\ \A b \in Axes : KeyInv(b)'
  <1> DEFINE s == IF -d \in down[a] THEN <<-d, d>> ELSE <<d>>
  <1>1. KeyTypes /\ \A b \in Axes : KeyInv(b)
    BY DEF GameInv, TypeOK, KeyTypes
  <1>2. Append(Without(held[a], d), d) = s
    <2>1. Without(held[a], d) = IF -d \in down[a] THEN <<-d>> ELSE <<>>
      BY <1>1, WithoutIs
    <2>2. Append(<<>>, d) = <<d>> /\ Append(<<-d>>, d) = <<-d, d>>
      <3>1. d \in {-1, 1} /\ -d \in {-1, 1}
        OBVIOUS
      <3> QED BY <3>1, Short
    <2> QED BY <2>1, <2>2
  <1>3. /\ held' = [held EXCEPT ![a] = s]
        /\ down' = [down EXCEPT ![a] = down[a] \cup {d}]
        /\ last' = [last EXCEPT ![a] = d]
    BY <1>2 DEF PressMove
  <1>4. s \in Seq({-1, 1}) /\ Len(s) <= 2
    <2>1. d \in {-1, 1} /\ -d \in {-1, 1}
      OBVIOUS
    <2>2. \/ s = <<>> \/ s = <<d>> \/ s = <<-d>> \/ s = <<-d, d>>
      OBVIOUS
    <2> HIDE DEF s
    <2>3. /\ <<>> \in Seq({-1, 1}) /\ <<d>> \in Seq({-1, 1})
          /\ <<-d>> \in Seq({-1, 1}) /\ <<-d, d>> \in Seq({-1, 1})
          /\ Len(<<>>) = 0 /\ Len(<<d>>) = 1 /\ Len(<<-d>>) = 1 /\ Len(<<-d, d>>) = 2
      BY <2>1, Short
    <2>4. 0 <= 2 /\ 1 <= 2 /\ 2 <= 2
      OBVIOUS
    <2> QED BY <2>2, <2>3, <2>4, Zenon
  <1> HIDE DEF s
  <1>5. KeyTypes'
    BY <1>1, <1>3, <1>4 DEF KeyTypes
  <1>6. held'[a] = s /\ down'[a] = down[a] \cup {d} /\ last'[a] = d
    BY <1>1, <1>3 DEF KeyTypes
  <1>7. \/ held'[a] = <<d>> /\ down'[a] = {d}
        \/ held'[a] = <<-d, d>> /\ down'[a] = {-d, d}
    <2>1. down[a] \subseteq {-d, d}
      BY <1>1 DEF KeyTypes
    <2> QED BY <1>6, <2>1 DEF s
  <1>8. KeyInv(a)'
    BY <1>6, <1>7, KeyForms DEF KeyInv
  <1>9. \A b \in Axes \ {a} : KeyInv(b)'
    BY <1>1, <1>3 DEF KeyTypes, KeyInv
  <1> QED BY <1>5, <1>8, <1>9

LEMMA ReleaseStep ==
  ASSUME GameInv, NEW a \in Axes, NEW d \in {-1, 1}, ReleaseMove(a, d)
  PROVE  KeyTypes' /\ \A b \in Axes : KeyInv(b)'
  <1> DEFINE s == IF -d \in down[a] THEN <<-d>> ELSE <<>>
  <1>1. KeyTypes /\ \A b \in Axes : KeyInv(b)
    BY DEF GameInv, TypeOK, KeyTypes
  <1>2. Without(held[a], d) = s
    BY <1>1, WithoutIs
  <1>3. /\ held' = [held EXCEPT ![a] = s]
        /\ down' = [down EXCEPT ![a] = down[a] \ {d}]
        /\ last' = [last EXCEPT ![a] = -d]
    BY <1>2 DEF ReleaseMove, Handed
  <1>4. s \in Seq({-1, 1}) /\ Len(s) <= 2
    <2>1. d \in {-1, 1} /\ -d \in {-1, 1}
      OBVIOUS
    <2>2. \/ s = <<>> \/ s = <<d>> \/ s = <<-d>> \/ s = <<-d, d>>
      OBVIOUS
    <2> HIDE DEF s
    <2>3. /\ <<>> \in Seq({-1, 1}) /\ <<d>> \in Seq({-1, 1})
          /\ <<-d>> \in Seq({-1, 1}) /\ <<-d, d>> \in Seq({-1, 1})
          /\ Len(<<>>) = 0 /\ Len(<<d>>) = 1 /\ Len(<<-d>>) = 1 /\ Len(<<-d, d>>) = 2
      BY <2>1, Short
    <2>4. 0 <= 2 /\ 1 <= 2 /\ 2 <= 2
      OBVIOUS
    <2> QED BY <2>2, <2>3, <2>4, Zenon
  <1> HIDE DEF s
  <1>5. KeyTypes'
    BY <1>1, <1>3, <1>4 DEF KeyTypes
  <1>6. held'[a] = s /\ down'[a] = down[a] \ {d} /\ last'[a] = -d
    BY <1>1, <1>3 DEF KeyTypes
  <1>7. \/ held'[a] = <<-d>> /\ down'[a] = {-d}
        \/ held'[a] = <<>> /\ down'[a] = {}
    <2>1. down[a] \subseteq {-d, d} /\ d # -d
      BY <1>1 DEF KeyTypes
    <2> QED BY <1>6, <2>1 DEF s
  <1>8. KeyInv(a)'
    BY <1>6, <1>7 DEF KeyInv
  <1>9. \A b \in Axes \ {a} : KeyInv(b)'
    BY <1>1, <1>3 DEF KeyTypes, KeyInv
  <1> QED BY <1>5, <1>8, <1>9

(***************************************************************************)
(* The invariant.                                                          *)
(***************************************************************************)

LEMMA GameStart == Init => GameInv
  <1> SUFFICES ASSUME Init PROVE GameInv
    OBVIOUS
  <1>1. TypeOK
    <2>1. KeyTypes
      BY DEF Init, NewPlayer, KeyTypes
    <2>2. <<>> \in Seq(Enemies) /\ <<>> \in Seq(Shots) /\ Len(<<>>) = 0
      OBVIOUS
    <2>3. 0 \in 0 .. MaxScore /\ 3 \in 0 .. PaintCap + MaxEnemies /\ 0 <= MaxEnemies /\ 0 <= MaxShots
      BY Bounds
    <2> QED BY <2>1, <2>2, <2>3 DEF Init, NewPlayer, TypeOK, KeyTypes, Enemies, Shots
  <1>2. \A a \in Axes : KeyInv(a)
    BY DEF Init, NewPlayer, KeyInv
  <1>3. LivesInv /\ OnlyZeroScoreIsInvincible
    BY DEF Init, NewPlayer, LivesInv, OnlyZeroScoreIsInvincible
  <1> QED BY <1>1, <1>2, <1>3 DEF GameInv

\* One action after the other; the clause about lives is LifeByLife's.
LEMMA GameStep ==
  ASSUME GameInv, [Next]_vars
  PROVE  /\ GameInv'
         /\ vars' # vars =>
              /\ lives' < lives /\ lives <= PaintCap => lives' = lives - 1 /\ objects' = <<>>
              /\ lives' = 0 <=> state' = "over"
  <1> USE DEF GameInv
  <1>0. lives \in Int
    BY DEF TypeOK
  <1>1. ASSUME NEW a \in Axes, NEW d \in {-1, 1}, PressMove(a, d) \/ ReleaseMove(a, d)
        PROVE  GameInv' /\ lives' = lives
    <2>1. KeyTypes' /\ \A b \in Axes : KeyInv(b)'
      BY <1>1, PressStep, ReleaseStep
    <2>2. UNCHANGED <<state, score, lives, spell, objects, bullets, isShoot>>
      BY <1>1 DEF PressMove, ReleaseMove
    <2>3. TypeOK'
      BY <2>1, <2>2 DEF TypeOK, KeyTypes
    <2> QED BY <2>1, <2>2, <2>3 DEF LivesInv, OnlyZeroScoreIsInvincible
  <1>2. CASE Shoot
    <2>1. TypeOK' /\ lives' = lives
      BY <1>2 DEF Shoot, TypeOK
    <2>2. \A a \in Axes : KeyInv(a)'
      BY <1>2 DEF Shoot, KeyInv
    <2> QED BY <1>0, <1>2, <2>1, <2>2 DEF Shoot, LivesInv, OnlyZeroScoreIsInvincible
  <1>3. CASE SetBoom
    <2>1. /\ bullets' \in Seq({"bullet", "boom"}) /\ Len(bullets') <= MaxShots
          /\ spell' \in 0 .. PaintCap + MaxEnemies
      BY <1>3, Bounds DEF SetBoom, TypeOK
    <2>2. UNCHANGED <<state, score, lives, objects, isShoot, down, last, held>>
      BY <1>3 DEF SetBoom
    <2>3. TypeOK' /\ lives' = lives
      BY <2>1, <2>2 DEF TypeOK
    <2>4. \A a \in Axes : KeyInv(a)'
      BY <2>2 DEF KeyInv
    <2> QED BY <1>0, <2>2, <2>3, <2>4 DEF LivesInv, OnlyZeroScoreIsInvincible
  <1>4. CASE Pause \/ StartGame
    <2>1. /\ state' \in {"play", "pause"} /\ state # "over"
          /\ UNCHANGED <<score, playerVars, objects, bullets, held>>
      BY <1>4 DEF Pause, StartGame
    <2>2. TypeOK' /\ lives' = lives
      BY <2>1 DEF TypeOK, playerVars
    <2>3. \A a \in Axes : KeyInv(a)'
      BY <2>1 DEF KeyInv, playerVars
    <2> QED BY <1>0, <2>1, <2>2, <2>3 DEF LivesInv, OnlyZeroScoreIsInvincible, playerVars
  <1>5. CASE Restart
    <2>1. TypeOK'
      <3>1. KeyTypes'
        BY <1>5 DEF Restart, KeyTypes
      <3>2. <<>> \in Seq(Enemies) /\ <<>> \in Seq(Shots) /\ Len(<<>>) = 0
        OBVIOUS
      <3>3. 0 \in 0 .. MaxScore /\ 3 \in 0 .. PaintCap + MaxEnemies /\ 0 <= MaxEnemies /\ 0 <= MaxShots
        BY Bounds
      <3> QED BY <1>5, <3>1, <3>2, <3>3 DEF Restart, TypeOK, KeyTypes, Enemies, Shots
    <2>2. \A a \in Axes : KeyInv(a)'
      BY <1>5 DEF Restart, KeyInv
    <2>3. LivesInv' /\ OnlyZeroScoreIsInvincible' /\ lives' > lives
      BY <1>5 DEF Restart, LivesInv, OnlyZeroScoreIsInvincible
    <2> QED BY <1>0, <1>5, <2>1, <2>2, <2>3 DEF Restart, LivesInv
  <1>6. CASE Tick
    <2>1. \A a \in Axes : KeyInv(a)'
      BY <1>6 DEF Tick, KeyInv
    <2> QED BY <1>6, <2>1, TickStep DEF LivesInv
  <1>7. CASE Paint
    <2>1. /\ lives' = IF lives <= PaintCap THEN lives ELSE PaintCap
          /\ spell' = IF spell <= PaintCap THEN spell ELSE PaintCap
      <3>1. lives \in Int /\ spell \in Int /\ PaintCap \in Int
        BY Bounds DEF TypeOK
      <3>2. lives' = Min({lives, PaintCap}) /\ spell' = Min({spell, PaintCap})
        BY <1>7 DEF Paint
      <3> QED BY <3>1, <3>2, MinOfTwo
    <2>2. UNCHANGED <<state, score, objects, bullets, isShoot, down, last, held>>
      BY <1>7 DEF Paint
    <2>3. lives' \in 0 .. PaintCap + MaxEnemies /\ spell' \in 0 .. PaintCap + MaxEnemies
      BY <2>1, Bounds DEF TypeOK
    <2>4. TypeOK'
      BY <2>2, <2>3 DEF TypeOK
    <2>5. LivesInv' /\ (lives <= PaintCap => ~(lives' < lives))
      BY <1>0, <2>1, <2>2, Bounds DEF LivesInv
    <2>6. \A a \in Axes : KeyInv(a)'
      BY <2>2 DEF KeyInv
    <2> QED BY <2>2, <2>4, <2>5, <2>6 DEF LivesInv, OnlyZeroScoreIsInvincible
  <1>8. CASE UNCHANGED vars
    BY <1>8 DEF vars, TypeOK, KeyInv, LivesInv, OnlyZeroScoreIsInvincible
  <1>9. \/ \E a \in Axes, d \in {-1, 1} : PressMove(a, d) \/ ReleaseMove(a, d)
        \/ Shoot \/ SetBoom \/ Pause \/ StartGame \/ Restart \/ Tick \/ Paint
        \/ UNCHANGED vars
    BY DEF Next, Key
  <1> QED BY <1>0, <1>1, <1>2, <1>3, <1>4, <1>5, <1>6, <1>7, <1>8, <1>9 DEF LivesInv

LEMMA GameInvariance == Spec => []GameInv
  <1>1. GameInv /\ [Next]_vars => GameInv'
    BY GameStep
  <1> QED BY GameStart, <1>1, PTL DEF Spec

(***************************************************************************)
(* The theorems.                                                           *)
(***************************************************************************)

\* Every variable keeps its type for any caps, health and numbers of enemies
\* and shots: lives do not fall below zero, and the arrays of Game.java hold
\* enemies and shots only, whatever is copied into them.
THEOREM Types == Spec => []TypeOK
  BY GameInvariance, PTL DEF GameInv

\* On each axis the player moves where the latest pressed of the keys still
\* down points, in whatever order and state of the game they are pressed and
\* released (Player.move, Player.java:35-76).
THEOREM LatestKeySteers == Spec => []LatestKeyWins
  <1>1. GameInv => LatestKeyWins
    BY KeysSteer DEF GameInv
  <1> QED BY <1>1, GameInvariance, PTL

\* A tick takes at most one life, however many enemies touch the player, and
\* takes every enemy with it; the game ends with the last life (isGameOver).
THEOREM OneLifeATick == Spec => LifeByLife
  <1>1. GameInv /\ [Next]_vars =>
          [/\ lives' < lives /\ lives <= PaintCap => lives' = lives - 1 /\ objects' = <<>>
           /\ lives' = 0 <=> state' = "over"]_vars
    BY GameStep
  <1> QED BY <1>1, GameInvariance, PTL DEF Spec, LifeByLife

\* Between ticks only red and blue enemies that appeared at a score of zero are
\* tougher than nextOne makes them, for any number of shots in a tick
\* (checkHit, nextOne).
THEOREM OthersFall == Spec => []OnlyZeroScoreIsInvincible
  BY GameInvariance, PTL DEF GameInv
=============================================================================
