-------------------------------- MODULE Game --------------------------------
(***************************************************************************)
(* The game the server serves: Game.java and the objects of its package.   *)
(* Key events and timer ticks run one at a time on the event thread.       *)
(* Coordinates are abstracted to their effects: what a shot strikes, what  *)
(* leaves the field and whether an enemy touches the player is chosen      *)
(* freely.  The player's power is abstracted to the 1 to 4 bullets of a    *)
(* volley and its speed to the direction of each axis.                     *)
(***************************************************************************)
EXTENDS Integers, FiniteSetsExt, SequencesExt

CONSTANTS
  Axes,       \* "x" (left, right) and "y" (up, down)
  Kinds,      \* of enemies: "red", "blue", "black", "white", types 1 to 4
  PaintCap,   \* most lives and booms after a paint: 9
  MaxHealth,  \* most health nextOne gives an enemy (bound)
  MaxEnemies, MaxShots, \* enemies and shots at once (bounds)
  MaxScore    \* the score is counted up to here (bound)

ASSUME GameAssumption ==
  /\ Kinds \subseteq {"red", "blue", "black", "white"}
  /\ {PaintCap, MaxHealth, MaxEnemies, MaxShots, MaxScore} \subseteq Nat
  /\ PaintCap >= 3

\* A Java int, of a width that leaves room for every health nextOne gives and
\* for the shots of a tick: no tick wraps it twice.
MaxInt == MaxHealth + MaxShots
MinInt == -MaxInt - 1
AsInt(n) == IF n < MinInt THEN n + MaxInt - MinInt + 1 ELSE n

VARIABLES
  state,   \* "menu", "play", "pause", "over": 0 to 3
  score,
  lives,   \* player.health
  spell,   \* booms left
  objects, \* the enemies
  bullets, \* "bullet" and "boom"
  isShoot,
  down,    \* per axis the keys that move towards -1 and 1: moveLeft, moveRight ...
  last,    \* per axis: lastMoveRight, lastMoveDown
  held     \* history: per axis the keys this player took and has not lost, in order

playerVars == <<lives, spell, isShoot, down, last>>
vars == <<state, score, lives, spell, objects, bullets, isShoot, down,
          last, held>>

\* new Player()
NewPlayer ==
  /\ lives = 3 /\ spell = 3 /\ isShoot = FALSE
  /\ down = [a \in Axes |-> {}]
  /\ last = [a \in Axes |-> -1]

Init ==
  /\ state = "menu" /\ score = 0 /\ objects = <<>> /\ bullets = <<>>
  /\ NewPlayer
  /\ held = [a \in Axes |-> <<>>]

(***************************************************************************)
(* Keys                                                                    *)
(***************************************************************************)

\* Mutant: a release does not touch lastMoveRight.
Handed_Kept(a, d) == last[a]

\* pressMoveRight(false): the other direction is the last one again.
Handed(a, d) == -d

\* The keys of s without d, which leaves the other one of the axis at most.
Without(s, d) == IF -d \in Range(s) THEN <<-d>> ELSE <<>>

\* A press counts only while the game is played; the keyboard may repeat it.
PressMove(a, d) ==
  /\ state = "play"
  /\ down' = [down EXCEPT ![a] = @ \cup {d}]
  /\ last' = [last EXCEPT ![a] = d]
  /\ held' = [held EXCEPT ![a] = Append(Without(@, d), d)]
  /\ UNCHANGED <<state, score, lives, spell, objects, bullets, isShoot>>

\* A release counts in every state, also of a key pressed before the player.
ReleaseMove(a, d) ==
  /\ down' = [down EXCEPT ![a] = @ \ {d}]
  /\ last' = [last EXCEPT ![a] = Handed(a, d)]
  /\ held' = [held EXCEPT ![a] = Without(@, d)]
  /\ UNCHANGED <<state, score, lives, spell, objects, bullets, isShoot>>

\* Z; a release counts in every state.
Shoot ==
  /\ isShoot' \in (IF state = "play" THEN BOOLEAN ELSE {FALSE})
  /\ UNCHANGED <<state, score, lives, spell, objects, bullets, down, last, held>>

\* X: setBoom.
SetBoom ==
  /\ state = "play" /\ spell > 0 /\ Len(bullets) < MaxShots
  /\ bullets' = Append(bullets, "boom")
  /\ spell' = spell - 1
  /\ UNCHANGED <<state, score, lives, objects, isShoot, down, last, held>>

\* Escape pauses the game: no key leaves that state.
Pause ==
  /\ state = "play" /\ state' = "pause"
  /\ UNCHANGED <<score, playerVars, objects, bullets, held>>

\* Z in the menu; it does not shoot yet.
StartGame ==
  /\ state = "menu" /\ state' = "play"
  /\ UNCHANGED <<score, playerVars, objects, bullets, held>>

\* Escape after the end: everything is new.
Restart ==
  /\ state = "over" /\ state' = "menu"
  /\ score' = 0 /\ objects' = <<>> /\ bullets' = <<>>
  /\ lives' = 3 /\ spell' = 3 /\ isShoot' = FALSE
  /\ down' = [a \in Axes |-> {}] /\ last' = [a \in Axes |-> -1]
  /\ held' = [a \in Axes |-> <<>>]

(***************************************************************************)
(* A tick                                                                  *)
(***************************************************************************)

\* Player.move: where the player may go on an axis.  If the last key is not
\* down but the other one is, the speed of an older tick stays.
Directions(a) ==
  IF down[a] = {} THEN {0}
  ELSE IF last[a] \in down[a] THEN {last[a]} ELSE {-1, 0, 1}

\* Enemies of these kinds and healths; history: was the score zero?
Made(kinds, healths) ==
  [kind : Kinds \cap kinds, health : healths, atZero : {score = 0}]

\* Mutant: an integer division by 20, by which the first kills are zero, too.
NextOne_IntDivision ==
  Made({"black", "white"}, 0 .. MaxHealth)
    \cup Made({"red", "blue"}, IF score < 20 THEN {MinInt} ELSE 0 .. MaxHealth)

\* nextOne: (int) Math.log(0 / 2.0) is the smallest int.
NextOne ==
  Made({"black", "white"}, 0 .. MaxHealth)
    \cup Made({"red", "blue"}, IF score = 0 THEN {MinInt} ELSE 0 .. MaxHealth)

\* spawnAction: spawnIndex chooses the ticks on which an enemy appears.
SpawnAction ==
  {objects} \cup
    IF Len(objects) < MaxEnemies THEN {Append(objects, e) : e \in NextOne} ELSE {}

\* shootAction: on every tenth tick of shootIndex.
ShootAction ==
  {bullets} \cup
    IF isShoot
      THEN {bullets \o [i \in 1 .. n |-> "bullet"] : n \in 1 .. Min({4, MaxShots - Len(bullets)})}
      ELSE {}

\* checkHit: shot b meets the enemies at; a bullet hits the first of them, a
\* boom all but the white ones.
CheckHit(objs, b, at, i) ==
  i \in at /\ IF b = "bullet" THEN i = Min(at) ELSE objs[i].kind # "white"

\* hitAction: the shots in turn, shot k at aim[k].  A bullet takes 1 from the
\* health, an int; a boom sets it to -1, so that only the bullets behind the
\* last boom count.
HitAction(objs, shots, aim) ==
  LET hits(i, b) == {k \in DOMAIN shots : shots[k] = b /\ CheckHit(objs, b, aim[k], i)}
      rest(i) == {k \in hits(i, "bullet") : \A n \in hits(i, "boom") : n < k}
  IN [i \in DOMAIN objs |->
        [objs[i] EXCEPT !.health =
           AsInt((IF hits(i, "boom") = {} THEN @ ELSE -1) - Cardinality(rest(i)))]]

\* The elements of s at the places S, in their order.
At(s, S) ==
  [k \in 1 .. Cardinality(S) |->
     s[CHOOSE i \in S : Cardinality({j \in S : j < i}) = k - 1]]

Dead(e) == e.health < 0

\* Mutant: the array is not replaced, every touch costs a life.
Deaths_Each(touching) == Cardinality(touching)

\* isGameOver: a touch costs a life and replaces the array the loop runs over;
\* only a touch that no earlier one has removed from it counts.
Deaths(touching) == Cardinality({i \in touching : ~\E j \in touching : j < i})

\* outOfBoundsAction, then checkGameOverAction: objs and shots after the hits,
\* gone are the enemies that left the field.
Settle(objs, gone, touched) ==
  LET dead   == {i \in DOMAIN objs \ gone : Dead(objs[i])}
      stay   == At(objs, DOMAIN objs \ (gone \cup dead))
      kills(kind) == Cardinality({i \in dead : objs[i].kind = kind})
      deaths == Deaths(touched \cap DOMAIN stay)
      worth  == 5 * kills("red") + 15 * kills("blue") + 10 * (kills("black") + kills("white"))
  IN /\ score' = Min({MaxScore, score + worth})
     /\ lives' = lives + kills("white") - deaths
     /\ spell' = IF deaths > 0 THEN 3 ELSE spell + kills("black")
     /\ objects' = IF deaths > 0 THEN <<>> ELSE stay
     /\ state' = IF lives' <= 0 THEN "over" ELSE state

\* One tick.  The picture of the last one has been painted when it raised a
\* count beyond the cap (bound).
Tick ==
  /\ state = "play" /\ lives <= PaintCap /\ spell <= PaintCap
  /\ \E objs \in SpawnAction, shots \in ShootAction :
       \E aim \in [DOMAIN shots -> SUBSET DOMAIN objs],
          gone, touched \in SUBSET DOMAIN objs, left \in SUBSET DOMAIN shots :
         /\ Settle(HitAction(objs, shots, aim), gone, touched)
         /\ bullets' = At(shots, {i \in DOMAIN shots \ left :
                                    shots[i] = "boom" \/ aim[i] = {}})
  /\ UNCHANGED <<isShoot, down, last, held>>

\* paintScore shows, and leaves, at most 9 lives and booms.
Paint ==
  /\ lives' = Min({lives, PaintCap}) /\ spell' = Min({spell, PaintCap})
  /\ UNCHANGED <<state, score, objects, bullets, isShoot, down, last, held>>

(***************************************************************************)
(* The specification                                                       *)
(***************************************************************************)

Key ==
  \/ \E a \in Axes, d \in {-1, 1} : PressMove(a, d) \/ ReleaseMove(a, d)
  \/ Shoot \/ SetBoom \/ Pause \/ StartGame \/ Restart

Next == Key \/ Tick \/ Paint

Spec == Init /\ [][Next]_vars

(***************************************************************************)
(* Properties                                                              *)
(***************************************************************************)

\* Every variable keeps its type, and lives, booms and score their bounds.
TypeOK ==
  /\ state \in {"menu", "play", "pause", "over"}
  /\ score \in 0 .. MaxScore
  /\ lives \in 0 .. PaintCap + MaxEnemies /\ spell \in 0 .. PaintCap + MaxEnemies
  /\ objects \in Seq([kind : Kinds, health : MinInt .. MaxInt, atZero : BOOLEAN])
  /\ bullets \in Seq({"bullet", "boom"})
  /\ Len(objects) <= MaxEnemies /\ Len(bullets) <= MaxShots
  /\ isShoot \in BOOLEAN
  /\ down \in [Axes -> SUBSET {-1, 1}] /\ last \in [Axes -> {-1, 1}]
  /\ held \in [Axes -> Seq({-1, 1})] /\ \A a \in Axes : Len(held[a]) <= 2

\* On each axis the player moves where the latest pressed of the keys that are
\* still down points, in whatever order and in whatever state of the game the
\* keys of this player and of the one before are released, and never with the
\* speed of an older tick (Player.java:35-76).
LatestKeyWins ==
  \A a \in Axes :
    Directions(a) = IF held[a] = <<>> THEN {0} ELSE {Last(held[a])}

\* A tick takes at most one life, however many enemies touch the player, and
\* then clears the sky; the game ends with the tick that takes the last one
\* ("the character's lives reach zero, the game is over", readme.md:77).
LifeByLife ==
  [][/\ lives' < lives /\ lives <= PaintCap => lives' = lives - 1 /\ objects' = <<>>
     /\ lives' = 0 <=> state' = "over"]_vars

\* Between ticks no enemy is below zero, and none is tougher than nextOne
\* makes them but red and blue ones that appeared at a score of zero: a bullet
\* that hits one in that tick wraps its health to the greatest int, and it
\* outlasts the score (Game.java:309, 361).
OnlyZeroScoreIsInvincible ==
  \A i \in DOMAIN objects :
    \/ objects[i].health \in 0 .. MaxHealth
    \/ /\ objects[i].health > MaxHealth
       /\ objects[i].atZero /\ objects[i].kind \in {"red", "blue"}
=============================================================================
