---------------------------- MODULE SeasonProofs ----------------------------
(***************************************************************************)
(* The season for every schedule of games and kickoffs, every cap and      *)
(* window, every number of redeployments and every order of events.        *)
(***************************************************************************)
EXTENDS Season, FiniteSetTheorems, FunctionTheorems, SequenceTheorems, TLAPS

(* In a finite set ordered by R the ranks are 0 to the size, each once.    *)
Below(S, R, x) == {y \in S : <<y, x>> \in R}
Rank(S, R, x) == Cardinality(Below(S, R, x))
Orders(R, S) ==
    /\ \A x \in S : <<x, x>> \notin R
    /\ \A x, y \in S : x # y => <<x, y>> \in R \/ <<y, x>> \in R
    /\ \A x, y, z \in S : <<x, y>> \in R /\ <<y, z>> \in R => <<x, z>> \in R

LEMMA RankRises ==
    ASSUME NEW S, IsFiniteSet(S), NEW R, Orders(R, S), NEW x \in S, NEW y \in S, <<x, y>> \in R
    PROVE  Rank(S, R, x) < Rank(S, R, y)
<1> DEFINE A == Below(S, R, x)
           B == Below(S, R, y)
<1>1. A \subseteq B /\ x \in B /\ x \notin A /\ B \subseteq S
  BY DEF Below, Orders
<1>2. IsFiniteSet(B)
  BY <1>1, FS_Subset
<1>3. IsFiniteSet(A) /\ Cardinality(A) <= Cardinality(B) /\ (Cardinality(A) = Cardinality(B) => A = B)
  BY <1>1, <1>2, FS_Subset, Zenon
<1>4. Cardinality(A) \in Nat /\ Cardinality(B) \in Nat
  BY <1>2, <1>3, FS_CardinalityType
<1>5. A # B
  BY <1>1
<1> QED BY <1>3, <1>4, <1>5 DEF Rank

LEMMA RanksOnce ==
    ASSUME NEW S, IsFiniteSet(S), NEW R, Orders(R, S), NEW x \in S, NEW y \in S, Rank(S, R, x) = Rank(S, R, y)
    PROVE  x = y
<1> SUFFICES ASSUME x # y PROVE FALSE
  OBVIOUS
<1>1. <<x, y>> \in R \/ <<y, x>> \in R
  BY DEF Orders
<1>2. Rank(S, R, x) \in Nat
  <2>1. Below(S, R, x) \subseteq S
    BY DEF Below
  <2>2. IsFiniteSet(Below(S, R, x))
    BY <2>1, FS_Subset
  <2> QED BY <2>2, FS_CardinalityType DEF Rank
<1> QED BY <1>1, <1>2, RankRises

LEMMA RanksAll ==
    ASSUME NEW S, IsFiniteSet(S), NEW R, Orders(R, S)
    PROVE  /\ Cardinality(S) \in Nat
           /\ \A x \in S : Rank(S, R, x) \in 0..(Cardinality(S) - 1)
           /\ \A i \in 1..Cardinality(S) : \E x \in S : Rank(S, R, x) = i - 1
<1> DEFINE n == Cardinality(S)
           f == [x \in S |-> Rank(S, R, x)]
<1>1. n \in Nat
  BY FS_CardinalityType
<1>2. ASSUME NEW x \in S PROVE Rank(S, R, x) \in 0..(n - 1)
  <2>1. Below(S, R, x) \subseteq S \ {x}
    BY DEF Below, Orders
  <2>2. IsFiniteSet(S \ {x}) /\ Cardinality(S \ {x}) = n - 1
    BY FS_RemoveElement
  <2>3. IsFiniteSet(Below(S, R, x)) /\ Cardinality(Below(S, R, x)) <= n - 1
    BY <2>1, <2>2, FS_Subset
  <2>4. Cardinality(Below(S, R, x)) \in Nat
    BY <2>3, FS_CardinalityType
  <2> QED BY <1>1, <2>3, <2>4 DEF Rank
<1>3. f \in Injection(S, 0..(n - 1))
  <2>1. f \in [S -> 0..(n - 1)]
    BY <1>2
  <2>2. \A x, y \in S : f[x] = f[y] => x = y
    BY RanksOnce
  <2> HIDE DEF f
  <2> QED BY <2>1, <2>2 DEF Injection, IsInjective
<1>4. IsFiniteSet(0..(n - 1)) /\ Cardinality(0..(n - 1)) = n
  <2>1. IsFiniteSet(0..(n - 1)) /\ Cardinality(0..(n - 1)) = IF 0 > n - 1 THEN 0 ELSE (n - 1) - 0 + 1
    BY SMTT(60), <1>1, FS_Interval
  <2> QED BY <1>1, <2>1
<1>5. f \in Surjection(S, 0..(n - 1))
  <2> HIDE DEF f
  <2> QED BY <1>3, <1>4, FS_Injection
<1>6. \A k \in 0..(n - 1) : \E x \in S : f[x] = k
  <2> HIDE DEF f
  <2> QED BY <1>5 DEF Surjection
<1>7. ASSUME NEW i \in 1..n PROVE \E x \in S : Rank(S, R, x) = i - 1
  <2>1. i - 1 \in 0..(n - 1)
    BY <1>1
  <2> QED BY <1>6, <2>1
<1> QED BY <1>1, <1>2, <1>7

(* A list that has the element of each rank at its place.                  *)
ListsIn(f, S, R) ==
    /\ f = [i \in 1..Cardinality(S) |-> f[i]]
    /\ \A i \in 1..Cardinality(S) : f[i] \in S /\ Rank(S, R, f[i]) = i - 1

LEMMA ListedInOrder ==
    ASSUME NEW S, IsFiniteSet(S), NEW R, Orders(R, S), NEW f, ListsIn(f, S, R)
    PROVE  /\ Cardinality(S) \in Nat
           /\ f \in Seq(S) /\ Len(f) = Cardinality(S) /\ DOMAIN f = 1..Cardinality(S)
           /\ \A i, j \in 1..Cardinality(S) : f[i] = f[j] => i = j
           /\ \A x \in S : \E i \in 1..Cardinality(S) : f[i] = x
<1> DEFINE n == Cardinality(S)
<1>1. n \in Nat
  BY FS_CardinalityType
<1>2. f = [i \in 1..n |-> f[i]] /\ \A i \in 1..n : f[i] \in S /\ Rank(S, R, f[i]) = i - 1
  BY DEF ListsIn
<1> HIDE DEF n
<1>3. f \in [1..n -> S]
  BY <1>2
<1>4. f \in Seq(S) /\ Len(f) = n /\ DOMAIN f = 1..n
  BY <1>1, <1>3
<1>5. ASSUME NEW i \in 1..n, NEW j \in 1..n, f[i] = f[j] PROVE i = j
  <2>1. i - 1 = j - 1
    BY <1>2, <1>5
  <2> QED BY <1>1, <2>1
<1>6. ASSUME NEW x \in S PROVE \E i \in 1..n : f[i] = x
  <2> DEFINE i == Rank(S, R, x) + 1
  <2>1. Rank(S, R, x) \in 0..(n - 1)
    BY RanksAll DEF n
  <2>2. i \in 1..n /\ i - 1 = Rank(S, R, x)
    BY <1>1, <2>1
  <2> HIDE DEF i
  <2>3. f[i] \in S /\ Rank(S, R, f[i]) = Rank(S, R, x)
    BY <1>2, <2>2
  <2>4. f[i] = x
    BY <2>3, RanksOnce
  <2> QED BY <2>2, <2>4
<1> QED BY <1>1, <1>4, <1>5, <1>6 DEF n

LEMMA NumbersInOrder ==
    ASSUME NEW S, S \subseteq Int, IsFiniteSet(S)
    PROVE  Orders({p \in S \X S : p[1] < p[2]}, S)
<1> DEFINE R == {p \in S \X S : p[1] < p[2]}
<1>1. \A x, y \in S : <<x, y>> \in R <=> x < y
  OBVIOUS
<1> HIDE DEF R
<1>2. \A x \in S : x \in Int
  OBVIOUS
<1>3. Orders(R, S)
  BY <1>1, <1>2 DEF Orders
<1> QED BY <1>3 DEF R

LEMMA LeastOfNumbers ==
    ASSUME NEW S, S \subseteq Int, IsFiniteSet(S), S # {}
    PROVE  \E x \in S : \A y \in S : x <= y
<1> DEFINE R == {p \in S \X S : p[1] < p[2]}
<1>1. \A x, y \in S : <<x, y>> \in R <=> x < y
  OBVIOUS
<1>2. Orders(R, S)
  BY NumbersInOrder
<1> HIDE DEF R
<1>3. Cardinality(S) \in Nat /\ Cardinality(S) # 0
  BY FS_CardinalityType, FS_EmptySet
<1>4. 1 \in 1..Cardinality(S)
  BY <1>3
<1>5. PICK x \in S : Rank(S, R, x) = 0
  <2>1. \A i \in 1..Cardinality(S) : \E x \in S : Rank(S, R, x) = i - 1
    BY <1>2, RanksAll
  <2>2. \E x \in S : Rank(S, R, x) = 1 - 1
    BY <1>4, <2>1
  <2> QED BY <2>2
<1>6. Below(S, R, x) = {}
  <2>1. IsFiniteSet(Below(S, R, x))
    <3>1. Below(S, R, x) \subseteq S
      BY DEF Below
    <3> QED BY <3>1, FS_Subset
  <2> QED BY <1>5, <2>1, FS_EmptySet DEF Rank
<1>7. \A y \in S : ~(y < x)
  BY <1>1, <1>6 DEF Below
<1> QED BY <1>7

(* Games in the order in which they are listed.                            *)
SoonerPairs(S) == {p \in S \X S : SoonerGame(p[1], p[2])}

LEMMA SoonerListed ==
    ASSUME NEW S, S \subseteq DOMAIN rows, DOMAIN rows \subseteq Games,
           \A g \in S : Week[g] \in Int /\ rows[g].kickoff \in Int
    PROVE  /\ InOrder(S, SoonerGame) \in Seq(S)
           /\ \A i, j \in 1..Len(InOrder(S, SoonerGame)) :
                 InOrder(S, SoonerGame)[i] = InOrder(S, SoonerGame)[j] => i = j
<1> DEFINE R == SoonerPairs(S)
           f == InOrder(S, SoonerGame)
<1>1. IsFiniteSet(S)
  BY SeasonAssumption, FS_Subset
<1>2. \A x, y \in S : <<x, y>> \in R <=> SoonerGame(x, y)
  BY DEF SoonerPairs
<1>3. \A g \in S : g \in Int
  <2>1. Games \subseteq Nat
    BY SeasonAssumption, Zenon
  <2>2. S \subseteq Nat
    BY <2>1
  <2> HIDE DEF R, f
  <2> QED BY <2>2
<1>4. Orders(R, S)
  <2> HIDE DEF R
  <2>1. \A x \in S : ~SoonerGame(x, x)
    BY <1>3 DEF SoonerGame
  <2>2. \A x, y \in S : x # y => SoonerGame(x, y) \/ SoonerGame(y, x)
    BY <1>3 DEF SoonerGame
  <2>3. \A x, y, z \in S : SoonerGame(x, y) /\ SoonerGame(y, z) => SoonerGame(x, z)
    BY <1>3 DEF SoonerGame
  <2> QED BY <1>2, <2>1, <2>2, <2>3 DEF Orders
<1>5. \A x \in S : {y \in S : SoonerGame(y, x)} = Below(S, R, x)
  <2> HIDE DEF R
  <2> QED BY <1>2 DEF Below
<1>6. \A x \in S : Cardinality({y \in S : SoonerGame(y, x)}) = Rank(S, R, x)
  BY <1>5 DEF Rank
<1>7. f = [i \in 1..Cardinality(S) |-> CHOOSE x \in S : Cardinality({y \in S : SoonerGame(y, x)}) = i - 1]
  BY DEF InOrder
<1>8. ListsIn(f, S, R)
  <2> HIDE DEF R, f
  <2>1. ASSUME NEW i \in 1..Cardinality(S) PROVE f[i] \in S /\ Rank(S, R, f[i]) = i - 1
    <3>1. \E x \in S : Cardinality({y \in S : SoonerGame(y, x)}) = i - 1
      BY <1>1, <1>4, <1>6, RanksAll
    <3>2. f[i] = CHOOSE x \in S : Cardinality({y \in S : SoonerGame(y, x)}) = i - 1
      BY <1>7
    <3>3. f[i] \in S /\ Cardinality({y \in S : SoonerGame(y, f[i])}) = i - 1
      BY <3>1, <3>2
    <3> QED BY <1>6, <3>3
  <2>2. f = [i \in 1..Cardinality(S) |-> f[i]]
    <3> DEFINE at(i) == CHOOSE x \in S : Cardinality({y \in S : SoonerGame(y, x)}) = i - 1
    <3>1. f = [i \in 1..Cardinality(S) |-> at(i)]
      BY <1>7
    <3> HIDE DEF at
    <3> QED BY <3>1
  <2> QED BY <2>1, <2>2 DEF ListsIn
<1> HIDE DEF R, f
<1>9. f \in Seq(S) /\ Len(f) = Cardinality(S) /\ \A i, j \in 1..Cardinality(S) : f[i] = f[j] => i = j
  BY <1>1, <1>4, <1>8, ListedInOrder
<1> QED BY <1>9 DEF f
----------------------------------------------------------------------------
(* Types.                                                                  *)
Cids == {c \in [game : Games, close : Int, gen : 0..MaxGen] : c.close \in Kickoffs[c.game]}
Market == [paused : BOOLEAN, resolved : BOOLEAN, score : [status : Statuses, age : 0..Window] \cup {None}]
Row == [kickoff : Int, status : Statuses, link : Cids \cup {None}]
Tables == UNION {[S -> Row] : S \in SUBSET Games}
GameState == [kickoff : Int, called : {"on", "final", "postponed", "cancelled"}, over : BOOLEAN]
ListingTick == [stage : {"listing"}, post : {"none", "link", "clear"}, cid : Cids \cup {None}, todo : Seq(Games),
                rows : Tables, linked : UNION {[S -> Cids \cup {None}] : S \in SUBSET Games}]

(* A game that is called is over, or was once before it was moved.         *)
WorldOK ==
    /\ now \in Nat /\ gen \in 0..MaxGen /\ dropped \subseteq Games
    /\ world \in [Games -> GameState]
    /\ \A g \in Games : world[g].kickoff \in Kickoffs[g] /\ (world[g].called # "on" => world[g].over)

(* A score that says a game is over is of a game that was; a final one is  *)
(* of the market's own meeting.                                            *)
ScoreOK(w, c, m) ==
    m.score # None =>
        /\ m.score.status \in DONE_STATUSES => w[c.game].over
        /\ m.score.status = "final" =>
              w[c.game].called = "final" /\ Abs(w[c.game].kickoff - c.close) <= Tolerance

MarketsOK ==
    /\ DOMAIN markets \subseteq Cids /\ IsFiniteSet(DOMAIN markets) /\ markets \in [DOMAIN markets -> Market]
    /\ \A c \in DOMAIN markets : c.gen <= gen /\ ScoreOK(world, c, markets[c])

(* A row tells of its own game, and that it is over only when it was; it   *)
(* is linked to a market of that game.                                     *)
RowOK(w, g, r) ==
    /\ r.kickoff \in Kickoffs[g]
    /\ r.status \in DONE_STATUSES => w[g].over
    /\ r.link # None => r.link.game = g

TableOK(w, t) == t \in Tables /\ \A g \in DOMAIN t : RowOK(w, g, t[g])

(* The listing stage has a game before it only if the week before is over, *)
(* and knows the link of each to the configured oracle.                    *)
Gate(g) ==
    \A h \in DOMAIN tick.rows : Week[h] = Week[g] - 1 => world[h].over \/ tick.rows[h].kickoff + Grace < now
Known(g) ==
    g \in DOMAIN rows /\ rows[g].link # None /\ rows[g].link.gen = gen => tick.linked[g] = rows[g].link

ListingOK ==
    /\ tick \in ListingTick /\ TableOK(world, tick.rows)
    /\ \A g \in Range(tick.todo) : g \in DOMAIN tick.rows /\ Gate(g) /\ Known(g)
    /\ \A i, j \in 1..Len(tick.todo) : tick.todo[i] = tick.todo[j] => i = j
    /\ tick.post # "none" => tick.todo # <<>> /\ NeedsListing(Head(tick.todo))
    /\ tick.post = "link" => tick.cid # None /\ tick.cid.game = Head(tick.todo)
    /\ tick.post # "link" => tick.cid = None

TickOK ==
    \/ tick = Idle \/ tick = [stage |-> "schedule"]
    \/ tick = [stage |-> "scores", todo |-> tick.todo]
    \/ ListingOK

(* A market of the configured oracle is linked, about to be linked, or its *)
(* game's link was dropped.                                                *)
InHand(c) ==
    /\ tick.stage = "listing" /\ tick.post = "link"
    /\ Head(tick.todo) = c.game /\ tick.cid = c
LinkedTo(c) == c.game \in DOMAIN rows /\ rows[c.game].link = c
NoTwin == \A c \in DOMAIN markets : c.gen = gen /\ c.game \notin dropped => LinkedTo(c) \/ InHand(c)

(* Links are to markets that are there.                                    *)
LinksReal ==
    /\ \A g \in DOMAIN rows : rows[g].link \in DOMAIN markets \cup {None}
    /\ tick.stage = "listing" => tick.cid \in DOMAIN markets \cup {None}

SeasonInv == WorldOK /\ MarketsOK /\ TableOK(world, rows) /\ TickOK /\ NoTwin /\ LinksReal
----------------------------------------------------------------------------
(* What the world does to the games: a game that was over stays so, and a  *)
(* final one is not moved.                                                 *)
Onward ==
    /\ now' \in Nat /\ now <= now' /\ gen' = gen
    /\ \A g \in Games :
          /\ world[g].over => world'[g].over
          /\ world[g].called = "final" => world'[g].called = "final" /\ world'[g].kickoff = world[g].kickoff
WorldStays == UNCHANGED <<now, gen, world>>

LEMMA StaysOnward == ASSUME WorldOK, WorldStays PROVE Onward
BY DEF WorldOK, WorldStays, Onward

(* The invariants under a step that leaves their own part alone.           *)
LEMMA MarketsKept ==
    ASSUME WorldOK, MarketsOK, Onward, DOMAIN markets' = DOMAIN markets, markets' \in [DOMAIN markets -> Market],
           \A c \in DOMAIN markets : markets'[c].score # None =>
               \/ ScoreOK(world', c, markets'[c])
               \/ markets[c].score # None /\ markets'[c].score.status = markets[c].score.status
    PROVE  MarketsOK'
<1>1. ASSUME NEW c \in DOMAIN markets PROVE c.gen <= gen' /\ ScoreOK(world', c, markets'[c])
  <2>1. c \in Cids /\ c.game \in Games
    BY DEF MarketsOK, Cids
  <2>2. c.gen <= gen' /\ ScoreOK(world, c, markets[c])
    BY DEF MarketsOK, Onward
  <2>3. CASE ScoreOK(world', c, markets'[c])
    BY <2>2, <2>3
  <2>4. CASE markets[c].score # None /\ markets'[c].score.status = markets[c].score.status
    BY <2>1, <2>2, <2>4 DEF ScoreOK, Onward
  <2>5. CASE markets'[c].score = None
    BY <2>2, <2>5 DEF ScoreOK
  <2> QED BY <2>3, <2>4, <2>5
<1> QED BY <1>1 DEF MarketsOK

LEMMA TableKept ==
    ASSUME NEW t, TableOK(world, t), Onward
    PROVE  TableOK(world', t)
<1>1. \A g \in DOMAIN t : g \in Games
  BY DEF TableOK, Tables
<1> QED BY <1>1 DEF TableOK, RowOK, Onward

(* Rows whose links to the configured oracle stay.                         *)
LinksStay ==
    \A g \in DOMAIN rows' :
        rows'[g].link # None /\ rows'[g].link.gen = gen => g \in DOMAIN rows /\ rows'[g].link = rows[g].link

LEMMA TickKept ==
    ASSUME WorldOK, TickOK, Onward, UNCHANGED tick, LinksStay
    PROVE  TickOK'
<1>1. ASSUME ListingOK PROVE ListingOK'
  <2>1. tick.rows \in Tables /\ \A g \in DOMAIN tick.rows : g \in Games /\ tick.rows[g].kickoff \in Int
    BY <1>1 DEF ListingOK, TableOK, Tables, Row
  <2>2. TableOK(world', tick'.rows)
    BY <1>1, TableKept DEF ListingOK, TableOK
  <2>3. ASSUME NEW g, Gate(g) PROVE Gate(g)'
    <3>1. Grace \in Nat /\ now \in Nat /\ now' \in Nat /\ now <= now'
      BY SeasonAssumption DEF Onward, WorldOK
    <3>2. ASSUME NEW h \in DOMAIN tick.rows, Week[h] = Week[g] - 1
          PROVE  world'[h].over \/ tick.rows[h].kickoff + Grace < now'
      <4>1. world[h].over \/ tick.rows[h].kickoff + Grace < now
        BY <2>3, <3>2 DEF Gate
      <4>2. h \in Games /\ tick.rows[h].kickoff \in Int
        BY <2>1
      <4> QED BY <3>1, <4>1, <4>2 DEF Onward
    <3> QED BY <3>2 DEF Gate
  <2>4. ASSUME NEW g, Known(g) PROVE Known(g)'
    BY <2>4 DEF Known, LinksStay, Onward
  <2>5. \A g : NeedsListing(g)' = NeedsListing(g)
    BY DEF NeedsListing, check_link, Onward
  <2> QED BY <1>1, <2>2, <2>3, <2>4, <2>5 DEF ListingOK
<1> QED BY <1>1 DEF TickOK
----------------------------------------------------------------------------
LEMMA SeasonInit == Init => SeasonInv
<1> SUFFICES ASSUME Init PROVE SeasonInv
  OBVIOUS
<1> DEFINE id(g) == question_id(g, world[g].kickoff, 0)
<1>1. Games \subseteq Nat /\ IsFiniteSet(Games) /\ First \subseteq Games /\ MaxGen \in Nat
  BY SeasonAssumption, Zenon
<1>2. \A g \in Games : Kickoffs[g] \subseteq Int
  BY SeasonAssumption, Zenon
<1>3. PICK k \in [Games -> UNION {Kickoffs[g] : g \in Games}] :
           /\ \A g \in Games : k[g] \in Kickoffs[g]
           /\ world = [g \in Games |-> [kickoff |-> k[g], called |-> "on", over |-> FALSE]]
  BY Zenon DEF Init
<1>4. WorldOK
  <2>1. world \in [Games -> GameState]
    <3>1. \A g \in Games : [kickoff |-> k[g], called |-> "on", over |-> FALSE] \in GameState
      BY <1>2, <1>3 DEF GameState
    <3> QED BY <1>3, <3>1
  <2>2. now = 0 /\ gen = 0 /\ dropped \subseteq Games
    BY <1>1 DEF Init
  <2> QED BY <1>1, <1>3, <2>1, <2>2 DEF WorldOK
<1>5. \A g \in First : id(g) \in Cids /\ id(g).game = g /\ id(g).gen = 0
  <2>1. ASSUME NEW g \in First PROVE world[g].kickoff \in Kickoffs[g] /\ world[g].kickoff \in Int /\ g \in Games
    BY <1>1, <1>2, <1>3
  <2> QED BY <1>1, <2>1 DEF question_id, Cids
<1>6. markets = [c \in {id(g) : g \in First} |-> NewMarket]
  BY DEF Init
<1> HIDE DEF id
<1>7. MarketsOK
  <2>1. NewMarket \in Market /\ NewMarket.score = None
    BY DEF NewMarket, Market
  <2>2. IsFiniteSet(First)
    BY <1>1, FS_Subset
  <2>3. IsFiniteSet({id(g) : g \in First})
    <3> DEFINE ids == {id(g) : g \in First}
               f == [g \in First |-> id(g)]
    <3>1. f \in Surjection(First, ids)
      BY DEF Surjection
    <3> HIDE DEF f, ids
    <3>2. IsFiniteSet(ids)
      BY <2>2, <3>1, FS_Surjection
    <3> QED BY <3>2 DEF ids
  <2>4. DOMAIN markets = {id(g) : g \in First} /\ \A c \in DOMAIN markets : markets[c] = NewMarket
    BY <1>6
  <2>5. DOMAIN markets \subseteq Cids /\ \A c \in DOMAIN markets : c.gen = 0
    BY <1>5, <2>4
  <2>6. markets \in [DOMAIN markets -> Market]
    <3>1. markets = [c \in DOMAIN markets |-> NewMarket]
      BY <1>6, <2>4
    <3> QED BY <2>1, <3>1
  <2>7. gen = 0
    BY DEF Init
  <2>8. \A c \in DOMAIN markets : c.gen <= gen /\ ScoreOK(world, c, markets[c])
    BY <2>1, <2>4, <2>5, <2>7 DEF ScoreOK
  <2> QED BY <2>3, <2>4, <2>5, <2>6, <2>8 DEF MarketsOK
<1>8. rows = [g \in First |-> [kickoff |-> world[g].kickoff, status |-> "scheduled",
                               link |-> IF g \in dropped THEN None ELSE id(g)]]
  BY DEF Init, id
<1>9. TableOK(world, rows)
  <2>1. ASSUME NEW g \in First
        PROVE  rows[g] \in Row /\ RowOK(world, g, rows[g])
    <3>1. world[g].kickoff \in Int /\ world[g].kickoff \in Kickoffs[g]
      BY <1>1, <1>2, <1>3
    <3>2. rows[g].kickoff = world[g].kickoff /\ rows[g].status = "scheduled" /\ rows[g].link \in {None, id(g)}
      BY <1>8
    <3>3. rows[g] = [kickoff |-> rows[g].kickoff, status |-> rows[g].status, link |-> rows[g].link]
      BY <1>8
    <3>4. "scheduled" \in Statuses /\ "scheduled" \notin DONE_STATUSES
      BY DEF Statuses, DONE_STATUSES
    <3>5. rows[g] \in Row
      BY <1>5, <3>1, <3>2, <3>3, <3>4 DEF Row
    <3> QED BY <1>5, <3>1, <3>2, <3>4, <3>5 DEF RowOK
  <2>2. DOMAIN rows = First /\ rows = [g \in First |-> rows[g]]
    BY <1>8
  <2>3. rows \in [First -> Row]
    BY <2>1, <2>2
  <2> QED BY <1>1, <2>1, <2>2, <2>3 DEF TableOK, Tables
<1>10. tick = Idle
  BY DEF Init
<1>11. NoTwin
  <2>1. ASSUME NEW c \in DOMAIN markets, c.game \notin dropped PROVE LinkedTo(c)
    <3>1. PICK g \in First : c = id(g)
      BY <1>6
    <3> QED BY <1>5, <1>8, <2>1, <3>1 DEF LinkedTo
  <2> QED BY <2>1 DEF NoTwin
<1>12. LinksReal
  <2>1. ASSUME NEW g \in DOMAIN rows PROVE rows[g].link \in DOMAIN markets \cup {None}
    BY <1>6, <1>8
  <2> QED BY <1>10, <2>1 DEF LinksReal, Idle
<1> QED BY <1>4, <1>7, <1>9, <1>10, <1>11, <1>12 DEF SeasonInv, TickOK
----------------------------------------------------------------------------
(* A market is not left without its link by a step that creates none,      *)
(* drops no link to the configured oracle and does not forget one.         *)
LEMMA TwinsKept ==
    ASSUME NoTwin, DOMAIN markets' = DOMAIN markets, gen' = gen, dropped \subseteq dropped',
           \A c \in DOMAIN markets :
               c.gen = gen /\ c.game \notin dropped' =>
                   (LinkedTo(c) => LinkedTo(c)') /\ (InHand(c) => LinkedTo(c)' \/ InHand(c)')
    PROVE  NoTwin'
BY DEF NoTwin

LEMMA WorldKept == ASSUME WorldOK, WorldStays, dropped' \subseteq Games PROVE WorldOK'
BY DEF WorldOK, WorldStays

LEMMA LinksRealKept ==
    ASSUME LinksReal, DOMAIN markets \subseteq DOMAIN markets', UNCHANGED rows,
           tick' = tick \/ tick'.stage # "listing" \/ tick'.cid \in DOMAIN markets \cup {None}
    PROVE  LinksReal'
BY DEF LinksReal

(* A step of the world alone.                                              *)
LEMMA TablesWatch ==
    ASSUME SeasonInv, WorldOK', Onward, UNCHANGED <<now, rows, markets, tick, dropped>>
    PROVE  SeasonInv'
<1>1. MarketsOK'
  BY MarketsKept DEF SeasonInv, MarketsOK
<1>2. TableOK(world, rows)'
  <2>1. TableOK(world', rows)
    BY TableKept DEF SeasonInv
  <2> QED BY <2>1
<1>3. LinksStay
  BY DEF LinksStay, Onward
<1>4. TickOK'
  BY <1>3, TickKept DEF SeasonInv
<1>5. NoTwin'
  BY TwinsKept DEF SeasonInv, Onward, LinkedTo, InHand
<1>6. LinksReal'
  BY LinksRealKept DEF SeasonInv
<1> QED BY <1>1, <1>2, <1>4, <1>5, <1>6 DEF SeasonInv

LEMMA LivePlayed == ASSUME SeasonInv, NEW g \in Games, Played(g) PROVE SeasonInv'
<1>1. WorldOK /\ WorldOK'
  BY ZenonT(60) DEF SeasonInv, WorldOK, Played, GameState
<1>2. Onward
  BY <1>1 DEF Onward, WorldOK, Played
<1> QED BY <1>1, <1>2, TablesWatch DEF Played

LEMMA LiveCalledOff ==
    ASSUME SeasonInv, NEW g \in Games, NEW s \in {"postponed", "cancelled"}, CalledOff(g, s) PROVE SeasonInv'
<1>1. WorldOK /\ WorldOK'
  BY ZenonT(60) DEF SeasonInv, WorldOK, CalledOff, GameState
<1>2. Onward
  BY <1>1 DEF Onward, WorldOK, CalledOff
<1> QED BY <1>1, <1>2, TablesWatch DEF CalledOff

LEMMA LiveMoved ==
    ASSUME SeasonInv, NEW g \in Games, NEW k \in Kickoffs[g], Moved(g, k) PROVE SeasonInv'
<1>1. k \in Int
  BY SeasonAssumption
<1>2. WorldOK /\ WorldOK'
  BY ZenonT(60), <1>1 DEF SeasonInv, WorldOK, Moved, GameState
<1>3. Onward
  BY <1>2 DEF Onward, WorldOK, Moved
<1> QED BY <1>2, <1>3, TablesWatch DEF Moved

LEMMA LiveRedeploy == ASSUME SeasonInv, Redeploy PROVE SeasonInv'
<1>1. MaxGen \in Nat /\ gen \in 0..MaxGen /\ gen' = gen + 1 /\ gen < MaxGen
  BY SeasonAssumption DEF SeasonInv, WorldOK, Redeploy
<1>2. UNCHANGED <<now, world, rows, markets, tick, dropped>> /\ tick = Idle
  BY DEF Redeploy
<1>3. \A c \in Cids : c.gen \in Int
  BY <1>1 DEF Cids
<1>4. WorldOK'
  BY <1>1, <1>2 DEF SeasonInv, WorldOK
<1>5. MarketsOK'
  BY <1>1, <1>2, <1>3 DEF SeasonInv, MarketsOK
<1>6. NoTwin'
  BY <1>1, <1>2, <1>3 DEF SeasonInv, MarketsOK, NoTwin
<1>7. LinksReal'
  BY <1>2, LinksRealKept DEF SeasonInv
<1> QED BY <1>2, <1>4, <1>5, <1>6, <1>7 DEF SeasonInv, TickOK

(* A step of markets that are there.                                       *)
LEMMA MarketsStep ==
    ASSUME SeasonInv, WorldOK', Onward, UNCHANGED <<world, rows, dropped>>,
           tick' = tick \/ (TickOK' /\ tick'.stage # "listing" /\ ~\E c : InHand(c)),
           DOMAIN markets' = DOMAIN markets, markets' \in [DOMAIN markets -> Market],
           \A c \in DOMAIN markets : markets'[c].score # None =>
               \/ ScoreOK(world, c, markets'[c])
               \/ markets[c].score # None /\ markets'[c].score.status = markets[c].score.status
    PROVE  SeasonInv'
<1>1. MarketsOK'
  BY MarketsKept DEF SeasonInv
<1>2. TableOK(world, rows)'
  BY DEF SeasonInv
<1>3. LinksStay
  BY DEF LinksStay, Onward
<1>4. TickOK'
  BY <1>3, TickKept DEF SeasonInv
<1>5. NoTwin'
  BY TwinsKept DEF SeasonInv, Onward, LinkedTo, InHand
<1>6. LinksReal'
  BY LinksRealKept DEF SeasonInv
<1> QED BY <1>1, <1>2, <1>4, <1>5, <1>6 DEF SeasonInv

LEMMA LiveTimePasses == ASSUME SeasonInv, TimePasses PROVE SeasonInv'
<1>1. now \in Nat /\ now' = now + 1 /\ UNCHANGED <<world, gen, rows, tick, dropped>>
  BY DEF SeasonInv, WorldOK, TimePasses
<1>2. WorldOK' /\ Onward
  BY <1>1 DEF SeasonInv, WorldOK, Onward
<1>3. Window \in Nat /\ markets \in [DOMAIN markets -> Market]
  BY SeasonAssumption DEF SeasonInv, MarketsOK
<1>4. ASSUME NEW m \in Market
      PROVE  /\ Aged(m) \in Market
             /\ Aged(m).score # None => m.score # None /\ Aged(m).score.status = m.score.status
  <2>1. CASE m.score = None \/ m.score.age = Window
    BY <2>1 DEF Aged
  <2>2. CASE m.score # None /\ m.score.age # Window
    <3>1. m.score \in [status : Statuses, age : 0..Window]
      BY <2>2 DEF Market
    <3>2. Aged(m) = [m EXCEPT !.score = [status |-> m.score.status, age |-> m.score.age + 1]]
      BY <2>2, <3>1 DEF Aged, Market
    <3>3. m.score.age + 1 \in 0..Window
      BY <1>3, <2>2, <3>1
    <3> QED BY <2>2, <3>1, <3>2, <3>3 DEF Market
  <2> QED BY <2>1, <2>2
<1>5. markets' = [c \in DOMAIN markets |-> Aged(markets[c])]
  BY DEF TimePasses
<1>6. DOMAIN markets' = DOMAIN markets /\ markets' \in [DOMAIN markets -> Market]
  BY <1>3, <1>4, <1>5
<1>7. \A c \in DOMAIN markets : markets'[c].score # None =>
          markets[c].score # None /\ markets'[c].score.status = markets[c].score.status
  BY <1>3, <1>4, <1>5
<1> QED BY <1>1, <1>2, <1>6, <1>7, MarketsStep

LEMMA LiveResolved == ASSUME SeasonInv, NEW c \in DOMAIN markets, Resolved(c) PROVE SeasonInv'
<1>1. WorldStays /\ UNCHANGED <<rows, tick, dropped>> /\ markets' = [markets EXCEPT ![c].resolved = TRUE]
  BY DEF Resolved, WorldStays
<1>2. WorldOK' /\ Onward
  BY <1>1, WorldKept, StaysOnward DEF SeasonInv, WorldOK
<1>3. markets \in [DOMAIN markets -> Market]
  BY DEF SeasonInv, MarketsOK
<1>4. DOMAIN markets' = DOMAIN markets /\ markets' \in [DOMAIN markets -> Market]
  BY <1>1, <1>3 DEF Market
<1>5. \A d \in DOMAIN markets : markets'[d].score = markets[d].score
  BY <1>1, <1>3 DEF Market
<1> QED BY <1>1, <1>2, <1>4, <1>5, MarketsStep DEF WorldStays

LEMMA Livepause_market == ASSUME SeasonInv, NEW c \in DOMAIN markets, pause_market(c) PROVE SeasonInv'
<1>1. WorldStays /\ UNCHANGED <<rows, tick, dropped>> /\ markets' = [markets EXCEPT ![c].paused = TRUE]
  BY DEF pause_market, WorldStays
<1>2. WorldOK' /\ Onward
  BY <1>1, WorldKept, StaysOnward DEF SeasonInv, WorldOK
<1>3. markets \in [DOMAIN markets -> Market]
  BY DEF SeasonInv, MarketsOK
<1>4. DOMAIN markets' = DOMAIN markets /\ markets' \in [DOMAIN markets -> Market]
  BY <1>1, <1>3 DEF Market
<1>5. \A d \in DOMAIN markets : markets'[d].score = markets[d].score
  BY <1>1, <1>3 DEF Market
<1> QED BY <1>1, <1>2, <1>4, <1>5, MarketsStep DEF WorldStays

LEMMA Livearchive_market == ASSUME SeasonInv, NEW c \in DOMAIN markets, archive_market(c) PROVE SeasonInv'
<1>1. /\ WorldStays /\ UNCHANGED <<tick, dropped>> /\ c.gen # gen
      /\ markets' = [markets EXCEPT ![c].paused = TRUE]
      /\ rows' = [g \in DOMAIN rows |-> [rows[g] EXCEPT !.link = IF @ = c THEN None ELSE @]]
  BY DEF archive_market, WorldStays
<1>2. WorldOK /\ WorldOK' /\ Onward
  BY <1>1, WorldKept, StaysOnward DEF SeasonInv, WorldOK
<1>3. markets \in [DOMAIN markets -> Market]
  BY DEF SeasonInv, MarketsOK
<1>4. DOMAIN markets' = DOMAIN markets /\ markets' \in [DOMAIN markets -> Market]
  BY <1>1, <1>3 DEF Market
<1>5. \A d \in DOMAIN markets : markets'[d].score = markets[d].score
  BY <1>1, <1>3 DEF Market
<1>6. MarketsOK'
  BY <1>2, <1>4, <1>5, MarketsKept DEF SeasonInv
<1>7. DOMAIN rows \subseteq Games /\ rows \in [DOMAIN rows -> Row]
  BY DEF SeasonInv, TableOK, Tables
<1>8. ASSUME NEW g \in DOMAIN rows
      PROVE  /\ rows'[g] \in Row /\ rows'[g].kickoff = rows[g].kickoff /\ rows'[g].status = rows[g].status
             /\ rows'[g].link # None => rows'[g].link = rows[g].link
             /\ rows[g].link # c => rows'[g].link = rows[g].link
  <2>1. rows[g] \in Row
    BY <1>7
  <2>2. rows'[g] = [rows[g] EXCEPT !.link = IF @ = c THEN None ELSE @]
    BY <1>1
  <2> QED BY <2>1, <2>2 DEF Row
<1>9. DOMAIN rows' = DOMAIN rows /\ rows' \in [DOMAIN rows -> Row]
  BY <1>1, <1>7, <1>8
<1>10. TableOK(world, rows)'
  <2>1. \A g \in DOMAIN rows : RowOK(world, g, rows[g]) => RowOK(world', g, rows'[g])
    BY <1>1, <1>8 DEF RowOK, WorldStays
  <2> QED BY <1>7, <1>9, <2>1 DEF SeasonInv, TableOK, Tables
<1>11. LinksStay
  BY <1>8, <1>9 DEF LinksStay
<1>12. TickOK'
  BY <1>1, <1>2, <1>11, TickKept DEF SeasonInv
<1>13. NoTwin'
  <2>1. \A d \in DOMAIN markets : d.gen = gen => d # c
    BY <1>1
  <2>2. \A d \in DOMAIN markets : d.gen = gen /\ LinkedTo(d) => LinkedTo(d)'
    BY <1>8, <1>9, <2>1 DEF LinkedTo
  <2>3. \A d : InHand(d) => InHand(d)'
    BY <1>1 DEF InHand
  <2> QED BY <1>1, <1>4, <2>2, <2>3, TwinsKept DEF SeasonInv, WorldStays
<1>14. LinksReal'
  BY <1>1, <1>4, <1>8, <1>9 DEF SeasonInv, LinksReal
<1> QED BY <1>2, <1>6, <1>10, <1>12, <1>13, <1>14 DEF SeasonInv

(* A step of the execution that changes no table.                          *)
LEMMA TickStep ==
    ASSUME SeasonInv, WorldStays, UNCHANGED <<rows, markets, dropped>>, TickOK',
           tick' = tick \/ tick'.stage # "listing" \/ tick'.cid \in DOMAIN markets \cup {None},
           \A c : InHand(c) => InHand(c)'
    PROVE  SeasonInv'
<1>1. WorldOK' /\ MarketsOK' /\ TableOK(world, rows)'
  BY WorldKept DEF SeasonInv, WorldOK, WorldStays, MarketsOK
<1>2. NoTwin'
  BY TwinsKept DEF SeasonInv, WorldStays, LinkedTo
<1>3. LinksReal'
  BY LinksRealKept DEF SeasonInv
<1> QED BY <1>1, <1>2, <1>3 DEF SeasonInv

LEMMA Liveauth_preflightFails == ASSUME SeasonInv, auth_preflightFails PROVE SeasonInv'
<1>1. WorldStays /\ UNCHANGED <<rows, markets, tick, dropped>> /\ tick = Idle
  BY DEF auth_preflightFails, WorldStays
<1> QED BY <1>1, TickStep DEF TickOK, InHand

LEMMA Liverun_job == ASSUME SeasonInv, NEW unread, run_job(unread) PROVE SeasonInv'
<1>1. WorldStays /\ UNCHANGED <<rows, markets, dropped>> /\ tick = Idle
  BY DEF run_job, WorldStays
<1>2. tick' = [stage |-> "scores", todo |-> tick'.todo]
  BY DEF run_job
<1>3. \A c : ~InHand(c)
  BY <1>1 DEF InHand, Idle
<1> QED BY <1>1, <1>2, <1>3, TickStep DEF TickOK

LEMMA LiveFinished == ASSUME SeasonInv, Finished PROVE SeasonInv'
<1>1. WorldStays /\ UNCHANGED <<rows, markets, dropped>> /\ tick' = Idle /\ tick.post = "none"
  BY DEF Finished, WorldStays
<1>2. \A c : ~InHand(c)
  BY <1>1 DEF InHand
<1>3. tick'.stage # "listing"
  BY <1>1 DEF Idle
<1> QED BY <1>1, <1>2, <1>3, TickStep DEF TickOK
----------------------------------------------------------------------------
LEMMA StatusTyped ==
    ASSUME WorldOK, NEW g \in Games
    PROVE  /\ StatusOf(g) \in Statuses
           /\ StatusOf(g) \in DONE_STATUSES => world[g].over
           /\ StatusOf(g) = "final" <=> world[g].called = "final"
<1>1. world[g].called \in {"on", "final", "postponed", "cancelled"}
  BY DEF WorldOK, GameState
<1>2. world[g].called # "on" => world[g].over
  BY DEF WorldOK
<1>3. CASE world[g].called # "on"
  <2>1. StatusOf(g) = world[g].called
    BY <1>3 DEF StatusOf
  <2> QED BY <1>1, <1>2, <1>3, <2>1 DEF Statuses, DONE_STATUSES
<1>4. CASE world[g].called = "on"
  <2>1. StatusOf(g) \in {"scheduled", "in_progress"}
    BY <1>4 DEF StatusOf
  <2> QED BY <1>4, <2>1 DEF Statuses, DONE_STATUSES
<1> QED BY <1>3, <1>4

(* What three agents can agree on, of whatever meeting, is right of the    *)
(* market's own.                                                           *)
LEMMA AgreedOfThisGame ==
    ASSUME WorldOK, NEW c \in Cids, NEW r \in ScoreCoordinator(c), NEW m, m.score.status = r.status
    PROVE  r.status \in Statuses /\ ScoreOK(world, c, m)
<1>1. r \in Reports(c) /\ check_game_date(r, c)
  BY DEF ScoreCoordinator
<1>2. PICK g \in {c.game} \cup {h \in Games : /\ Question[h] = Question[c.game]
                                             /\ Week[h] < Week[c.game] /\ world[h].called = "final"} :
           r = [status |-> StatusOf(g), date |-> world[g].kickoff]
  BY <1>1, Zenon DEF Reports
<1>3. c.game \in Games /\ g \in Games /\ c.close \in Kickoffs[c.game] /\ world[g].kickoff \in Kickoffs[g]
  BY <1>2 DEF Cids, WorldOK
<1>4. /\ StatusOf(g) \in Statuses
      /\ StatusOf(g) \in DONE_STATUSES => world[g].over
      /\ StatusOf(g) = "final" <=> world[g].called = "final"
  BY <1>3, StatusTyped
<1>5. r.status = StatusOf(g) /\ r.date = world[g].kickoff
  BY <1>2
<1>6. r.status = "final" => Abs(world[g].kickoff - c.close) <= Tolerance
  BY <1>1, <1>5 DEF check_game_date, game_date_matches, Dated
<1>7. CASE g = c.game
  BY <1>4, <1>5, <1>6, <1>7 DEF ScoreOK
<1>8. CASE g # c.game
  <2>1. Question[g] = Question[c.game] /\ StatusOf(g) = "final"
    BY <1>2, <1>4, <1>8
  <2>2. Abs(world[g].kickoff - c.close) > Tolerance
    BY <1>3, <1>8, <2>1, SeasonAssumption
  <2>3. Abs(world[g].kickoff - c.close) <= Tolerance
    BY <1>5, <1>6, <2>1
  <2>4. world[g].kickoff \in Int /\ c.close \in Int /\ Tolerance \in Nat
    BY <1>3, SeasonAssumption
  <2> QED BY <2>2, <2>3, <2>4 DEF Abs
<1> QED BY <1>4, <1>5, <1>7, <1>8

LEMMA LiveScouted == ASSUME SeasonInv, Scouted PROVE SeasonInv'
<1> DEFINE c == Head(tick.todo)
<1>1. WorldStays /\ UNCHANGED <<rows, dropped>> /\ tick.stage = "scores"
  BY DEF Scouted, WorldStays
<1>2. WorldOK /\ WorldOK' /\ Onward
  BY <1>1, WorldKept, StaysOnward DEF SeasonInv, WorldOK
<1>3. tick = [stage |-> "scores", todo |-> tick.todo]
  BY <1>1 DEF SeasonInv, TickOK, ListingOK, ListingTick, Idle
<1>4. tick' = [stage |-> "scores", todo |-> tick'.todo]
  BY <1>3 DEF Scouted
<1>5. TickOK' /\ tick'.stage # "listing"
  BY <1>4 DEF TickOK
<1>6. \A d : ~InHand(d)
  BY <1>1 DEF InHand
<1>7. markets \in [DOMAIN markets -> Market] /\ DOMAIN markets \subseteq Cids
  BY DEF SeasonInv, MarketsOK
<1>8. CASE UNCHANGED markets
  BY <1>1, <1>2, <1>5, <1>6, <1>7, <1>8, MarketsStep DEF WorldStays
<1>9. CASE \E r \in ScoreCoordinator(c) : publish_score(c, r)
  <2>1. PICK r \in ScoreCoordinator(c) : publish_score(c, r)
    BY <1>9
  <2>2. markets' = [markets EXCEPT ![c].score = [status |-> r.status, age |-> 0]]
    BY <2>1 DEF publish_score, upsert_score
  <2> HIDE DEF c
  <2>3. CASE c \notin DOMAIN markets
    <3>1. markets' = markets
      BY <1>7, <2>2, <2>3
    <3> QED BY <1>1, <1>2, <1>5, <1>6, <1>7, <3>1, MarketsStep DEF WorldStays
  <2>4. CASE c \in DOMAIN markets
    <3>1. /\ DOMAIN markets' = DOMAIN markets
          /\ \A d \in DOMAIN markets : d # c => markets'[d] = markets[d]
          /\ markets'[c] = [markets[c] EXCEPT !.score = [status |-> r.status, age |-> 0]]
      BY <1>7, <2>2, <2>4
    <3>2. markets[c] \in Market
      BY <1>7, <2>4
    <3>3. markets'[c].score.status = r.status
      BY <3>1, <3>2 DEF Market
    <3>4. r.status \in Statuses /\ ScoreOK(world, c, markets'[c])
      BY <1>2, <1>7, <2>4, <3>3, AgreedOfThisGame
    <3>5. Window \in Nat
      BY SeasonAssumption
    <3>6. markets'[c] \in Market
      BY <3>1, <3>2, <3>4, <3>5 DEF Market
    <3>7. markets' = [d \in DOMAIN markets |-> markets'[d]]
      BY <1>7, <2>2
    <3>8. markets' \in [DOMAIN markets -> Market]
      BY <1>7, <3>1, <3>6, <3>7
    <3>9. \A d \in DOMAIN markets : markets'[d].score # None =>
              \/ ScoreOK(world, d, markets'[d])
              \/ markets[d].score # None /\ markets'[d].score.status = markets[d].score.status
      BY <3>1, <3>4
    <3> QED BY <1>1, <1>2, <1>5, <1>6, <3>1, <3>8, <3>9, MarketsStep DEF WorldStays
  <2> QED BY <2>3, <2>4
<1> QED BY <1>8, <1>9 DEF Scouted

(* A posted row.                                                           *)
LEMMA Posted ==
    ASSUME NEW P, upsert_schedule(P)
    PROVE  /\ DOMAIN rows' = DOMAIN rows \cup DOMAIN P
           /\ rows' = [g \in DOMAIN rows' |-> rows'[g]]
           /\ \A g \in DOMAIN P : rows'[g] = P[g]
           /\ \A g \in DOMAIN rows : g \notin DOMAIN P => rows'[g] = rows[g]
BY DEF upsert_schedule

LEMMA TablePosted ==
    ASSUME TableOK(world, rows), UNCHANGED world, NEW P, upsert_schedule(P), DOMAIN P \subseteq Games,
           \A g \in DOMAIN P : P[g] \in Row /\ RowOK(world, g, P[g])
    PROVE  TableOK(world, rows)'
<1>1. DOMAIN rows \subseteq Games /\ \A g \in DOMAIN rows : rows[g] \in Row /\ RowOK(world, g, rows[g])
  BY DEF TableOK, Tables
<1>2. \A g \in DOMAIN rows' : rows'[g] \in Row /\ RowOK(world, g, rows'[g])
  BY <1>1, Posted
<1>3. DOMAIN rows' \subseteq Games /\ rows' \in [DOMAIN rows' -> Row]
  BY <1>1, <1>2, Posted
<1> QED BY <1>2, <1>3 DEF TableOK, Tables

LEMMA LiveScheduleScouted == ASSUME SeasonInv, NEW agreed \in agreed_games, ScheduleScouted(agreed) PROVE SeasonInv'
<1> DEFINE P == [g \in agreed |-> ScoutedRow(g)]
<1>1. /\ WorldStays /\ UNCHANGED <<markets, dropped>> /\ tick.stage = "scores"
      /\ upsert_schedule(P) /\ tick' = [stage |-> "schedule"] /\ agreed \subseteq Games
  BY DEF ScheduleScouted, WorldStays, publish_schedule, agreed_games
<1>2. WorldOK /\ WorldOK' /\ MarketsOK' /\ TickOK'
  BY <1>1, WorldKept DEF SeasonInv, WorldOK, WorldStays, MarketsOK, TickOK
<1>3. ASSUME NEW g \in agreed
      PROVE  /\ P[g] \in Row /\ RowOK(world, g, P[g]) /\ P[g].link = KeptLink(g)
  <2>1. g \in Games /\ world[g].kickoff \in Int /\ world[g].kickoff \in Kickoffs[g]
    BY <1>1, <1>2 DEF WorldOK, GameState
  <2>2. StatusOf(g) \in Statuses /\ (StatusOf(g) \in DONE_STATUSES => world[g].over)
    BY <1>2, <2>1, StatusTyped
  <2>3. KeptLink(g) \in Cids \cup {None} /\ (KeptLink(g) # None => KeptLink(g).game = g)
    BY DEF KeptLink, SeasonInv, TableOK, Tables, Row, RowOK
  <2>4. P[g] = [kickoff |-> world[g].kickoff, status |-> StatusOf(g), link |-> KeptLink(g)]
    BY DEF ScoutedRow
  <2> HIDE DEF P
  <2> QED BY <2>1, <2>2, <2>3, <2>4 DEF Row, RowOK
<1>4. DOMAIN P = agreed
  OBVIOUS
<1> HIDE DEF P
<1>5. TableOK(world, rows)'
  BY <1>1, <1>3, <1>4, TablePosted DEF SeasonInv, WorldStays
<1>6. \A g \in DOMAIN rows : g \in DOMAIN rows' /\ rows'[g].link = rows[g].link
  <2>1. /\ DOMAIN rows' = DOMAIN rows \cup agreed
        /\ \A g \in agreed : rows'[g] = P[g]
        /\ \A g \in DOMAIN rows : g \notin agreed => rows'[g] = rows[g]
    BY <1>1, <1>4, Posted, Zenon
  <2>2. \A g \in agreed : P[g].link = KeptLink(g)
    BY <1>3
  <2>3. \A g \in DOMAIN rows : KeptLink(g) = rows[g].link
    BY DEF KeptLink
  <2> QED BY <2>1, <2>2, <2>3
<1>7. \A c : ~InHand(c)
  BY <1>1 DEF InHand
<1>8. NoTwin'
  BY <1>1, <1>6, <1>7, TwinsKept DEF SeasonInv, WorldStays, LinkedTo
<1>9. LinksReal'
  <2>1. ASSUME NEW g \in DOMAIN rows' PROVE rows'[g].link \in DOMAIN markets' \cup {None}
    <3>1. CASE g \in agreed
      <4>1. rows'[g] = P[g]
        BY <1>1, <1>4, <3>1, Posted
      <4>2. rows'[g].link = KeptLink(g)
        BY <1>3, <3>1, <4>1
      <4>3. KeptLink(g) \in DOMAIN markets \cup {None}
        BY DEF KeptLink, SeasonInv, LinksReal
      <4> QED BY <1>1, <4>2, <4>3
    <3>2. CASE g \notin agreed
      BY ZenonT(60), <1>1, <1>4, <3>2, Posted DEF SeasonInv, LinksReal
    <3> QED BY <3>1, <3>2
  <2> QED BY <1>1, <2>1 DEF LinksReal
<1> QED BY <1>2, <1>5, <1>8, <1>9 DEF SeasonInv
----------------------------------------------------------------------------
(* The listing stage.                                                      *)
LEMMA ListingThen ==
    ASSUME SeasonInv, tick.stage = "listing"
    PROVE  ListingOK
BY DEF SeasonInv, TickOK, Idle

(* It goes on to the next game.                                            *)
LEMMA NextListed ==
    ASSUME SeasonInv, ListingOK, WorldStays, tick.todo # <<>>, tick' = NextGame,
           \A g \in DOMAIN rows' : g # Head(tick.todo) => g \in DOMAIN rows /\ rows'[g].link = rows[g].link
    PROVE  TickOK' /\ tick'.stage = "listing" /\ tick'.post = "none" /\ tick'.cid = None
<1>1. /\ tick \in ListingTick /\ TableOK(world, tick.rows) /\ tick.todo \in Seq(Games)
      /\ \A g \in Range(tick.todo) : g \in DOMAIN tick.rows /\ Gate(g) /\ Known(g)
      /\ \A i, j \in 1..Len(tick.todo) : tick.todo[i] = tick.todo[j] => i = j
  BY DEF ListingOK, ListingTick
<1>2. /\ tick'.stage = "listing" /\ tick'.post = "none" /\ tick'.cid = None /\ tick'.todo = Tail(tick.todo)
      /\ tick'.rows = tick.rows /\ tick'.linked = tick.linked
      /\ tick' \in ListingTick
  <2>1. Tail(tick.todo) \in Seq(Games)
    BY <1>1
  <2> QED BY <1>1, <2>1 DEF NextGame, ListingTick
<1>3. /\ Len(tick.todo) \in Nat /\ Len(tick.todo) > 0 /\ Len(tick'.todo) = Len(tick.todo) - 1
      /\ Head(tick.todo) = tick.todo[1]
      /\ DOMAIN tick.todo = 1..Len(tick.todo) /\ DOMAIN tick'.todo = 1..Len(tick'.todo)
  BY <1>1, <1>2
<1>4. \A i \in 1..Len(tick'.todo) : tick'.todo[i] = tick.todo[i + 1] /\ i + 1 \in 1..Len(tick.todo) /\ i + 1 # 1
  BY <1>1, <1>2, <1>3
<1>5. ASSUME NEW g \in Range(tick'.todo)
      PROVE  g \in DOMAIN tick'.rows /\ Gate(g)' /\ Known(g)'
  <2>1. PICK i \in 1..Len(tick'.todo) : g = tick'.todo[i]
    BY <1>3 DEF Range
  <2>2. g = tick.todo[i + 1] /\ g \in Range(tick.todo)
    BY <1>3, <1>4, <2>1 DEF Range
  <2>3. g \in DOMAIN tick.rows /\ Gate(g) /\ Known(g)
    BY <1>1, <2>2
  <2>4. g # Head(tick.todo)
    BY <1>1, <1>3, <1>4, <2>1, <2>2
  <2>5. Gate(g)'
    BY <1>2, <2>3 DEF Gate, WorldStays
  <2>6. Known(g)'
    BY <1>2, <2>3, <2>4 DEF Known, WorldStays
  <2> QED BY <1>2, <2>3, <2>5, <2>6
<1>6. \A i, j \in 1..Len(tick'.todo) : tick'.todo[i] = tick'.todo[j] => i = j
  <2>1. ASSUME NEW i \in 1..Len(tick'.todo), NEW j \in 1..Len(tick'.todo), tick'.todo[i] = tick'.todo[j]
        PROVE  i = j
    <3>1. i + 1 = j + 1
      BY <1>1, <1>4, <2>1
    <3> QED BY <3>1
  <2> QED BY <2>1
<1>7. TableOK(world, tick.rows)'
  BY <1>1, <1>2 DEF WorldStays
<1>8. ListingOK'
  BY <1>2, <1>5, <1>6, <1>7 DEF ListingOK
<1> QED BY <1>2, <1>8 DEF TickOK

(* After a game that was not listed.                                       *)
LEMMA AfterFailed ==
    ASSUME SeasonInv, WorldStays, UNCHANGED rows, NEW g, Listing(g), NeedsListing(g), tick' = AfterFailure(g)
    PROVE  TickOK' /\ tick'.stage = "listing" /\ tick'.post # "link" /\ tick'.cid = None
<1>1. ListingOK /\ tick.todo # <<>> /\ g = Head(tick.todo) /\ tick.post = "none"
  BY ListingThen DEF Listing
<1>2. CASE tick' = NextGame
  BY <1>1, <1>2, NextListed
<1>3. CASE tick' = [tick EXCEPT !.post = "clear"]
  <2>1. tick \in ListingTick /\ tick.cid = None
    BY <1>1 DEF ListingOK
  <2>2. /\ tick'.stage = "listing" /\ tick'.post = "clear" /\ tick'.cid = None /\ tick'.todo = tick.todo
        /\ tick'.rows = tick.rows /\ tick'.linked = tick.linked /\ tick' \in ListingTick
    BY SMTT(60), <1>3, <2>1 DEF ListingTick
  <2>3. \A h : (Gate(h) => Gate(h)') /\ (Known(h) => Known(h)') /\ (NeedsListing(h) <=> NeedsListing(h)')
    BY <2>2 DEF Gate, Known, NeedsListing, check_link, WorldStays
  <2>4. NeedsListing(Head(tick.todo))'
    BY <1>1, <2>2 DEF NeedsListing, check_link, WorldStays
  <2>5. TableOK(world, tick.rows)'
    BY <1>1, <2>2 DEF ListingOK, WorldStays
  <2>6. ListingOK'
    BY <1>1, <2>2, <2>3, <2>4, <2>5 DEF ListingOK
  <2> QED BY <2>2, <2>6 DEF TickOK
<1> QED BY <1>2, <1>3 DEF AfterFailure

LEMMA LiveTrustsLink == ASSUME SeasonInv, NEW g \in Games, TrustsLink(g) PROVE SeasonInv'
<1>1. /\ WorldStays /\ UNCHANGED <<rows, markets, dropped>> /\ tick' = NextGame
      /\ tick.stage = "listing" /\ tick.post = "none" /\ tick.todo # <<>>
  BY DEF TrustsLink, Listing, WorldStays
<1>2. TickOK' /\ tick'.cid = None
  BY <1>1, ListingThen, NextListed
<1>3. \A c : ~InHand(c)
  BY <1>1 DEF InHand
<1> QED BY <1>1, <1>2, <1>3, TickStep

LEMMA LiveNotListable == ASSUME SeasonInv, NEW g \in Games, NotListable(g) PROVE SeasonInv'
<1>1. /\ WorldStays /\ UNCHANGED <<rows, markets, dropped>> /\ tick' = AfterFailure(g)
      /\ Listing(g) /\ NeedsListing(g) /\ tick.post = "none"
  BY DEF NotListable, Listing, WorldStays
<1>2. TickOK' /\ tick'.cid = None
  BY <1>1, AfterFailed
<1>3. \A c : ~InHand(c)
  BY <1>1 DEF InHand
<1> QED BY <1>1, <1>2, <1>3, TickStep

(* A market created, or known by its question id.                          *)
LEMMA MarketsCreated ==
    ASSUME SeasonInv, WorldStays, NEW c \in Cids, c.gen = gen, markets' = Created(markets, c)
    PROVE  MarketsOK' /\ DOMAIN markets' = DOMAIN markets \cup {c}
<1>1. /\ DOMAIN markets \subseteq Cids /\ IsFiniteSet(DOMAIN markets) /\ markets \in [DOMAIN markets -> Market]
      /\ \A d \in DOMAIN markets : d.gen <= gen /\ ScoreOK(world, d, markets[d])
  BY DEF SeasonInv, MarketsOK
<1>2. /\ DOMAIN markets' = DOMAIN markets \cup {c}
      /\ markets' = [d \in DOMAIN markets' |-> markets'[d]]
      /\ \A d \in DOMAIN markets' : markets'[d] = IF d \in DOMAIN markets THEN markets[d] ELSE NewMarket
  BY DEF Created
<1>3. IsFiniteSet(DOMAIN markets')
  BY <1>1, <1>2, FS_AddElement
<1>4. NewMarket \in Market /\ NewMarket.score = None
  BY DEF NewMarket, Market
<1>5. gen \in Int
  BY SeasonAssumption DEF SeasonInv, WorldOK
<1>6. \A d \in DOMAIN markets' : d \in Cids /\ markets'[d] \in Market /\ d.gen <= gen /\ ScoreOK(world, d, markets'[d])
  BY <1>1, <1>2, <1>4, <1>5 DEF ScoreOK
<1>7. markets' \in [DOMAIN markets' -> Market]
  BY <1>2, <1>6
<1> QED BY <1>2, <1>3, <1>6, <1>7 DEF MarketsOK, WorldStays

LEMMA Livelist_game == ASSUME SeasonInv, NEW g \in Games, list_game(g) PROVE SeasonInv'
<1> DEFINE c == question_id(g, tick.rows[g].kickoff, gen)
<1>1. /\ WorldStays /\ UNCHANGED rows /\ Listing(g) /\ NeedsListing(g)
      /\ tick.stage = "listing" /\ tick.post = "none" /\ tick.todo # <<>> /\ g = Head(tick.todo)
      /\ \/ /\ markets' = Created(markets, c)
            /\ tick' = [tick EXCEPT !.post = "link", !.cid = c]
            /\ UNCHANGED dropped
         \/ /\ \/ markets' = Created(markets, c) /\ dropped' = dropped \cup {g}
               \/ UNCHANGED <<markets, dropped>>
            /\ tick' = AfterFailure(g)
  BY DEF list_game, Listing, WorldStays
<1>2. ListingOK
  BY <1>1, ListingThen
<1>3. tick \in ListingTick /\ TableOK(world, tick.rows) /\ g \in DOMAIN tick.rows
  <2>1. tick \in ListingTick /\ TableOK(world, tick.rows) /\ \A h \in Range(tick.todo) : h \in DOMAIN tick.rows
    BY <1>2 DEF ListingOK
  <2>2. tick.todo \in Seq(Games)
    BY <2>1 DEF ListingTick
  <2>3. g \in Range(tick.todo)
    BY <1>1, <2>2 DEF Range
  <2> QED BY <2>1, <2>3
<1>4. c \in Cids /\ c.gen = gen /\ c.game = g
  <2>1. tick.rows[g].kickoff \in Kickoffs[g] /\ tick.rows[g].kickoff \in Int
    BY <1>3 DEF TableOK, RowOK, Tables, Row
  <2>2. gen \in 0..MaxGen
    BY DEF SeasonInv, WorldOK
  <2> QED BY <2>1, <2>2 DEF question_id, Cids
<1> HIDE DEF c
<1>5. WorldOK'
  BY <1>1, WorldKept DEF SeasonInv, WorldOK
<1>6. TableOK(world, rows)'
  BY <1>1 DEF SeasonInv, WorldStays
<1>7. NoTwin /\ \A d : ~InHand(d)
  BY <1>1 DEF SeasonInv, InHand
<1>8. ASSUME markets' = Created(markets, c) PROVE MarketsOK' /\ DOMAIN markets' = DOMAIN markets \cup {c}
  BY <1>1, <1>4, <1>8, MarketsCreated
<1>9. CASE markets' = Created(markets, c) /\ tick' = [tick EXCEPT !.post = "link", !.cid = c] /\ UNCHANGED dropped
  <2>1. /\ tick'.stage = "listing" /\ tick'.post = "link" /\ tick'.cid = c /\ tick'.todo = tick.todo
        /\ tick'.rows = tick.rows /\ tick'.linked = tick.linked /\ tick' \in ListingTick
    BY <1>1, <1>3, <1>4, <1>9 DEF ListingTick
  <2>2. \A h : (Gate(h) => Gate(h)') /\ (Known(h) => Known(h)')
    BY <1>1, <2>1 DEF Gate, Known, WorldStays
  <2>3. NeedsListing(Head(tick.todo))'
    BY <1>1, <2>1 DEF NeedsListing, check_link, WorldStays
  <2>4. TableOK(world, tick.rows)'
    BY <1>1, <1>3, <2>1 DEF WorldStays
  <2>5. c # None
    BY <1>4, SeasonAssumption DEF Cids, question_id
  <2>6. ListingOK'
    BY <1>1, <1>2, <1>4, <2>1, <2>2, <2>3, <2>4, <2>5 DEF ListingOK
  <2>7. NoTwin'
    <3>1. ASSUME NEW d \in DOMAIN markets', d.gen = gen, d.game \notin dropped PROVE LinkedTo(d)' \/ InHand(d)'
      <4>1. CASE d \in DOMAIN markets
        BY <1>1, <1>7, <3>1, <4>1 DEF NoTwin, LinkedTo
      <4>2. CASE d = c
        <5>1. InHand(d)'
          BY <1>1, <1>4, <2>1, <4>2 DEF InHand
        <5> QED BY <5>1
      <4> QED BY <1>8, <1>9, <4>1, <4>2
    <3> QED BY <1>1, <1>9, <3>1 DEF NoTwin, WorldStays
  <2>8. LinksReal'
    BY <1>1, <1>8, <1>9, <2>1 DEF LinksReal, SeasonInv
  <2> QED BY <1>5, <1>6, <1>8, <1>9, <2>6, <2>7, <2>8 DEF SeasonInv, TickOK
<1>10. CASE /\ tick' = AfterFailure(g)
            /\ \/ markets' = Created(markets, c) /\ dropped' = dropped \cup {g}
               \/ UNCHANGED <<markets, dropped>>
  <2>1. TickOK' /\ tick'.cid = None
    BY <1>1, <1>10, AfterFailed
  <2>2. DOMAIN markets \subseteq DOMAIN markets' /\ MarketsOK'
    BY <1>1, <1>8, <1>10 DEF SeasonInv, MarketsOK, WorldStays
  <2>3. LinksReal'
    BY <1>1, <2>1, <2>2, LinksRealKept DEF SeasonInv
  <2>4. NoTwin'
    <3>1. ASSUME NEW d \in DOMAIN markets', d.gen = gen, d.game \notin dropped' PROVE LinkedTo(d)'
      <4>1. d \in DOMAIN markets /\ d.game \notin dropped
        BY <1>4, <1>8, <1>10, <3>1
      <4> QED BY <1>1, <1>7, <3>1, <4>1 DEF NoTwin, LinkedTo
    <3> QED BY <1>1, <3>1 DEF NoTwin, WorldStays
  <2>5. WorldOK'
    BY <1>1, <1>10, WorldKept DEF SeasonInv, WorldOK
  <2> QED BY <1>6, <2>1, <2>2, <2>3, <2>4, <2>5 DEF SeasonInv
<1> QED BY <1>1, <1>9, <1>10

(* While a game is being listed the row on file has no link to the oracle  *)
(* of the configuration.                                                   *)
LEMMA NotYetLinked ==
    ASSUME SeasonInv, ListingOK, tick.todo # <<>>, NEW g, g = Head(tick.todo), NeedsListing(g)
    PROVE  ~(g \in DOMAIN rows /\ rows[g].link # None /\ rows[g].link.gen = gen)
<1>1. tick.todo \in Seq(Games)
  BY DEF ListingOK, ListingTick
<1>2. g \in Range(tick.todo)
  BY <1>1 DEF Range
<1>3. Known(g)
  BY <1>2 DEF ListingOK
<1> QED BY <1>3 DEF Known, NeedsListing, check_link

LEMMA LivePostRow == ASSUME SeasonInv, PostRow PROVE SeasonInv'
<1> DEFINE g == Head(tick.todo)
           P == [h \in {g} |-> _schedule_body(h)]
<1>1. /\ WorldStays /\ UNCHANGED markets /\ tick' = NextGame /\ tick.stage = "listing" /\ tick.post # "none"
      /\ \/ upsert_schedule(P) /\ UNCHANGED dropped
         \/ /\ dropped' = IF tick.post = "link" THEN dropped \cup {g} ELSE dropped
            /\ UNCHANGED rows
  BY DEF PostRow, WorldStays
<1>2. ListingOK
  BY <1>1, ListingThen
<1>3. /\ tick \in ListingTick /\ TableOK(world, tick.rows) /\ tick.todo # <<>> /\ NeedsListing(g)
      /\ tick.post = "link" => tick.cid # None /\ tick.cid.game = g
      /\ tick.post # "link" => tick.cid = None
  BY <1>1, <1>2 DEF ListingOK
<1>4. tick.todo \in Seq(Games) /\ g \in Range(tick.todo)
  BY <1>3 DEF ListingTick, Range
<1>5. g \in DOMAIN tick.rows /\ g \in Games
  BY <1>2, <1>4 DEF ListingOK, TableOK, Tables
<1>6. P[g] \in Row /\ RowOK(world, g, P[g]) /\ P[g].link = tick.cid /\ DOMAIN P = {g}
  <2>1. tick.rows[g] \in Row /\ RowOK(world, g, tick.rows[g]) /\ tick.cid \in Cids \cup {None}
    BY <1>3, <1>5 DEF TableOK, Tables, ListingTick
  <2>2. P[g] = [tick.rows[g] EXCEPT !.link = tick.cid] /\ DOMAIN P = {g}
    BY DEF _schedule_body
  <2> HIDE DEF P, g
  <2>3. P[g] \in Row /\ P[g].link = tick.cid /\ P[g].kickoff = tick.rows[g].kickoff /\ P[g].status = tick.rows[g].status
    BY <2>1, <2>2 DEF Row
  <2> QED BY <1>3, <2>1, <2>2, <2>3 DEF RowOK
<1>7. ~(g \in DOMAIN rows /\ rows[g].link # None /\ rows[g].link.gen = gen)
  BY <1>2, <1>3, NotYetLinked
<1> HIDE DEF P, g
<1>8. ASSUME upsert_schedule(P)
       PROVE  /\ DOMAIN rows' = DOMAIN rows \cup {g} /\ rows'[g].link = tick.cid
              /\ \A h \in DOMAIN rows : h # g => rows'[h] = rows[h]
  <2>1. /\ DOMAIN rows' = DOMAIN rows \cup DOMAIN P
        /\ \A h \in DOMAIN P : rows'[h] = P[h]
        /\ \A h \in DOMAIN rows : h \notin DOMAIN P => rows'[h] = rows[h]
    BY <1>8, Posted
  <2> QED BY <1>6, <2>1
<1>9. \A h \in DOMAIN rows' : h # g => h \in DOMAIN rows /\ rows'[h].link = rows[h].link
  <2>1. CASE upsert_schedule(P)
    BY <1>8, <2>1
  <2> QED BY <1>1, <2>1
<1>10. TickOK' /\ tick'.cid = None
  BY <1>1, <1>2, <1>3, <1>9, NextListed DEF g
<1>11. MarketsOK'
  BY <1>1 DEF SeasonInv, MarketsOK, WorldStays
<1>12. TableOK(world, rows)'
  <2>1. CASE upsert_schedule(P)
    BY <1>1, <1>5, <1>6, <2>1, TablePosted DEF SeasonInv, WorldStays
  <2>2. CASE UNCHANGED rows
    BY <1>1, <2>2 DEF SeasonInv, WorldStays
  <2> QED BY <1>1, <2>1, <2>2
<1>13. WorldOK'
  <2>1. dropped' \subseteq Games
    BY <1>1, <1>5 DEF SeasonInv, WorldOK
  <2> QED BY <1>1, <2>1, WorldKept DEF SeasonInv
<1>14. LinksReal'
  <2>1. tick.cid \in DOMAIN markets \cup {None} /\ \A h \in DOMAIN rows : rows[h].link \in DOMAIN markets \cup {None}
    BY <1>1 DEF SeasonInv, LinksReal
  <2>2. \A h \in DOMAIN rows' : rows'[h].link \in DOMAIN markets \cup {None}
    <3>1. CASE upsert_schedule(P)
      BY <1>8, <2>1, <3>1
    <3> QED BY <1>1, <2>1, <3>1
  <2> QED BY <1>1, <1>10, <2>2 DEF LinksReal
<1>15. NoTwin'
  <2>1. ASSUME NEW c \in DOMAIN markets, c.gen = gen, c.game \notin dropped' PROVE LinkedTo(c)'
    <3>1. c.game \notin dropped /\ c # None
      <4>1. c \in Cids
        BY DEF SeasonInv, MarketsOK
      <4>2. c # None
        BY <4>1, SeasonAssumption DEF Cids, question_id
      <4> QED BY <1>1, <2>1, <4>2
    <3>2. LinkedTo(c) \/ InHand(c)
      BY <2>1, <3>1 DEF SeasonInv, NoTwin
    <3>3. CASE LinkedTo(c)
      <4>1. c.game # g
        BY <1>7, <2>1, <3>1, <3>3 DEF LinkedTo
      <4>2. CASE upsert_schedule(P)
        BY <1>8, <3>3, <4>1, <4>2 DEF LinkedTo
      <4> QED BY <1>1, <3>3, <4>2 DEF LinkedTo
    <3>4. CASE InHand(c)
      <4>1. c.game = g /\ tick.cid = c /\ tick.post = "link"
        BY <3>4 DEF InHand, g
      <4>2. CASE upsert_schedule(P)
        BY <1>8, <4>1, <4>2 DEF LinkedTo
      <4> QED BY <1>1, <2>1, <4>1, <4>2
    <3> QED BY <3>2, <3>3, <3>4
  <2> QED BY <1>1, <2>1 DEF NoTwin, WorldStays
<1> QED BY <1>10, <1>11, <1>12, <1>13, <1>14, <1>15 DEF SeasonInv

LEMMA LiveEnded == ASSUME SeasonInv, Ended PROVE SeasonInv'
<1>1. /\ WorldStays /\ UNCHANGED <<rows, markets>> /\ tick' = Idle
      /\ dropped' = dropped \cup
             IF tick.stage = "listing" /\ tick.post = "link" THEN {Head(tick.todo)} ELSE {}
  BY DEF Ended, WorldStays
<1>2. TickOK' /\ tick'.stage # "listing"
  BY <1>1 DEF TickOK, Idle
<1>3. MarketsOK' /\ TableOK(world, rows)'
  BY <1>1 DEF SeasonInv, MarketsOK, WorldStays
<1>4. LinksReal'
  BY <1>1, <1>2, LinksRealKept DEF SeasonInv
<1>5. WorldOK'
  <2>1. CASE tick.stage = "listing" /\ tick.post = "link"
    <3>1. ListingOK
      BY <2>1, ListingThen
    <3>2. tick.todo \in Seq(Games) /\ tick.todo # <<>>
      BY <2>1, <3>1 DEF ListingOK, ListingTick
    <3>3. Head(tick.todo) \in Games
      BY <3>2
    <3>4. dropped' \subseteq Games
      BY <1>1, <3>3 DEF SeasonInv, WorldOK
    <3> QED BY <1>1, <3>4, WorldKept DEF SeasonInv
  <2>2. CASE ~(tick.stage = "listing" /\ tick.post = "link")
    <3>1. dropped' \subseteq Games
      BY <1>1, <2>2 DEF SeasonInv, WorldOK
    <3> QED BY <1>1, <3>1, WorldKept DEF SeasonInv
  <2> QED BY <2>1, <2>2
<1>6. NoTwin'
  <2>1. ASSUME NEW c \in DOMAIN markets, c.gen = gen, c.game \notin dropped' PROVE LinkedTo(c)'
    <3>1. ~InHand(c) /\ c.game \notin dropped
      BY <1>1, <2>1 DEF InHand
    <3>2. LinkedTo(c)
      BY <2>1, <3>1 DEF SeasonInv, NoTwin
    <3> QED BY <1>1, <3>2 DEF LinkedTo
  <2> QED BY <1>1, <2>1 DEF NoTwin, WorldStays
<1> QED BY <1>2, <1>3, <1>4, <1>5, <1>6 DEF SeasonInv

(* The market of a row: of the row's own game, whether it is linked or     *)
(* found by its question and kickoff.                                      *)
LEMMA ListedMarket ==
    ASSUME SeasonInv, NEW g \in DOMAIN rows
    PROVE  /\ _listed_cid(g) \in DOMAIN markets \cup {None}
           /\ _listed_cid(g) # None => _listed_cid(g).game = g
           /\ rows[g].link # None => _listed_cid(g) = rows[g].link
<1> DEFINE cards == {c \in list_markets : Question[c.game] = Question[g] /\ c.close = rows[g].kickoff}
<1>1. rows[g].link \in DOMAIN markets \cup {None} /\ (rows[g].link # None => rows[g].link.game = g)
  BY DEF SeasonInv, LinksReal, TableOK, RowOK
<1>2. CASE rows[g].link # None
  BY <1>1, <1>2 DEF _listed_cid
<1>3. CASE rows[g].link = None /\ cards = {}
  BY <1>3 DEF _listed_cid
<1>4. CASE rows[g].link = None /\ cards # {}
  <2>1. _listed_cid(g) = CHOOSE c \in cards : \A d \in cards : c.gen <= d.gen
    BY <1>4 DEF _listed_cid
  <2>2. cards \subseteq DOMAIN markets /\ DOMAIN markets \subseteq Cids
    BY DEF list_markets, SeasonInv, MarketsOK
  <2>3. \A c \in cards : c.game \in Games /\ c.gen \in 0..MaxGen /\ c.close \in Kickoffs[c.game]
    BY <2>2 DEF Cids
  <2>4. \E c \in cards : \A d \in cards : c.gen <= d.gen
    <3> DEFINE gens == {c.gen : c \in cards}
    <3>1. gens \subseteq 0..MaxGen /\ gens # {}
      BY <1>4, <2>3
    <3>2. IsFiniteSet(gens) /\ gens \subseteq Int
      <4>1. MaxGen \in Nat
        BY SeasonAssumption
      <4>2. IsFiniteSet(0..MaxGen)
        BY <4>1, FS_Interval
      <4> HIDE DEF gens
      <4>3. IsFiniteSet(gens)
        BY <3>1, <4>2, FS_Subset, Zenon
      <4> QED BY <3>1, <4>1, <4>3
    <3>3. PICK n \in gens : \A m \in gens : n <= m
      <4> HIDE DEF gens
      <4> QED BY <3>1, <3>2, LeastOfNumbers
    <3>4. PICK c \in cards : n = c.gen
      OBVIOUS
    <3> QED BY <3>3, <3>4
  <2>5. _listed_cid(g) \in cards
    <3> HIDE DEF cards
    <3> QED BY <2>1, <2>4
  <2>6. \A c \in cards : c.game = g
    <3>1. ASSUME NEW c \in cards, c.game # g PROVE FALSE
      <4>1. g \in Games /\ rows[g].kickoff \in Kickoffs[g]
        BY DEF SeasonInv, TableOK, Tables, RowOK
      <4>2. Question[c.game] = Question[g] /\ c.close = rows[g].kickoff
        OBVIOUS
      <4>3. Abs(c.close - rows[g].kickoff) > Tolerance
        BY <2>3, <3>1, <4>1, <4>2, SeasonAssumption
      <4>4. c.close \in Int /\ Tolerance \in Nat
        BY <2>3, SeasonAssumption
      <4> QED BY <4>2, <4>3, <4>4 DEF Abs
    <3> QED BY <3>1
  <2> QED BY <1>4, <2>2, <2>5, <2>6
<1> QED BY <1>2, <1>3, <1>4

(* A week that blocks nothing is over, or overdue.                         *)
LEMMA WeekOver ==
    ASSUME SeasonInv, NEW unread, NEW week, _blocking_games(week, unread) = {},
           NEW h \in DOMAIN rows, Week[h] = week
    PROVE  world[h].over \/ rows[h].kickoff + Grace < now
<1>1. _game_status(h, unread) \in DONE_STATUSES \/ _stale(h, _game_status(h, unread))
  BY DEF _blocking_games
<1>2. CASE _stale(h, _game_status(h, unread))
  BY <1>2 DEF _stale
<1>3. CASE _game_status(h, unread) \in DONE_STATUSES
  <2> DEFINE c == _listed_cid(h)
  <2>1. c \in DOMAIN markets \cup {None} /\ (c # None => c.game = h)
    BY ListedMarket
  <2>2. rows[h].status \in DONE_STATUSES => world[h].over
    BY DEF SeasonInv, TableOK, RowOK
  <2>3. ASSUME c # None, markets[c].score # None, markets[c].score.status \in DONE_STATUSES PROVE world[h].over
    <3>1. ScoreOK(world, c, markets[c])
      BY <2>1, <2>3 DEF SeasonInv, MarketsOK
    <3> QED BY <2>1, <2>3, <3>1 DEF ScoreOK
  <2>4. \/ _game_status(h, unread) = rows[h].status
        \/ c # None /\ markets[c].score # None /\ _game_status(h, unread) = markets[c].score.status
    BY DEF _game_status, get_market
  <2> QED BY <1>3, <2>2, <2>3, <2>4
<1> QED BY <1>1, <1>2, <1>3

LEMMA LiveListingReads == ASSUME SeasonInv, NEW unread, ListingReads(unread) PROVE SeasonInv'
<1> DEFINE S == NextWeekGames(unread)
           L == InOrder(NextWeekGames(unread), SoonerGame)
<1>1. /\ WorldStays /\ UNCHANGED <<rows, markets, dropped>> /\ tick.stage = "schedule"
      /\ tick' = [stage |-> "listing", post |-> "none", cid |-> None, todo |-> L, rows |-> rows,
                   linked |-> [g \in DOMAIN rows |-> _listed_cid(g)]]
  BY DEF ListingReads, WorldStays
<1>2. DOMAIN rows \subseteq Games /\ TableOK(world, rows) /\ \A g \in DOMAIN rows : rows[g].kickoff \in Int
  BY DEF SeasonInv, TableOK, Tables, Row
<1>3. \A g \in Games : Week[g] \in Int
  BY SeasonAssumption, Zenon
<1>4. S \subseteq DOMAIN rows
  BY DEF NextWeekGames
<1>5. L \in Seq(S) /\ \A i, j \in 1..Len(L) : L[i] = L[j] => i = j
  <2> HIDE DEF S
  <2>1. InOrder(S, SoonerGame) \in Seq(S) /\ \A i, j \in 1..Len(InOrder(S, SoonerGame)) :
            InOrder(S, SoonerGame)[i] = InOrder(S, SoonerGame)[j] => i = j
    BY <1>2, <1>3, <1>4, SoonerListed
  <2> QED BY <2>1 DEF S
<1>6. \A g \in DOMAIN rows : _listed_cid(g) \in Cids \cup {None}
  BY ListedMarket DEF SeasonInv, MarketsOK
<1> HIDE DEF L
<1>7. /\ tick'.stage = "listing" /\ tick'.post = "none" /\ tick'.cid = None /\ tick'.todo = L
      /\ tick'.rows = rows /\ tick'.linked = [g \in DOMAIN rows |-> _listed_cid(g)]
  BY <1>1
<1>8. tick' \in ListingTick
  <2>1. L \in Seq(Games)
    BY <1>2, <1>4, <1>5
  <2>2. [g \in DOMAIN rows |-> _listed_cid(g)] \in UNION {[T -> Cids \cup {None}] : T \in SUBSET Games}
    BY <1>2, <1>6
  <2>3. rows \in Tables
    BY <1>2 DEF TableOK
  <2> QED BY <1>1, <2>1, <2>2, <2>3 DEF ListingTick
<1>9. ASSUME NEW g \in Range(tick'.todo)
      PROVE  g \in DOMAIN tick'.rows /\ Gate(g)' /\ Known(g)'
  <2>1. g \in S
    BY <1>5, <1>7 DEF Range
  <2>2. g \in DOMAIN rows /\ _blocking_games(Week[g] - 1, unread) = {}
    BY <2>1 DEF NextWeekGames
  <2>3. Gate(g)'
    <3>1. \A h \in DOMAIN rows : Week[h] = Week[g] - 1 => world[h].over \/ rows[h].kickoff + Grace < now
      BY <2>2, WeekOver
    <3> QED BY <1>1, <1>7, <3>1 DEF Gate, WorldStays
  <2>4. Known(g)'
    <3>1. rows[g].link # None => _listed_cid(g) = rows[g].link
      BY <2>2, ListedMarket
    <3> QED BY <1>1, <1>7, <2>2, <3>1 DEF Known, WorldStays
  <2> QED BY <1>7, <2>2, <2>3, <2>4
<1>10. ListingOK'
  <2>1. \A i, j \in 1..Len(tick'.todo) : tick'.todo[i] = tick'.todo[j] => i = j
    BY <1>5, <1>7
  <2>2. TableOK(world, tick.rows)'
    BY <1>1, <1>2, <1>7 DEF WorldStays
  <2> QED BY <1>7, <1>8, <1>9, <2>1, <2>2 DEF ListingOK
<1>11. \A c : ~InHand(c)
  BY <1>1 DEF InHand
<1> QED BY <1>1, <1>7, <1>10, <1>11, TickStep DEF TickOK
----------------------------------------------------------------------------
LEMMA NextKeepsSeason == ASSUME SeasonInv, [Next]_vars PROVE SeasonInv'
<1>1. ASSUME NEW g \in Games, Played(g) PROVE SeasonInv'
  BY <1>1, LivePlayed
<1>2. ASSUME NEW g \in Games, NEW s \in {"postponed", "cancelled"}, CalledOff(g, s) PROVE SeasonInv'
  BY <1>2, LiveCalledOff
<1>3. ASSUME NEW g \in Games, NEW k \in Kickoffs[g], Moved(g, k) PROVE SeasonInv'
  BY <1>3, LiveMoved
<1>4. ASSUME NEW g \in Games, TrustsLink(g) PROVE SeasonInv'
  BY <1>4, LiveTrustsLink
<1>5. ASSUME NEW g \in Games, NotListable(g) PROVE SeasonInv'
  BY <1>5, LiveNotListable
<1>6. ASSUME NEW g \in Games, list_game(g) PROVE SeasonInv'
  BY <1>6, Livelist_game
<1>7. ASSUME NEW c \in DOMAIN markets, Resolved(c) PROVE SeasonInv'
  BY <1>7, LiveResolved
<1>8. ASSUME NEW c \in DOMAIN markets, pause_market(c) PROVE SeasonInv'
  BY <1>8, Livepause_market
<1>9. ASSUME NEW c \in DOMAIN markets, archive_market(c) PROVE SeasonInv'
  BY <1>9, Livearchive_market
<1>10. ASSUME NEW unread, run_job(unread) PROVE SeasonInv'
  BY <1>10, Liverun_job
<1>11. ASSUME NEW unread, ListingReads(unread) PROVE SeasonInv'
  BY <1>11, LiveListingReads
<1>12. ASSUME NEW agreed \in agreed_games, ScheduleScouted(agreed) PROVE SeasonInv'
  BY <1>12, LiveScheduleScouted
<1>13. CASE Redeploy
  BY <1>13, LiveRedeploy
<1>14. CASE TimePasses
  BY SMTT(60), <1>14, LiveTimePasses
<1>15. CASE auth_preflightFails
  BY <1>15, Liveauth_preflightFails
<1>16. CASE Scouted
  BY <1>16, LiveScouted
<1>17. CASE PostRow
  BY <1>17, LivePostRow
<1>18. CASE Finished
  BY <1>18, LiveFinished
<1>19. CASE Ended
  BY <1>19, LiveEnded
<1>20. CASE UNCHANGED vars
  BY <1>20 DEF vars, SeasonInv, WorldOK, MarketsOK, TableOK, TickOK, ListingOK, Gate, Known, NeedsListing,
               check_link, NoTwin, LinkedTo, InHand, LinksReal
<1> QED
  BY <1>1, <1>2, <1>3, <1>4, <1>5, <1>6, <1>7, <1>8, <1>9, <1>10, <1>11, <1>12, <1>13, <1>14, <1>15, <1>16,
     <1>17, <1>18, <1>19, <1>20, Zenon DEF Next

(* The invariant of the season, with its types: scores and rows tell of    *)
(* their own games, each row is linked to a market of its game that is     *)
(* there, the listing stage holds only games of weeks that follow one that *)
(* is over, and a market of the configured oracle is linked or its link    *)
(* was dropped (oracles/job.py, backend/app/markets/router.py).            *)
THEOREM SeasonInvariant == Spec => []SeasonInv
<1>1. Init => SeasonInv
  BY SeasonInit
<1>2. SeasonInv /\ [Next]_vars => SeasonInv'
  BY NextKeepsSeason
<1> QED BY <1>1, <1>2, PTL DEF Spec

(* A final score is of a game that has been played, on the market's own    *)
(* date: no number of agents who pick up an earlier meeting of the teams   *)
(* settles it (scores/scout.py, check_game_date).                          *)
THEOREM ScoresOfTheirGames == Spec => []ScoreOfThisGame
<1>1. SeasonInv => ScoreOfThisGame
  BY DEF SeasonInv, MarketsOK, ScoreOK, ScoreOfThisGame
<1> QED BY <1>1, SeasonInvariant, PTL

(* Two markets of a game on one oracle mean a link that was dropped: a     *)
(* moved kickoff lists no game again (listing/run.py, list_game).          *)
THEOREM DuplicatesOnlyIfUnlinked == Spec => []DuplicateOnlyIfUnlinked
<1>1. SeasonInv => DuplicateOnlyIfUnlinked
  <2> SUFFICES ASSUME SeasonInv, NEW c \in DOMAIN markets, NEW d \in DOMAIN markets,
                      c.gen = gen, d.gen = gen, c.game = d.game, c.game \notin dropped
               PROVE  c = d
    BY DEF DuplicateOnlyIfUnlinked
  <2>1. (LinkedTo(c) \/ InHand(c)) /\ (LinkedTo(d) \/ InHand(d))
    BY DEF SeasonInv, NoTwin
  <2>2. c # None /\ d # None
    <3>1. c \in Cids /\ d \in Cids
      BY DEF SeasonInv, MarketsOK
    <3> QED BY <3>1, SeasonAssumption DEF Cids, question_id
  <2>3. ASSUME NEW e, InHand(e)
        PROVE  ~(e.game \in DOMAIN rows /\ rows[e.game].link # None /\ rows[e.game].link.gen = gen)
    <3>1. ListingOK /\ tick.post = "link" /\ e.game = Head(tick.todo)
      BY <2>3, ListingThen DEF InHand
    <3>2. tick.todo # <<>> /\ NeedsListing(Head(tick.todo))
      BY <3>1 DEF ListingOK
    <3> QED BY <3>1, <3>2, NotYetLinked
  <2>4. CASE LinkedTo(c) /\ LinkedTo(d)
    BY <2>4 DEF LinkedTo
  <2>5. CASE InHand(c) /\ InHand(d)
    BY <2>5 DEF InHand
  <2>6. CASE InHand(c) /\ LinkedTo(d)
    BY <2>2, <2>3, <2>6 DEF LinkedTo
  <2>7. CASE LinkedTo(c) /\ InHand(d)
    BY <2>2, <2>3, <2>7 DEF LinkedTo
  <2> QED BY <2>1, <2>4, <2>5, <2>6, <2>7
<1> QED BY <1>1, SeasonInvariant, PTL

(* Only the listing stage creates a market.                                *)
LEMMA OnlyListed ==
    ASSUME SeasonInv, [Next]_vars, NEW c \in DOMAIN markets' \ DOMAIN markets
    PROVE  \E g \in Games : list_game(g) /\ c = question_id(g, tick.rows[g].kickoff, gen)
<1>1. CASE \E g \in Games : list_game(g)
  <2>1. PICK g \in Games : list_game(g)
    BY <1>1
  <2>2. markets' = Created(markets, question_id(g, tick.rows[g].kickoff, gen)) \/ UNCHANGED markets
    BY <2>1 DEF list_game
  <2>3. DOMAIN markets' \subseteq DOMAIN markets \cup {question_id(g, tick.rows[g].kickoff, gen)}
    BY <2>2 DEF Created
  <2> QED BY <2>1, <2>3
<1>2. CASE ~\E g \in Games : list_game(g)
  <2>1. DOMAIN markets' = DOMAIN markets
    BY <1>2, ZenonT(60) DEF Next, vars, Played, CalledOff, Moved, TrustsLink, NotListable, Resolved, pause_market, archive_market,
       run_job, ListingReads, ScheduleScouted, Redeploy, TimePasses, auth_preflightFails, Scouted, publish_score,
       upsert_score, PostRow, Finished, Ended
  <2> QED BY <2>1
<1> QED BY <1>1, <1>2

(* A market of next week is created only when each game of this week that  *)
(* is on the schedule has been over, or its row is overdue by more than    *)
(* the grace, whatever scores and links the stage read (listing/run.py,    *)
(* week_complete).                                                         *)
THEOREM WeekGates == Spec => WeekGate
<1>1. SeasonInv /\ [Next]_vars =>
        [\A c \in DOMAIN markets' \ DOMAIN markets :
            \A h \in DOMAIN tick.rows :
                Week[h] = Week[c.game] - 1 => world[h].over \/ tick.rows[h].kickoff + Grace < now]_vars
  <2> SUFFICES ASSUME SeasonInv, [Next]_vars, NEW c \in DOMAIN markets' \ DOMAIN markets,
                      NEW h \in DOMAIN tick.rows, Week[h] = Week[c.game] - 1
               PROVE  world[h].over \/ tick.rows[h].kickoff + Grace < now
    OBVIOUS
  <2>1. PICK g \in Games : list_game(g) /\ c = question_id(g, tick.rows[g].kickoff, gen)
    BY OnlyListed
  <2>2. ListingOK /\ tick.todo # <<>> /\ g = Head(tick.todo)
    BY <2>1, ListingThen DEF list_game, Listing
  <2>3. g \in Range(tick.todo)
    <3>1. tick.todo \in Seq(Games)
      BY <2>2 DEF ListingOK, ListingTick
    <3> QED BY <2>2, <3>1 DEF Range
  <2>4. Gate(g) /\ c.game = g
    BY <2>1, <2>2, <2>3 DEF ListingOK, question_id
  <2> QED BY <2>4 DEF Gate
<1> QED BY <1>1, SeasonInvariant, PTL DEF Spec, WeekGate
----------------------------------------------------------------------------
(* The rotation of the backlog.                                            *)
(* The remainder of a division is the one that is small enough.            *)
LEMMA Remainder ==
    ASSUME NEW n \in Nat, n > 0, NEW q \in Int, NEW r \in 0..(n - 1)
    PROVE  (n * q + r) % n = r
<1> DEFINE m == n * q + r
           u == m \div n
           s == m % n
<1>1. m \in Int /\ u \in Int /\ s \in 0..(n - 1) /\ m = n * u + s
  OBVIOUS
<1> HIDE DEF u, s
<1>2. n * (u - q) = r - s
  BY <1>1
<1>3. u - q = 0
  <2> DEFINE d == u - q
  <2>1. d \in Int
    BY <1>1
  <2>2. n * d < n /\ n * d > -n
    BY <1>1, <1>2
  <2> HIDE DEF d
  <2>3. d >= 1 => n * d >= n
    BY <2>1
  <2>4. d <= -1 => n * d <= -n
    BY <2>1
  <2>5. d = 0
    BY <2>1, <2>2, <2>3, <2>4
  <2> QED BY <2>5 DEF d
<1>4. r = s
  BY <1>1, <1>2, <1>3
<1> QED BY <1>4 DEF s

LEMMA SomeTurn ==
    ASSUME NEW n \in Nat, n > 0, NEW t \in Nat, NEW k \in 0..(n - 1)
    PROVE  \E i \in 0..(n - 1) : (t + i) % n = k
<1> DEFINE q == t \div n
           r == t % n
<1>1. q \in Int /\ r \in 0..(n - 1) /\ t = n * q + r
  OBVIOUS
<1> HIDE DEF q, r
<1>2. CASE r <= k
  <2>1. k - r \in 0..(n - 1) /\ t + (k - r) = n * q + k
    BY <1>1, <1>2
  <2>2. (t + (k - r)) % n = k
    BY <1>1, <2>1, Remainder
  <2> QED BY <2>1, <2>2
<1>3. CASE r > k
  <2>1. n + k - r \in 0..(n - 1) /\ t + (n + k - r) = n * (q + 1) + k /\ q + 1 \in Int
    BY <1>1, <1>3
  <2>2. (t + (n + k - r)) % n = k
    BY <1>1, <2>1, Remainder
  <2> QED BY <2>1, <2>2
<1> QED BY <1>1, <1>2, <1>3

(* Markets in the order in which they are scouted.                         *)
EarlierPairs(S) == {p \in S \X S : Earlier(p[1], p[2])}

LEMMA EarlierListed ==
    ASSUME NEW S, S \subseteq Cids, IsFiniteSet(S)
    PROVE  /\ InOrder(S, Earlier) \in Seq(S) /\ Len(InOrder(S, Earlier)) = Cardinality(S)
           /\ \A x \in S : \E i \in 1..Cardinality(S) : InOrder(S, Earlier)[i] = x
<1> DEFINE R == EarlierPairs(S)
           f == InOrder(S, Earlier)
<1>1. \A x, y \in S : <<x, y>> \in R <=> Earlier(x, y)
  BY DEF EarlierPairs
<1>2. \A c \in S : c.game \in Int /\ c.close \in Int /\ c.gen \in Int
  <2>1. Games \subseteq Nat /\ MaxGen \in Nat
    BY SeasonAssumption, Zenon
  <2> HIDE DEF R, f
  <2>2. ASSUME NEW c \in S PROVE c.game \in Int /\ c.close \in Int /\ c.gen \in Int
    <3>1. c.game \in Games /\ c.close \in Int /\ c.gen \in 0..MaxGen
      BY DEF Cids
    <3>2. c.game \in Nat
      BY <2>1, <3>1, Zenon
    <3> QED BY <2>1, <3>1, <3>2
  <2> QED BY <2>2
<1>3. \A c, d \in S : c.game = d.game /\ c.close = d.close /\ c.gen = d.gen => c = d
  <2> HIDE DEF R, f
  <2> QED BY DEF Cids
<1>4. Orders(R, S)
  <2> HIDE DEF R
  <2>1. \A x \in S : ~Earlier(x, x)
    BY <1>2 DEF Earlier
  <2>2. \A x, y \in S : x # y => Earlier(x, y) \/ Earlier(y, x)
    BY <1>2, <1>3 DEF Earlier
  <2>3. \A x, y, z \in S : Earlier(x, y) /\ Earlier(y, z) => Earlier(x, z)
    BY <1>2 DEF Earlier
  <2> QED BY <1>1, <2>1, <2>2, <2>3 DEF Orders
<1>5. \A x \in S : Cardinality({y \in S : Earlier(y, x)}) = Rank(S, R, x)
  <2>1. \A x \in S : {y \in S : Earlier(y, x)} = Below(S, R, x)
    <3> HIDE DEF R
    <3> QED BY <1>1 DEF Below
  <2> QED BY <2>1 DEF Rank
<1>6. f = [i \in 1..Cardinality(S) |-> CHOOSE x \in S : Cardinality({y \in S : Earlier(y, x)}) = i - 1]
  BY DEF InOrder
<1>7. ListsIn(f, S, R)
  <2> HIDE DEF R, f
  <2>1. ASSUME NEW i \in 1..Cardinality(S) PROVE f[i] \in S /\ Rank(S, R, f[i]) = i - 1
    <3>1. \E x \in S : Cardinality({y \in S : Earlier(y, x)}) = i - 1
      BY <1>4, <1>5, RanksAll
    <3>2. f[i] = CHOOSE x \in S : Cardinality({y \in S : Earlier(y, x)}) = i - 1
      BY <1>6
    <3>3. f[i] \in S /\ Cardinality({y \in S : Earlier(y, f[i])}) = i - 1
      BY <3>1, <3>2
    <3> QED BY <1>5, <3>3
  <2>2. f = [i \in 1..Cardinality(S) |-> f[i]]
    <3> DEFINE at(i) == CHOOSE x \in S : Cardinality({y \in S : Earlier(y, x)}) = i - 1
    <3>1. f = [i \in 1..Cardinality(S) |-> at(i)]
      BY <1>6
    <3> HIDE DEF at
    <3> QED BY <3>1
  <2> QED BY <2>1, <2>2 DEF ListsIn
<1> HIDE DEF R, f
<1>8. f \in Seq(S) /\ Len(f) = Cardinality(S) /\ \A x \in S : \E i \in 1..Cardinality(S) : f[i] = x
  BY <1>4, <1>7, ListedInOrder
<1> QED BY <1>8 DEF f

(* What is kept of a list that starts with a member starts with it.        *)
LEMMA KeptFirst ==
    ASSUME NEW X, NEW list \in Seq(X), NEW T, Len(list) > 0, list[1] \in T
    PROVE  Kept(list, T) \in Seq(X) /\ Len(Kept(list, T)) > 0 /\ Kept(list, T)[1] = list[1]
<1> DEFINE I == {i \in DOMAIN list : list[i] \in T}
           R == {p \in I \X I : p[1] < p[2]}
           f == InOrder(I, LAMBDA i, j : i < j)
           m == Cardinality(I)
<1>1. I \subseteq 1..Len(list) /\ 1 \in I /\ I \subseteq Int /\ Len(list) \in Nat
  OBVIOUS
<1>2. IsFiniteSet(I)
  <2> HIDE DEF I
  <2>1. IsFiniteSet(1..Len(list))
    BY <1>1, FS_Interval
  <2> QED BY <1>1, <2>1, FS_Subset
<1>3. Kept(list, T) = [k \in DOMAIN f |-> list[f[k]]]
  BY DEF Kept
<1>4. f = [i \in 1..m |-> CHOOSE x \in I : Cardinality({y \in I : y < x}) = i - 1]
  BY DEF InOrder
<1>5. \A x, y \in I : <<x, y>> \in R <=> x < y
  OBVIOUS
<1> HIDE DEF I, f
<1>6. Orders(R, I)
  BY <1>1, <1>2, NumbersInOrder
<1> HIDE DEF R
<1>7. \A x \in I : Cardinality({y \in I : y < x}) = Rank(I, R, x)
  <2>1. \A x \in I : {y \in I : y < x} = Below(I, R, x)
    BY <1>5 DEF Below
  <2> QED BY <2>1 DEF Rank
<1>8. ListsIn(f, I, R)
  <2>1. ASSUME NEW i \in 1..m PROVE f[i] \in I /\ Rank(I, R, f[i]) = i - 1
    <3>1. \E x \in I : Cardinality({y \in I : y < x}) = i - 1
      BY <1>2, <1>6, <1>7, RanksAll
    <3>2. f[i] = CHOOSE x \in I : Cardinality({y \in I : y < x}) = i - 1
      BY <1>4
    <3>3. f[i] \in I /\ Cardinality({y \in I : y < f[i]}) = i - 1
      BY <3>1, <3>2
    <3> QED BY <1>7, <3>3
  <2>2. f = [i \in 1..m |-> f[i]]
    <3> DEFINE at(i) == CHOOSE x \in I : Cardinality({y \in I : y < x}) = i - 1
    <3>1. f = [i \in 1..m |-> at(i)]
      BY <1>4
    <3> HIDE DEF at
    <3> QED BY <3>1
  <2> QED BY <2>1, <2>2 DEF ListsIn
<1>9. m \in Nat /\ m > 0 /\ f \in Seq(I) /\ DOMAIN f = 1..m
  <2>1. m \in Nat /\ f \in Seq(I) /\ DOMAIN f = 1..m
    BY <1>2, <1>6, <1>8, ListedInOrder
  <2>2. m # 0
    BY <1>1, <1>2, FS_EmptySet
  <2> QED BY <2>1, <2>2
<1>10. f[1] = 1
  <2>1. f[1] \in I /\ Rank(I, R, f[1]) = 0
    BY <1>8, <1>9 DEF ListsIn
  <2>2. Below(I, R, f[1]) = {}
    <3>1. Below(I, R, f[1]) \subseteq I
      BY DEF Below
    <3>2. IsFiniteSet(Below(I, R, f[1]))
      BY <1>2, <3>1, FS_Subset
    <3> QED BY <2>1, <3>2, FS_EmptySet DEF Rank
  <2>3. ~(1 < f[1])
    BY <1>1, <1>5, <2>1, <2>2 DEF Below
  <2>4. f[1] \in 1..Len(list)
    BY <1>1, <2>1
  <2> QED BY <2>3, <2>4
<1>11. \A k \in 1..m : list[f[k]] \in X
  <2>1. ASSUME NEW k \in 1..m PROVE f[k] \in 1..Len(list)
    BY <1>1, <1>8 DEF ListsIn
  <2> QED BY <2>1
<1> HIDE DEF m
<1>12. Kept(list, T) = [k \in 1..m |-> list[f[k]]]
  BY <1>3, <1>9
<1>13. Kept(list, T) \in Seq(X) /\ Len(Kept(list, T)) = m
  BY <1>9, <1>11, <1>12
<1> QED BY <1>9, <1>10, <1>12, <1>13

(* In a quiet period every market of the backlog whose detail is wanted    *)
(* gets a slot within as many ticks as the backlog is long, whatever the   *)
(* cap (scores/job.py, select_targets).                                    *)
THEOREM BacklogTakesTurns == Spec => []BacklogTurns
<1>1. SeasonInv => BacklogTurns
  <2> DEFINE B == Backlog(now)
             n == Cardinality(B)
             L == InOrder(B, Earlier)
  <2> SUFFICES ASSUME SeasonInv, \A c \in list_markets : markets[c].resolved \/ c \in B,
                      NEW c \in B, Wanted(c, now)
               PROVE  \E i \in 0..(n - 1) : c \in Range(select_targets(now + i, {}))
    BY DEF BacklogTurns
  <2>1. now \in Nat /\ B \subseteq Cids /\ IsFiniteSet(B) /\ \A d \in B : d.close \in Int
    <3>1. now \in Nat /\ DOMAIN markets \subseteq Cids /\ IsFiniteSet(DOMAIN markets)
      BY DEF SeasonInv, WorldOK, MarketsOK
    <3>2. B \subseteq DOMAIN markets
      BY DEF Backlog, Eligible, list_markets
    <3>3. \A d \in Cids : d.close \in Int
      BY DEF Cids
    <3> HIDE DEF B
    <3> QED BY <3>1, <3>2, <3>3, FS_Subset
  <2>2. \A d \in B : d \in list_markets /\ ~markets[d].resolved /\ d.close <= now /\ now - d.close > Recent
    BY DEF Backlog, Eligible
  <2>3. Recent \in Nat /\ Window \in Nat /\ Cap \in Nat /\ Cap > 0
    BY SeasonAssumption, Zenon
  <2>4. \A i \in Nat : Eligible(now + i) = B /\ Backlog(now + i) = B
    <3> TAKE i \in Nat
    <3>1. \A d \in B : d.close <= now + i /\ (now + i) - d.close > Recent
      BY <2>1, <2>2, <2>3
    <3> HIDE DEF B
    <3>2. Eligible(now + i) = B
      BY <2>2, <3>1 DEF Eligible
    <3> QED BY <3>1, <3>2 DEF Backlog
  <2> HIDE DEF B
  <2>5. n \in Nat /\ L \in Seq(B) /\ Len(L) = n /\ \E p \in 1..n : L[p] = c
    BY <2>1, EarlierListed, FS_CardinalityType
  <2> HIDE DEF L, n
  <2>6. PICK p \in 1..n : L[p] = c
    BY <2>5
  <2>7. p - 1 \in 0..(n - 1) /\ n > 0
    BY <2>5
  <2>8. PICK i \in 0..(n - 1) : (now + i) % n = p - 1
    BY <2>1, <2>5, <2>7, SomeTurn
  <2>9. i \in Nat
    BY <2>5
  <2> DEFINE clock == now + i
             list == <<>> \o Rotated(L, clock)
             W == {d \in B \ {} : Wanted(d, clock)}
             wanted == Kept(list, W)
  <2>10. list \in Seq(B) /\ Len(list) > 0 /\ list[1] = c
    <3>1. L # <<>>
      BY <2>5, <2>7
    <3>2. Rotated(L, clock) = SubSeq(L, p, n) \o SubSeq(L, 1, p - 1)
      <4>1. (clock % Len(L)) + 1 = p /\ clock % Len(L) = p - 1
        BY <2>5, <2>8
      <4> HIDE DEF clock
      <4> QED BY <2>5, <3>1, <4>1 DEF Rotated
    <3>3. SubSeq(L, p, n) \in Seq(B) /\ SubSeq(L, 1, p - 1) \in Seq(B) /\ Len(SubSeq(L, p, n)) = n - p + 1
          /\ SubSeq(L, p, n)[1] = L[p]
      BY <2>5
    <3> HIDE DEF clock
    <3> QED BY <2>5, <2>6, <3>2, <3>3
  <2>11. c \in W
    <3>1. skip_fresh(get_market(c).score, clock) => skip_fresh(get_market(c).score, now)
      <4>1. markets[c].score # None => markets[c].score.age \in Nat
        <5>1. c \in DOMAIN markets
          BY <2>2 DEF list_markets
        <5>2. markets[c] \in Market
          BY <5>1 DEF SeasonInv, MarketsOK
        <5> QED BY <2>3, <5>2 DEF Market
      <4> QED BY <2>1, <2>3, <2>9, <4>1 DEF skip_fresh, get_market
    <3> HIDE DEF clock
    <3> QED BY <3>1 DEF Wanted
  <2> HIDE DEF list, W, clock
  <2>12. wanted \in Seq(B) /\ Len(wanted) > 0 /\ wanted[1] = c
    BY <2>10, <2>11, KeptFirst
  <2>13. select_targets(clock, {}) = SubSeq(wanted, 1, IF Len(wanted) < Cap THEN Len(wanted) ELSE Cap)
    <3>1. Eligible(clock) = B /\ Backlog(clock) = B
      BY <2>4, <2>9 DEF clock
    <3>2. InOrder(B \ B, Earlier) = <<>>
      <4>1. B \ B = {}
        OBVIOUS
      <4>2. InOrder({}, Earlier) = <<>>
        BY FS_EmptySet DEF InOrder
      <4> QED BY <4>1, <4>2
    <3> QED BY <3>1, <3>2 DEF select_targets, list, W, L
  <2> HIDE DEF wanted
  <2>14. c \in Range(select_targets(clock, {}))
    <3> DEFINE l == IF Len(wanted) < Cap THEN Len(wanted) ELSE Cap
               s == SubSeq(wanted, 1, l)
    <3>1. l \in 1..Len(wanted)
      BY <2>3, <2>12
    <3> HIDE DEF l
    <3>2. 1 \in DOMAIN s /\ s[1] = c
      BY <2>12, <3>1
    <3>3. c \in Range(s)
      BY <3>2 DEF Range
    <3> QED BY <2>13, <3>3 DEF l
  <2> QED BY <2>14 DEF clock
<1> QED BY <1>1, SeasonInvariant, PTL
=============================================================================
