--------------------------- MODULE CatalogueProofs --------------------------
(***************************************************************************)
(* The database's copy of the markets, for every chain, every start block  *)
(* and window of the indexer, every number of API instances, of requests   *)
(* and of lost leaderships.                                                *)
(***************************************************************************)
EXTENDS Catalogue, FiniteSums, SequenceTheorems, TLAPS

Row == [there : BOOLEAN, paused : BOOLEAN, q : Questions \cup {None}, text : Texts \cup {None}]
ListRow == [status : Statuses, prep : BOOLEAN, q : Questions \cup {None}, text : Texts \cup {None}]
Rows == [mk : [Markets -> Row], ls : [UserMarkets -> ListRow]]
Places == {"idle", "confirm", "commit", "creating", "upsert", "mirror", "pausing"}
Request == [at : Places, c : Markets \cup {None}, block : Nat, paused : BOOLEAN, text : Texts \cup {None}, ok : BOOLEAN]
TickState == [at : {"idle", "range"}, lo : Nat, head : Nat, left : Nat]

(* An event that the chain can hold: a listing is of a user's market.      *)
Creation(e) == e.kind \in {"create", "list"}
Flag(e) == e.kind \in {"paused", "unpaused"}
EventOK(e) ==
    /\ e \in Event
    /\ e.kind = "list" => e.c \in UserMarkets /\ e.text \in Texts
    /\ Creation(e) => e.q \in Questions

(* A market is created once, before anything else happens to it.           *)
ChainOK ==
    /\ \A b \in DOMAIN chain : EventOK(chain[b])
    /\ \A b, d \in DOMAIN chain : Creation(chain[b]) /\ Creation(chain[d]) /\ chain[b].c = chain[d].c => b = d
    /\ \A b \in DOMAIN chain : ~Creation(chain[b]) =>
          \E d \in DOMAIN chain : d < b /\ Creation(chain[d]) /\ chain[d].c = chain[b].c
    /\ \A t \in mem : t.kind = "paused" => marketExists(t.c)

(* A listing passed the review: the text of the chain, and a question that *)
(* no gate refuses and that is the prepared one, if there is one.          *)
Passes(c, text) ==
    /\ text = Created(c).text
    /\ Created(c).q \notin Banned /\ text \notin Short
    /\ offered[c] \in {Created(c).q, None}

(* The rows mk and ls agree with the chain and with what was offered.      *)
RowsOK(mk, ls) ==
    /\ \A c \in Markets : IF mk[c].there THEN marketExists(c) /\ mk[c].q = Created(c).q ELSE mk[c] = NoMarket
    /\ \A c \in UserMarkets : ls[c].status = "confirmed" => mk[c].there /\ Passes(c, mk[c].text)
    /\ \A c \in UserMarkets : offered[c] # None => ls[c].prep /\ ls[c].status # None /\ ls[c].q = offered[c]

BlockIndexed(b) ==
    /\ AmmEvent(b) => b \in points
    /\ b \in CreatedAt(chain[b].c) => market[chain[b].c].there

(* What a tick has before it is on the chain, and what it has behind it is *)
(* indexed or was skipped on purpose.                                      *)
TickOK(t) ==
    t.at = "range" =>
      /\ 1 <= t.lo /\ t.lo <= t.head /\ t.head <= Len(chain) /\ t.lo <= Passed + 1
      /\ checkpoint # NoBlock
      /\ \A b \in DOMAIN chain : b > floor /\ b < t.lo => BlockIndexed(b)

(* Where the checkpoint and the skipped blocks can be.                     *)
Cursor ==
    /\ checkpoint = NoBlock => floor = 0
    /\ IF StartBlock > 0 THEN floor <= StartBlock - 1 ELSE floor <= Max({0, Len(chain) - Lookback})
    /\ checkpoint <= Max({Len(chain), StartBlock})
    /\ checkpoint <= Len(chain) \/ checkpoint <= floor

(* What a request has read.                                                *)
Read(q) == marketExists(q.c) /\ q.block <= Len(chain) /\ q.paused = PausedAt(q.c, q.block)
RequestOK(q) ==
    /\ q.at \in {"confirm", "commit"} => q.c \in UserMarkets /\ Read(q)
    /\ q.at = "commit" => q.text = Created(q.c).text
    /\ q.at = "commit" /\ q.ok => Passes(q.c, q.text)
    /\ q.at \in {"creating", "upsert", "mirror", "pausing"} => q.c \in Markets
    /\ q.at = "mirror" => Read(q)
    /\ q.at = "upsert" => q.block \in CreatedAt(q.c)
    /\ q.at = "pausing" =>
          /\ market[q.c].there
          /\ \/ [kind |-> "paused", c |-> q.c] \in mem
             \/ \E b \in DOMAIN chain : chain[b].c = q.c /\ chain[b].kind = "paused"

TicksOK == \A i \in Instances : TickOK(tick[i])
RequestsOK == \A r \in Requests : RequestOK(req[r])

(* A flag that is not late is that of a block the indexer has not passed.  *)
FlagsOK ==
    \A c \in Markets : market[c].there /\ c \notin late =>
        \E k \in Passed..Len(chain) : market[c].paused = PausedAt(c, k)

CatInv ==
    /\ CatalogueTypeOK /\ ChainOK /\ RowsOK(market, listing) /\ Cursor /\ TicksOK /\ RequestsOK
    /\ PassedIsIndexed /\ FlagsOK
----------------------------------------------------------------------------
(* The chain.                                                              *)
LEMMA Blocks ==
    ASSUME CatalogueTypeOK
    PROVE  /\ Len(chain) \in Nat /\ DOMAIN chain = 1..Len(chain)
           /\ \A b \in DOMAIN chain : b \in Nat /\ chain[b] \in Event /\ chain[b].c \in Markets
<1>1. chain \in Seq(Event)
  BY DEF CatalogueTypeOK
<1>2. Len(chain) \in Nat /\ DOMAIN chain = 1..Len(chain) /\ \A b \in 1..Len(chain) : chain[b] \in Event
  BY <1>1, LenProperties
<1> QED BY <1>2 DEF Event

LEMMA CreatedOnce ==
    ASSUME ChainOK, NEW c, NEW b \in CreatedAt(c)
    PROVE  /\ marketExists(c) /\ Created(c) = chain[b] /\ CreatedAt(c) = {b}
           /\ EventOK(Created(c)) /\ Creation(Created(c)) /\ Created(c).c = c
<1>1. \A d \in CreatedAt(c) : d \in DOMAIN chain /\ chain[d].c = c /\ Creation(chain[d])
  BY DEF CreatedAt, Creation
<1>2. \A d \in CreatedAt(c) : d = b
  BY <1>1 DEF ChainOK
<1>3. CreatedAt(c) = {b}
  BY <1>2
<1>4. (CHOOSE d \in CreatedAt(c) : TRUE) = b
  BY <1>3
<1> QED BY <1>1, <1>3, <1>4 DEF marketExists, Created, ChainOK

LEMMA CreatedOK ==
    ASSUME ChainOK, NEW c, marketExists(c)
    PROVE  /\ EventOK(Created(c)) /\ Created(c).c = c
           /\ Created(c).q \in Questions /\ Created(c).text \in Texts \cup {None}
<1>1. PICK b : b \in CreatedAt(c)
  BY DEF marketExists
<1>2. EventOK(Created(c)) /\ Creation(Created(c)) /\ Created(c).c = c
  BY <1>1, CreatedOnce
<1> QED BY <1>2 DEF EventOK, Event

LEMMA PausesIn ==
    ASSUME CatalogueTypeOK, NEW c, NEW k \in Nat
    PROVE  /\ PauseBlocks(c, k) \in SUBSET Nat
           /\ PauseBlocks(c, k) # {} => Max(PauseBlocks(c, k)) \in PauseBlocks(c, k)
           /\ \A b \in PauseBlocks(c, k) : b <= Max(PauseBlocks(c, k))
<1> DEFINE S == PauseBlocks(c, k)
<1>1. S \in SUBSET Nat /\ \A b \in S : b <= k
  BY Blocks DEF PauseBlocks
<1> HIDE DEF S
<1>2. S # {} => Max(S) \in S /\ \A b \in S : b <= Max(S)
  BY <1>1, MaxOfBounded
<1> QED BY <1>1, <1>2 DEF S

(* Without a flag event in between nothing changes.                        *)
LEMMA PausedSame ==
    ASSUME NEW c, NEW k \in Nat, NEW n \in Nat, k <= n, CatalogueTypeOK,
           \A b \in DOMAIN chain : b > k /\ b <= n => ~(chain[b].c = c /\ Flag(chain[b]))
    PROVE  PausedAt(c, n) = PausedAt(c, k)
<1>1. PauseBlocks(c, n) = PauseBlocks(c, k)
  BY Blocks DEF PauseBlocks, Flag
<1> QED BY <1>1 DEF PausedAt

LEMMA PausedHere ==
    ASSUME CatalogueTypeOK, NEW b \in DOMAIN chain, Flag(chain[b])
    PROVE  PausedAt(chain[b].c, b) <=> chain[b].kind = "paused"
<1> DEFINE S == PauseBlocks(chain[b].c, b)
<1>1. b \in Nat
  BY Blocks
<1>2. b \in S /\ \A d \in S : d <= b
  BY <1>1 DEF PauseBlocks, Flag
<1>3. S \in SUBSET Nat /\ Max(S) \in S /\ \A d \in S : d <= Max(S)
  BY <1>1, <1>2, PausesIn
<1>4. Max(S) = b
  <2> HIDE DEF S
  <2> QED BY <1>1, <1>2, <1>3
<1> QED BY <1>2, <1>4 DEF PausedAt

(* No flag is written before the creation, nor with it.                    *)
LEMMA BornUnpaused ==
    ASSUME CatalogueTypeOK, ChainOK, NEW c, NEW b \in CreatedAt(c)
    PROVE  ~PausedAt(c, b)
<1>1. b \in DOMAIN chain /\ b \in Nat
  BY Blocks DEF CreatedAt
<1>2. ASSUME NEW d \in PauseBlocks(c, b) PROVE FALSE
  <2>1. d \in DOMAIN chain /\ d <= b /\ chain[d].c = c /\ ~Creation(chain[d])
    BY <1>2 DEF PauseBlocks, Creation
  <2>2. PICK a \in CreatedAt(c) : a < d
    BY <2>1 DEF ChainOK, CreatedAt, Creation
  <2>3. a = b
    BY CreatedOnce
  <2> QED BY <1>1, <2>1, <2>2, <2>3, Blocks
<1>3. PauseBlocks(c, b) = {}
  BY <1>2
<1> QED BY <1>3 DEF PausedAt

LEMMA PassedIs ==
    ASSUME CatalogueTypeOK
    PROVE  /\ Passed \in Nat /\ Passed >= checkpoint /\ Passed >= floor
           /\ Passed = checkpoint \/ Passed = floor
<1>1. checkpoint \in Int /\ floor \in Nat
  BY DEF CatalogueTypeOK, NoBlock
<1> QED BY <1>1, MaxOfTwo DEF Passed

(* The chain grows by an event.                                            *)
LEMMA Appended ==
    ASSUME CatalogueTypeOK, NEW e \in Event, chain' = Append(chain, e)
    PROVE  /\ chain' \in Seq(Event) /\ Len(chain)' = Len(chain) + 1 /\ DOMAIN chain' = 1..(Len(chain) + 1)
           /\ \A b \in DOMAIN chain : b \in DOMAIN chain' /\ chain'[b] = chain[b]
           /\ chain'[Len(chain) + 1] = e
           /\ \A b \in DOMAIN chain' : b \in DOMAIN chain \/ b = Len(chain) + 1
<1>1. chain \in Seq(Event)
  BY DEF CatalogueTypeOK
<1>2. chain' \in Seq(Event) /\ Len(chain)' = Len(chain) + 1 /\ chain'[Len(chain) + 1] = e
      /\ \A b \in 1..Len(chain) : chain'[b] = chain[b]
  BY <1>1, AppendProperties
<1>3. DOMAIN chain' = 1..Len(chain')
  BY <1>2, LenProperties
<1> QED BY <1>2, <1>3, Blocks

LEMMA AppendedCreated ==
    ASSUME CatalogueTypeOK, NEW e \in Event, chain' = Append(chain, e), NEW c
    PROVE  /\ CreatedAt(c)' = CreatedAt(c) \cup (IF Creation(e) /\ e.c = c THEN {Len(chain) + 1} ELSE {})
           /\ marketExists(c) => marketExists(c)'
           /\ marketExists(c) /\ ~(Creation(e) /\ e.c = c) => Created(c)' = Created(c)
<1>1. CreatedAt(c)' = CreatedAt(c) \cup (IF Creation(e) /\ e.c = c THEN {Len(chain) + 1} ELSE {})
  BY Appended, Blocks DEF CreatedAt, Creation
<1>2. marketExists(c) => marketExists(c)'
  BY <1>1 DEF marketExists
<1>3. ASSUME marketExists(c), ~(Creation(e) /\ e.c = c) PROVE Created(c)' = Created(c)
  <2>1. CreatedAt(c)' = CreatedAt(c) /\ CreatedAt(c) # {}
    BY <1>1, <1>3 DEF marketExists
  <2>2. (CHOOSE b \in CreatedAt(c) : TRUE) \in CreatedAt(c)
    BY <2>1
  <2>3. \A b \in CreatedAt(c) : chain'[b] = chain[b]
    BY Appended DEF CreatedAt
  <2>4. Created(c)' = chain'[CHOOSE b \in CreatedAt(c)' : TRUE]
    BY DEF Created
  <2> QED BY <2>1, <2>2, <2>3, <2>4 DEF Created
<1> QED BY <1>1, <1>2, <1>3

LEMMA AppendedPaused ==
    ASSUME CatalogueTypeOK, NEW e \in Event, chain' = Append(chain, e), NEW c, NEW k \in Nat, k <= Len(chain)
    PROVE  PausedAt(c, k)' = PausedAt(c, k)
<1>1. PauseBlocks(c, k)' = PauseBlocks(c, k)
  BY Appended, Blocks DEF PauseBlocks
<1>2. PauseBlocks(c, k) # {} => chain'[Max(PauseBlocks(c, k))] = chain[Max(PauseBlocks(c, k))]
  <2>1. PauseBlocks(c, k) # {} => Max(PauseBlocks(c, k)) \in PauseBlocks(c, k)
    BY PausesIn
  <2>2. \A b \in PauseBlocks(c, k) : b \in DOMAIN chain
    BY DEF PauseBlocks
  <2>3. \A b \in DOMAIN chain : chain'[b] = chain[b]
    BY Appended
  <2> QED BY <2>1, <2>2, <2>3
<1>3. PausedAt(c, k)' = (PauseBlocks(c, k)' # {} /\ chain'[Max(PauseBlocks(c, k)')].kind = "paused")
  BY DEF PausedAt
<1> QED BY <1>1, <1>2, <1>3 DEF PausedAt

LEMMA GrownChain ==
    ASSUME CatalogueTypeOK, ChainOK, NEW e, EventOK(e), chain' = Append(chain, e),
           IF Creation(e) THEN ~marketExists(e.c) ELSE marketExists(e.c), mem' \subseteq mem
    PROVE  ChainOK'
<1> DEFINE n == Len(chain) + 1
<1>1. e \in Event /\ n \in Nat /\ \A b \in DOMAIN chain : b \in Nat /\ b < n
  BY Blocks DEF EventOK
<1>2. DOMAIN chain' = DOMAIN chain \cup {n} /\ chain'[n] = e /\ \A b \in DOMAIN chain : chain'[b] = chain[b]
  BY <1>1, Appended, Blocks
<1> HIDE DEF n
<1>3. \A b \in DOMAIN chain' : EventOK(chain'[b])
  BY <1>2 DEF ChainOK
<1>4. \A b, d \in DOMAIN chain' : Creation(chain'[b]) /\ Creation(chain'[d]) /\ chain'[b].c = chain'[d].c => b = d
  <2>1. \A b \in DOMAIN chain : Creation(chain[b]) /\ Creation(e) => chain[b].c # e.c
    BY DEF marketExists, CreatedAt, Creation
  <2> QED BY <1>2, <2>1 DEF ChainOK
<1>5. \A b \in DOMAIN chain' : ~Creation(chain'[b]) =>
         \E d \in DOMAIN chain' : d < b /\ Creation(chain'[d]) /\ chain'[d].c = chain'[b].c
  <2>1. ~Creation(e) => \E d \in DOMAIN chain : Creation(chain[d]) /\ chain[d].c = e.c
    BY DEF marketExists, CreatedAt, Creation
  <2> QED BY <1>1, <1>2, <2>1 DEF ChainOK
<1>6. \A t \in mem' : t.kind = "paused" => marketExists(t.c)'
  BY <1>1, AppendedCreated DEF ChainOK
<1> QED BY <1>3, <1>4, <1>5, <1>6 DEF ChainOK

LEMMA AppendKeeps ==
    ASSUME CatInv, NEW e, EventOK(e), chain' = Append(chain, e),
           IF Creation(e) THEN ~marketExists(e.c) ELSE marketExists(e.c),
           mem' \subseteq mem, \A t \in mem \ mem' : t.kind = "paused" => e.kind = "paused" /\ e.c = t.c,
           UNCHANGED <<market, listing, indexVars, req, offered, late>>
    PROVE  CatInv'
<1> DEFINE n == Len(chain) + 1
<1>0. CatalogueTypeOK /\ ChainOK
  BY DEF CatInv
<1>1. e \in Event /\ Len(chain) \in Nat /\ Len(chain)' = n /\ n \in Nat /\ DOMAIN chain = 1..Len(chain)
  BY <1>0, Appended, Blocks DEF EventOK
<1>2. DOMAIN chain' = DOMAIN chain \cup {n} /\ chain'[n] = e /\ \A b \in DOMAIN chain : chain'[b] = chain[b] /\ b \in Nat /\ b < n
  BY <1>0, <1>1, Appended, Blocks
<1>3. CatalogueTypeOK'
  BY <1>0, <1>1, Appended DEF CatalogueTypeOK, indexVars
<1>4. ChainOK'
  BY <1>0, GrownChain
<1>5. \A c : marketExists(c) => marketExists(c)' /\ Created(c)' = Created(c)
  BY <1>0, <1>1, AppendedCreated
<1>6. \A c, k : k \in Nat /\ k <= Len(chain) => PausedAt(c, k)' = PausedAt(c, k)
  BY <1>0, <1>1, AppendedPaused
<1>7. Passed' = Passed /\ Passed \in Nat
  BY <1>0, PassedIs DEF Passed, indexVars
<1>8. \A c \in UserMarkets : c \in Markets
  BY DEF Markets
<1> HIDE DEF n
<1>9. RowsOK(market, listing)'
  <2>1. \A c \in Markets : IF market[c].there THEN marketExists(c)' /\ market[c].q = Created(c)' .q ELSE market[c] = NoMarket
    BY <1>5 DEF CatInv, RowsOK
  <2>2. ASSUME NEW c \in UserMarkets, listing[c].status = "confirmed" PROVE market[c].there /\ Passes(c, market[c].text)'
    <3>1. market[c].there /\ Passes(c, market[c].text) /\ marketExists(c)
      BY <1>8, <2>2 DEF CatInv, RowsOK
    <3> QED BY <1>5, <3>1 DEF Passes
  <2>3. \A c \in UserMarkets : offered[c] # None => listing[c].prep /\ listing[c].status # None /\ listing[c].q = offered[c]
    BY DEF CatInv, RowsOK
  <2> QED BY <2>1, <2>2, <2>3 DEF RowsOK
<1>10. Cursor'
  <2>1. /\ checkpoint \in Int /\ floor \in Nat /\ StartBlock \in Nat /\ Lookback \in Nat
        /\ checkpoint' = checkpoint /\ floor' = floor
    BY <1>0, CatalogueBounds DEF CatalogueTypeOK, NoBlock, indexVars
  <2>2. /\ Len(chain) - Lookback \in Int /\ n - Lookback \in Int /\ Len(chain) - Lookback <= n - Lookback
        /\ Len(chain) \in Int /\ n \in Int /\ Len(chain) <= n /\ StartBlock \in Int /\ 0 \in Int
    BY <1>1, <2>1 DEF n
  <2>3. \A x, y, z \in Int : x <= y => Max({z, x}) \in Int /\ Max({z, y}) \in Int /\ Max({z, x}) <= Max({z, y})
    BY MaxOfTwo
  <2>4. /\ Max({0, Len(chain) - Lookback}) \in Int /\ Max({0, n - Lookback}) \in Int
        /\ Max({0, Len(chain) - Lookback}) <= Max({0, n - Lookback})
    BY <2>2, <2>3
  <2>5. /\ Max({StartBlock, Len(chain)}) \in Int /\ Max({StartBlock, n}) \in Int
        /\ Max({StartBlock, Len(chain)}) <= Max({StartBlock, n})
    BY <2>2, <2>3
  <2>6. Max({Len(chain), StartBlock}) = Max({StartBlock, Len(chain)}) /\ Max({n, StartBlock}) = Max({StartBlock, n})
    <3>1. {Len(chain), StartBlock} = {StartBlock, Len(chain)} /\ {n, StartBlock} = {StartBlock, n}
      OBVIOUS
    <3> QED BY <3>1
  <2>7. Cursor
    BY DEF CatInv
  <2>8. floor <= Max({0, Len(chain) - Lookback}) => floor <= Max({0, n - Lookback})
    BY <2>1, <2>4
  <2>9. checkpoint <= Max({Len(chain), StartBlock}) => checkpoint <= Max({n, StartBlock})
    BY <2>1, <2>5, <2>6
  <2>10. checkpoint <= Len(chain) => checkpoint <= n
    BY <2>1, <2>2
  <2> QED BY <1>1, <2>1, <2>7, <2>8, <2>9, <2>10 DEF Cursor
<1>11. \A b \in DOMAIN chain : BlockIndexed(b) => BlockIndexed(b)'
  <2>1. ASSUME NEW b \in DOMAIN chain, BlockIndexed(b) PROVE BlockIndexed(b)'
    <3>1. AmmEvent(b)' <=> AmmEvent(b)
      BY <1>2 DEF AmmEvent
    <3>2. b \in CreatedAt(chain[b].c)' => b \in CreatedAt(chain[b].c)
      BY <1>2 DEF CreatedAt
    <3> QED BY <1>2, <2>1, <3>1, <3>2 DEF BlockIndexed, indexVars
  <2> QED BY <2>1
<1>12. TicksOK'
  <2>1. ASSUME NEW i \in Instances PROVE TickOK(tick[i])'
    <3>1. TickOK(tick[i]) /\ tick[i] \in TickState
      BY <1>0 DEF CatInv, TicksOK, CatalogueTypeOK, TickState
    <3> QED BY <1>1, <1>2, <1>7, <1>11, <3>1 DEF TickOK, TickState, indexVars, n
  <2> QED BY <2>1 DEF TicksOK, indexVars
<1>13. RequestsOK'
  <2>1. ASSUME NEW r \in Requests PROVE RequestOK(req[r])'
    <3>1. RequestOK(req[r]) /\ req[r].block \in Nat
      BY <1>0 DEF CatInv, RequestsOK, CatalogueTypeOK
    <3> DEFINE c == req[r].c
    <3>2. Read(req[r]) => Read(req[r])'
      BY <1>1, <1>5, <1>6, <3>1 DEF Read, n
    <3>3. marketExists(c) /\ Passes(c, req[r].text) => Passes(c, req[r].text)'
      BY <1>5 DEF Passes
    <3>4. req[r].block \in CreatedAt(c) => req[r].block \in CreatedAt(c)'
      BY <1>0, <1>1, AppendedCreated
    <3>5. req[r].at = "pausing" => \/ [kind |-> "paused", c |-> c] \in mem'
                                   \/ \E b \in DOMAIN chain' : chain'[b].c = c /\ chain'[b].kind = "paused"
      BY <1>2, <3>1 DEF RequestOK
    <3> QED BY <1>5, <3>1, <3>2, <3>3, <3>4, <3>5 DEF RequestOK, Read
  <2> QED BY <2>1 DEF RequestsOK
<1>14. PassedIsIndexed'
  <2>1. ASSUME NEW b \in DOMAIN chain', b > floor, b <= checkpoint PROVE BlockIndexed(b)'
    <3>1. checkpoint \in Int /\ floor \in Nat
      BY <1>0 DEF CatalogueTypeOK, NoBlock
    <3>2. b # n
      BY <1>1, <2>1, <3>1 DEF CatInv, Cursor, n
    <3>3. b \in DOMAIN chain /\ BlockIndexed(b)
      BY <1>2, <2>1, <3>2 DEF CatInv, PassedIsIndexed, BlockIndexed
    <3> QED BY <1>11, <3>3
  <2> QED BY <2>1 DEF PassedIsIndexed, BlockIndexed, indexVars
<1>15. FlagsOK'
  <2>1. ASSUME NEW c \in Markets, market[c].there, c \notin late PROVE \E k \in Passed..n : market[c].paused = PausedAt(c, k)'
    <3>1. PICK k \in Passed..Len(chain) : market[c].paused = PausedAt(c, k)
      BY <2>1 DEF CatInv, FlagsOK
    <3>2. k \in Nat /\ k <= Len(chain) /\ k \in Passed..n
      BY <1>1, <1>7, <3>1 DEF n
    <3> QED BY <1>6, <3>1, <3>2
  <2> QED BY <1>1, <1>7, <2>1 DEF FlagsOK
<1> QED BY <1>3, <1>4, <1>9, <1>10, <1>12, <1>13, <1>14, <1>15 DEF CatInv

(* Transactions of others.                                                 *)
LEMMA UserListsKeeps ==
    ASSUME CatInv, NEW c \in UserMarkets, NEW q \in Questions, NEW text \in Texts, UserLists(c, q, text)
    PROVE  CatInv'
<1> DEFINE e == [kind |-> "list", c |-> c, q |-> q, text |-> text]
<1>1. EventOK(e) /\ Creation(e) /\ e.c = c
  BY DEF EventOK, Creation, Event, Markets
<1>2. chain' = Append(chain, e) /\ ~marketExists(c) /\ mem' = mem
  BY DEF UserLists, Grow
<1>3. UNCHANGED <<market, listing, indexVars, req, offered, late>>
  BY DEF UserLists
<1> HIDE DEF e
<1> QED BY <1>1, <1>2, <1>3, AppendKeeps

LEMMA LogKeeps ==
    ASSUME CatInv, NEW c \in Markets, NEW kind \in {"paused", "unpaused", "swap"}, marketExists(c),
           Grow(Log(kind, c)), UNCHANGED <<mem, market, listing, indexVars, req, offered, late>>
    PROVE  CatInv'
<1> DEFINE e == Log(kind, c)
<1>1. EventOK(e) /\ ~Creation(e) /\ e.c = c
  BY DEF EventOK, Creation, Event, Log
<1>2. chain' = Append(chain, e)
  BY DEF Grow
<1> HIDE DEF e
<1> QED BY <1>1, <1>2, AppendKeeps

(* What else a step that leaves the chain alone has to keep.               *)
LEMMA ChainStays ==
    ASSUME UNCHANGED chain
    PROVE  /\ \A c : CreatedAt(c)' = CreatedAt(c) /\ marketExists(c)' = marketExists(c) /\ Created(c)' = Created(c)
           /\ \A c, k : PausedAt(c, k)' = PausedAt(c, k)
           /\ \A q : Read(q)' = Read(q)
<1>1. \A c : CreatedAt(c)' = CreatedAt(c)
  BY DEF CreatedAt
<1>2. \A c, k : PauseBlocks(c, k)' = PauseBlocks(c, k)
  BY DEF PauseBlocks
<1>3. \A c : marketExists(c)' = marketExists(c) /\ Created(c)' = Created(c)
  BY <1>1 DEF marketExists, Created
<1>4. \A c, k : PausedAt(c, k)' = PausedAt(c, k)
  BY <1>2 DEF PausedAt
<1> QED BY <1>1, <1>3, <1>4 DEF Read

LEMMA RequestFrame ==
    ASSUME CatInv, UNCHANGED <<chain, market, listing, indexVars, offered, late>>,
           mem' \subseteq Sent, \A t \in mem' : t.kind = "paused" => marketExists(t.c),
           req' \in [Requests -> Request], RequestsOK'
    PROVE  CatInv'
<1>1. CatalogueTypeOK'
  BY DEF CatInv, CatalogueTypeOK, indexVars, Request, Places
<1>2. ChainOK'
  BY ChainStays DEF CatInv, ChainOK
<1>3. RowsOK(market, listing)'
  BY ChainStays DEF CatInv, RowsOK, Passes
<1>4. Passed' = Passed /\ Cursor'
  BY DEF CatInv, Cursor, Passed, indexVars
<1>5. \A b \in DOMAIN chain : BlockIndexed(b)' = BlockIndexed(b)
  BY ChainStays DEF BlockIndexed, AmmEvent, indexVars
<1>6. TicksOK'
  BY <1>4, <1>5 DEF CatInv, TicksOK, TickOK, indexVars
<1>7. PassedIsIndexed'
  BY <1>5 DEF CatInv, PassedIsIndexed, BlockIndexed, indexVars
<1>8. FlagsOK'
  BY <1>4, ChainStays DEF CatInv, FlagsOK
<1> QED BY <1>1, <1>2, <1>3, <1>4, <1>6, <1>7, <1>8 DEF CatInv

LEMMA OneRequest ==
    ASSUME CatInv, UNCHANGED <<chain, market, listing, indexVars, offered, late>>,
           mem \subseteq mem', mem' \subseteq Sent, \A t \in mem' \ mem : t.kind = "paused" => marketExists(t.c),
           NEW r \in Requests, NEW q \in Request, req' = [req EXCEPT ![r] = q], RequestOK(q)'
    PROVE  CatInv'
<1>1. req \in [Requests -> Request]
  BY DEF CatInv, CatalogueTypeOK, Request, Places
<1>2. req' \in [Requests -> Request] /\ \A s \in Requests : req'[s] = IF s = r THEN q ELSE req[s]
  BY <1>1
<1>3. ASSUME NEW s \in Requests PROVE RequestOK(req[s])'
  <2>1. CASE s = r
    <3>1. req'[s] = q
      BY <1>2, <2>1
    <3> QED BY <3>1 DEF RequestOK, Read, Passes
  <2>2. CASE s # r
    <3>1. RequestOK(req[s]) /\ req'[s] = req[s]
      BY <1>2, <2>2 DEF CatInv, RequestsOK
    <3> QED BY <3>1, ChainStays DEF RequestOK, Passes
  <2> QED BY <2>1, <2>2
<1>4. RequestsOK'
  BY <1>3 DEF RequestsOK
<1>5. \A t \in mem' : t.kind = "paused" => marketExists(t.c)
  BY DEF CatInv, ChainOK
<1> QED BY <1>2, <1>4, <1>5, RequestFrame

LEMMA MinedKeeps ==
    ASSUME CatInv, NEW t \in mem, Mined(t)
    PROVE  CatInv'
<1>0. t \in Sent /\ CatalogueTypeOK /\ ChainOK
  BY DEF CatInv, CatalogueTypeOK
<1>1. CASE t.kind = "create" /\ marketExists(t.c)
  <2>1. /\ mem' = mem \ {t} /\ UNCHANGED <<chain, market, listing, indexVars, req, offered, late>>
        /\ \A u \in mem' : u.kind = "paused" => marketExists(u.c)
    BY <1>0, <1>1 DEF Mined, ChainOK
  <2>2. \A r \in Requests : RequestOK(req[r])'
    <3>1. ASSUME NEW r \in Requests PROVE RequestOK(req[r])'
      <4>1. RequestOK(req[r])
        BY DEF CatInv, RequestsOK
      <4>2. \A c : [kind |-> "paused", c |-> c] # t
        BY <1>1
      <4> QED BY <2>1, <4>1, <4>2, ChainStays DEF RequestOK, Passes
    <3> QED BY <3>1
  <2>3. req' \in [Requests -> Request] /\ mem' \subseteq Sent
    BY <1>0, <2>1 DEF CatalogueTypeOK, Request, Places
  <2> QED BY <2>1, <2>2, <2>3, RequestFrame DEF RequestsOK
<1>2. CASE ~(t.kind = "create" /\ marketExists(t.c))
  <2> DEFINE e == [Log(t.kind, t.c) EXCEPT !.q = IF t.kind = "create" THEN OperatorQuestion ELSE None]
  <2>1. chain' = Append(chain, e) /\ mem' = mem \ {t} /\ UNCHANGED <<market, listing, indexVars, req, offered, late>>
    BY <1>2 DEF Mined, Grow
  <2>2. e = [kind |-> t.kind, c |-> t.c, q |-> IF t.kind = "create" THEN OperatorQuestion ELSE None, text |-> None]
    BY DEF Log
  <2>3. EventOK(e) /\ e.c = t.c /\ e.kind = t.kind /\ (Creation(e) <=> t.kind = "create")
    BY <1>0, <2>2, CatalogueTexts DEF EventOK, Creation, Event, Sent
  <2>4. IF Creation(e) THEN ~marketExists(e.c) ELSE marketExists(e.c)
    BY <1>0, <1>2, <2>3 DEF ChainOK, Sent
  <2>5. \A u \in mem \ mem' : u.kind = "paused" => e.kind = "paused" /\ e.c = u.c
    BY <2>1, <2>3
  <2> HIDE DEF e
  <2> QED BY <2>1, <2>3, <2>4, <2>5, AppendKeeps
<1> QED BY <1>1, <1>2

LEMMA IdleRequest == Idle \in Request
  BY DEF Idle, Request, Places

(* What the chain shows at its end.                                        *)
LEMMA ReadNow ==
    ASSUME CatInv, NEW c \in Markets, marketExists(c), NEW q \in Request,
           q.c = c, q.block = Len(chain), q.paused = PausedAt(c, Len(chain))
    PROVE  Read(q)
<1>1. Len(chain) \in Nat
  BY Blocks DEF CatInv
<1> QED BY <1>1 DEF Read

LEMMA RequestFailsKeeps == ASSUME CatInv, NEW r \in Requests, RequestFails(r) PROVE CatInv'
<1>1. UNCHANGED <<chain, mem, market, listing, indexVars, offered, late>> /\ req' = [req EXCEPT ![r] = Idle]
  BY DEF RequestFails, chainVars
<1>2. RequestOK(Idle)'
  BY DEF RequestOK, Idle
<1>3. mem' \subseteq Sent
  BY <1>1 DEF CatInv, CatalogueTypeOK
<1> QED BY <1>1, <1>2, <1>3, IdleRequest, OneRequest

LEMMA ListingConfirmKeeps ==
    ASSUME CatInv, NEW r \in Requests, NEW c \in UserMarkets, NEW text \in Texts \cup {None}, listing_confirm(r, c, text)
    PROVE  CatInv'
<1>0. Len(chain) \in Nat /\ c \in Markets /\ PausedAt(c, Len(chain)) \in BOOLEAN
  BY Blocks DEF CatInv, Markets, PausedAt
<1>1. PICK q : q = [Idle EXCEPT !.at = "confirm", !.c = c, !.block = Len(chain), !.paused = PausedAt(c, Len(chain)), !.text = text]
  OBVIOUS
<1>2. /\ q \in Request /\ q.at = "confirm" /\ q.c = c /\ q.block = Len(chain) /\ q.paused = PausedAt(c, Len(chain))
  BY <1>0, <1>1 DEF Idle, Request, Places
<1>3. UNCHANGED <<chain, mem, market, listing, indexVars, offered, late>> /\ req' = [req EXCEPT ![r] = q] /\ marketExists(c)
  BY <1>1 DEF listing_confirm, chainVars
<1>4. Read(q)
  BY <1>0, <1>2, <1>3, ReadNow
<1>5. RequestOK(q)'
  BY <1>2, <1>3, <1>4, ChainStays DEF RequestOK
<1>6. mem' \subseteq Sent
  BY <1>3 DEF CatInv, CatalogueTypeOK
<1> QED BY <1>2, <1>3, <1>5, <1>6, OneRequest

(* The review is what Passes says.                                         *)
LEMMA Reviewed ==
    ASSUME NEW mk, NEW ls, NEW c, NEW text,
           offered[c] # None => ls[c].prep /\ ls[c].q = offered[c],
           text = Created(c).text, review_user_listing(mk, ls, c, Created(c).q, text)
    PROVE  Passes(c, text)
<1>1. Created(c).q \notin Banned /\ text \notin Short /\ ~(ls[c].prep /\ ls[c].q # Created(c).q)
  BY DEF review_user_listing, check_listed_question, check_question, check_criteria, prepared_mismatch
<1> QED BY <1>1 DEF Passes

LEMMA ConfirmReviewedKeeps == ASSUME CatInv, NEW r \in Requests, ConfirmReviewed(r) PROVE CatInv'
<1> DEFINE c == req[r].c
           e == Created(c)
           matching == e.text \in {listing[c].text, req[r].text} \ {None}
           ok == review_user_listing(market, listing, c, e.q, e.text)
<1>1. /\ UNCHANGED <<chain, mem, market, listing, indexVars, offered, late>> /\ req[r].at = "confirm"
      /\ req' = [req EXCEPT ![r] = IF matching THEN [req[r] EXCEPT !.at = "commit", !.text = e.text, !.ok = ok] ELSE Idle]
  <2>1. req \in [Requests -> Request]
    BY DEF CatInv, CatalogueTypeOK, Request, Places
  <2> QED BY <2>1 DEF ConfirmReviewed, chainVars
<1>2. mem' \subseteq Sent
  BY <1>1 DEF CatInv, CatalogueTypeOK
<1>3. req[r] \in Request /\ RequestOK(req[r])
  BY DEF CatInv, CatalogueTypeOK, Request, Places, RequestsOK
<1>4. c \in UserMarkets /\ Read(req[r])
  BY <1>1, <1>3 DEF RequestOK
<1>5. ok \in BOOLEAN
  BY DEF review_user_listing, check_listed_question, check_question, check_criteria, prepared_mismatch
<1>6. marketExists(c) /\ e.text \in Texts \cup {None}
  <2>1. ChainOK /\ marketExists(c)
    BY <1>4 DEF CatInv, Read
  <2> QED BY <2>1, CreatedOK
<1>7. CASE matching
  <2>1. PICK q : q = [req[r] EXCEPT !.at = "commit", !.text = e.text, !.ok = ok]
    OBVIOUS
  <2>2. q \in Request /\ q.at = "commit" /\ q.text = e.text /\ q.ok = ok /\ q.c = c
        /\ q.block = req[r].block /\ q.paused = req[r].paused
    <3> HIDE DEF e, ok, c
    <3>1. "commit" \in Places
      BY DEF Places
    <3> QED BY <1>3, <1>5, <1>6, <2>1, <3>1 DEF Request, c
  <2>3. ok => Passes(c, e.text)
    <3>1. offered[c] # None => listing[c].prep /\ listing[c].q = offered[c]
      BY <1>4 DEF CatInv, RowsOK
    <3> QED BY <3>1, Reviewed
  <2>4. RequestOK(q)
    <3> HIDE DEF ok
    <3> QED BY <1>4, <2>2, <2>3 DEF RequestOK, Read
  <2>5. RequestOK(q)'
    BY <1>1, <2>4, ChainStays DEF RequestOK, Passes
  <2>6. req' = [req EXCEPT ![r] = q]
    BY <1>1, <1>7, <2>1
  <2> QED BY <1>1, <1>2, <2>2, <2>5, <2>6, OneRequest
<1>8. CASE ~matching
  <2>1. RequestOK(Idle)' /\ req' = [req EXCEPT ![r] = Idle]
    BY <1>1, <1>8 DEF RequestOK, Idle
  <2> QED BY <1>1, <1>2, <2>1, IdleRequest, OneRequest
<1> QED BY <1>7, <1>8

LEMMA CreateMarketKeeps ==
    ASSUME CatInv, NEW r \in Requests, NEW c \in OperatorMarkets, create_market(r, c)
    PROVE  CatInv'
<1>0. Len(chain) \in Nat /\ c \in Markets /\ PausedAt(c, Len(chain)) \in BOOLEAN /\ mem \subseteq Sent
  BY Blocks DEF CatInv, Markets, PausedAt, CatalogueTypeOK
<1>1. UNCHANGED <<chain, market, listing, indexVars, offered, late>>
  BY DEF create_market
<1>2. CASE marketExists(c)
  <2>1. PICK q : q = [Idle EXCEPT !.at = "mirror", !.c = c, !.block = Len(chain), !.paused = PausedAt(c, Len(chain))]
    OBVIOUS
  <2>2. q \in Request /\ q.at = "mirror" /\ q.c = c /\ q.block = Len(chain) /\ q.paused = PausedAt(c, Len(chain))
    BY <1>0, <2>1 DEF Idle, Request, Places
  <2>3. req' = [req EXCEPT ![r] = q] /\ mem' = mem
    BY <1>2, <2>1 DEF create_market
  <2>4. Read(q)
    BY <1>0, <1>2, <2>2, ReadNow
  <2>5. RequestOK(q)'
    BY <1>0, <1>1, <2>2, <2>4, ChainStays DEF RequestOK
  <2> QED BY <1>0, <1>1, <2>2, <2>3, <2>5, OneRequest
<1>3. CASE ~marketExists(c)
  <2>1. PICK q : q = [Idle EXCEPT !.at = "creating", !.c = c]
    OBVIOUS
  <2>2. q \in Request /\ q.at = "creating" /\ q.c = c
    BY <1>0, <2>1 DEF Idle, Request, Places
  <2>3. req' = [req EXCEPT ![r] = q] /\ mem' = mem \cup {[kind |-> "create", c |-> c]}
    BY <1>3, <2>1 DEF create_market
  <2>4. RequestOK(q)'
    BY <1>0, <2>2 DEF RequestOK
  <2>5. mem \subseteq mem' /\ mem' \subseteq Sent /\ \A t \in mem' \ mem : t.kind # "paused"
    BY <1>0, <2>3 DEF Sent
  <2> QED BY <1>1, <2>2, <2>3, <2>4, <2>5, OneRequest
<1> QED BY <1>2, <1>3

LEMMA CreateReceiptKeeps == ASSUME CatInv, NEW r \in Requests, CreateReceipt(r) PROVE CatInv'
<1>1. /\ UNCHANGED <<chain, mem, market, listing, indexVars, offered, late>>
      /\ req[r].at = "creating" /\ marketExists(req[r].c)
  BY DEF CreateReceipt, chainVars
<1>2. req \in [Requests -> Request] /\ req[r] \in Request /\ RequestOK(req[r]) /\ ChainOK /\ mem' \subseteq Sent
  BY <1>1 DEF CatInv, CatalogueTypeOK, Request, Places, RequestsOK
<1>3. PICK b : b \in CreatedAt(req[r].c)
  BY <1>1 DEF marketExists
<1>4. b \in Nat
  BY <1>3, Blocks DEF CatInv, CreatedAt
<1>5. Max(CreatedAt(req[r].c)) = b
  <2>1. CreatedAt(req[r].c) = {b, b}
    BY <1>2, <1>3, CreatedOnce
  <2> QED BY <1>4, <2>1, MaxOfTwo
<1>6. PICK q : q = [req[r] EXCEPT !.at = "upsert", !.block = b]
  OBVIOUS
<1>7. q \in Request /\ q.at = "upsert" /\ q.block = b /\ q.c = req[r].c
  <2>1. "upsert" \in Places
    BY DEF Places
  <2> QED BY <1>2, <1>4, <1>6, <2>1 DEF Request
<1>8. req' = [req EXCEPT ![r] = q]
  BY <1>2, <1>5, <1>6 DEF CreateReceipt
<1>9. RequestOK(q)'
  BY <1>1, <1>2, <1>3, <1>7, ChainStays DEF RequestOK
<1> QED BY <1>1, <1>2, <1>7, <1>8, <1>9, OneRequest

LEMMA PauseMarketKeeps ==
    ASSUME CatInv, NEW r \in Requests, NEW c \in Markets, pause_market(r, c)
    PROVE  CatInv'
<1>0. market[c].there /\ market[c].paused \in BOOLEAN /\ mem \subseteq Sent /\ marketExists(c)
  BY DEF CatInv, CatalogueTypeOK, pause_market
<1>1. UNCHANGED <<chain, market, listing, indexVars, offered, late>> /\ mem' = mem \cup {[kind |-> "paused", c |-> c]}
  BY DEF pause_market
<1>2. PICK q : q = [Idle EXCEPT !.at = "pausing", !.c = c, !.paused = market[c].paused]
  OBVIOUS
<1>3. q \in Request /\ q.at = "pausing" /\ q.c = c /\ req' = [req EXCEPT ![r] = q]
  BY <1>0, <1>2 DEF Idle, Request, Places, pause_market
<1>4. RequestOK(q)'
  BY <1>0, <1>1, <1>3 DEF RequestOK
<1>5. mem' \subseteq Sent /\ \A t \in mem' \ mem : t.c = c
  BY <1>0, <1>1 DEF Sent
<1> QED BY <1>0, <1>1, <1>3, <1>4, <1>5, OneRequest

(* The rows change, the chain and the indexer's place do not.              *)
LEMMA RowsWritten ==
    ASSUME CatInv, UNCHANGED <<chain, mem, indexVars>>,
           market' \in [Markets -> Row], listing' \in [UserMarkets -> ListRow],
           offered' \in [UserMarkets -> Questions \cup {None}], late' \subseteq Markets,
           req' \in [Requests -> Request], RequestsOK',
           \A c \in Markets : market[c].there => market'[c].there,
           RowsOK(market, listing)', FlagsOK'
    PROVE  CatInv'
<1>1. CatalogueTypeOK'
  BY DEF CatInv, CatalogueTypeOK, indexVars, Request, Places, Row, ListRow
<1>2. ChainOK'
  BY ChainStays DEF CatInv, ChainOK
<1>3. Passed' = Passed /\ Cursor'
  BY DEF CatInv, Cursor, Passed, indexVars
<1>4. \A b \in DOMAIN chain : BlockIndexed(b) => BlockIndexed(b)'
  <2>1. ASSUME NEW b \in DOMAIN chain, BlockIndexed(b) PROVE BlockIndexed(b)'
    <3>1. chain[b].c \in Markets
      BY Blocks DEF CatInv
    <3>2. AmmEvent(b)' = AmmEvent(b)
      BY DEF AmmEvent
    <3> QED BY <2>1, <3>1, <3>2, ChainStays DEF BlockIndexed, indexVars
  <2> QED BY <2>1
<1>5. TicksOK'
  BY <1>3, <1>4 DEF CatInv, TicksOK, TickOK, indexVars
<1>6. PassedIsIndexed'
  BY <1>4 DEF CatInv, PassedIsIndexed, BlockIndexed, indexVars
<1> QED BY <1>1, <1>2, <1>3, <1>5, <1>6 DEF CatInv

(* A request ends after it wrote its row.                                  *)
LEMMA RequestEnds ==
    ASSUME CatInv, UNCHANGED <<chain, mem, offered>>, NEW r \in Requests, req' = [req EXCEPT ![r] = Idle],
           \A c \in Markets : market[c].there => market'[c].there
    PROVE  req' \in [Requests -> Request] /\ RequestsOK'
<1>1. req \in [Requests -> Request]
  BY DEF CatInv, CatalogueTypeOK, Request, Places
<1>2. req' \in [Requests -> Request] /\ \A s \in Requests : req'[s] = IF s = r THEN Idle ELSE req[s]
  BY <1>1, IdleRequest
<1>3. ASSUME NEW s \in Requests PROVE RequestOK(req[s])'
  <2>1. CASE s = r
    <3>1. req'[s] = Idle
      BY <1>2, <2>1
    <3> QED BY <3>1 DEF RequestOK, Idle
  <2>2. CASE s # r
    <3>1. RequestOK(req[s]) /\ req'[s] = req[s]
      BY <1>2, <2>2 DEF CatInv, RequestsOK
    <3> QED BY <3>1, ChainStays DEF RequestOK, Passes
  <2> QED BY <2>1, <2>2
<1> QED BY <1>2, <1>3 DEF RequestsOK

(* One row's flag is written.                                              *)
LEMMA OneFlag ==
    ASSUME CatInv, UNCHANGED <<chain, checkpoint, floor>>, NEW c \in Markets,
           \A d \in Markets \ {c} : market'[d] = market[d] /\ (d \in late => d \in late'),
           c \notin late' => \E k \in Passed..Len(chain) : market'[c].paused = PausedAt(c, k)
    PROVE  FlagsOK'
<1>1. Passed' = Passed
  BY DEF Passed
<1>2. ASSUME NEW d \in Markets, market'[d].there, d \notin late'
      PROVE  \E k \in Passed..Len(chain) : market'[d].paused = PausedAt(d, k)
  <2>1. CASE d = c
    BY <1>2, <2>1
  <2>2. CASE d # c
    BY <1>2, <2>2 DEF CatInv, FlagsOK
  <2> QED BY <2>1, <2>2
<1> QED BY <1>1, <1>2, ChainStays DEF FlagsOK

(* The row is written from what the request has read.                      *)
LEMMA NotedFlag ==
    ASSUME CatInv, NEW c \in Markets, NEW b \in Nat, b <= Len(chain), c \notin Noted(c, b)
    PROVE  b \in Passed..Len(chain)
<1>1. Passed \in Nat /\ Len(chain) \in Nat
  BY PassedIs, Blocks DEF CatInv
<1> QED BY <1>1 DEF Noted

LEMMA NotedOthers ==
    ASSUME CatInv, NEW c \in Markets, NEW b
    PROVE  Noted(c, b) \subseteq Markets /\ \A d \in Markets \ {c} : d \in late => d \in Noted(c, b)
  BY DEF Noted, CatInv, CatalogueTypeOK

LEMMA ListingPrepareKeeps ==
    ASSUME CatInv, NEW c \in UserMarkets, NEW q \in Questions, NEW text \in Texts, listing_prepare(c, q, text)
    PROVE  CatInv'
<1> DEFINE row == [status |-> "prepared", prep |-> TRUE, q |-> q, text |-> text]
<1>1. UNCHANGED <<chain, mem, market, indexVars, req, late>> /\ ~marketExists(c) /\ listing[c].status = None
  BY DEF listing_prepare, chainVars
<1>2. listing' = [listing EXCEPT ![c] = row] /\ offered' = [offered EXCEPT ![c] = q]
  BY DEF listing_prepare
<1>3. row \in ListRow
  BY DEF ListRow, Statuses
<1>4. listing \in [UserMarkets -> ListRow] /\ offered \in [UserMarkets -> Questions \cup {None}]
      /\ market \in [Markets -> Row] /\ req \in [Requests -> Request] /\ late \subseteq Markets
  BY DEF CatInv, CatalogueTypeOK, Row, ListRow, Request, Places
<1>5. \A d \in UserMarkets : d # c => listing'[d] = listing[d] /\ offered'[d] = offered[d]
  BY <1>2, <1>4
<1>6. listing'[c].status = "prepared" /\ listing'[c].prep /\ listing'[c].q = q /\ offered'[c] = q
  BY <1>2, <1>4
<1>7. listing' \in [UserMarkets -> ListRow] /\ offered' \in [UserMarkets -> Questions \cup {None}]
  <2> HIDE DEF row
  <2> QED BY <1>2, <1>3, <1>4
<1>8. \A d \in UserMarkets : \A u : d # c => Passes(d, u)' = Passes(d, u)
  BY <1>1, <1>5, ChainStays DEF Passes
<1>9. RowsOK(market, listing)'
  <2>1. \A d \in Markets : IF market[d].there THEN marketExists(d) /\ market[d].q = Created(d).q ELSE market[d] = NoMarket
    BY DEF CatInv, RowsOK
  <2>2. \A d \in UserMarkets : listing'[d].status = "confirmed" => market[d].there /\ Passes(d, market[d].text)'
    <3>1. ASSUME NEW d \in UserMarkets, listing'[d].status = "confirmed" PROVE market[d].there /\ Passes(d, market[d].text)'
      <4>1. d # c
        BY <1>6, <3>1
      <4>2. market[d].there /\ Passes(d, market[d].text)
        BY <1>5, <3>1, <4>1 DEF CatInv, RowsOK
      <4> QED BY <1>1, <1>5, <4>1, <4>2, ChainStays DEF Passes
    <3> QED BY <3>1
  <2>3. \A d \in UserMarkets : offered'[d] # None => listing'[d].prep /\ listing'[d].status # None /\ listing'[d].q = offered'[d]
    BY <1>5, <1>6 DEF CatInv, RowsOK, None
  <2>4. market' = market
    BY <1>1
  <2> QED BY <1>1, <2>1, <2>2, <2>3, <2>4, ChainStays DEF RowsOK, Passes
<1>10. RequestsOK'
  <2>1. ASSUME NEW s \in Requests PROVE RequestOK(req[s])'
    <3>1. RequestOK(req[s]) /\ req'[s] = req[s]
      BY <1>1 DEF CatInv, RequestsOK
    <3>2. req[s].at = "commit" => req[s].c # c /\ req[s].c \in UserMarkets
      BY <1>1, <3>1 DEF RequestOK, Read
    <3> QED BY <1>1, <1>8, <3>1, <3>2, ChainStays DEF RequestOK
  <2> QED BY <2>1 DEF RequestsOK
<1>11. Passed' = Passed /\ FlagsOK'
  BY <1>1, ChainStays DEF CatInv, FlagsOK, Passed, indexVars
<1>12. market' \in [Markets -> Row] /\ req' \in [Requests -> Request] /\ late' \subseteq Markets
  BY <1>1, <1>4
<1> QED BY <1>1, <1>7, <1>9, <1>10, <1>11, <1>12, RowsWritten

LEMMA ApplyConfirmKeeps == ASSUME CatInv, NEW r \in Requests, _apply_confirm(r) PROVE CatInv'
<1> DEFINE c == req[r].c
           e == Created(c)
           row == IF listing[c].status = None
                  THEN [status |-> "indexed", prep |-> FALSE, q |-> e.q, text |-> None] ELSE listing[c]
           here == [there |-> TRUE, paused |-> req[r].paused, q |-> e.q, text |-> IF req[r].ok THEN req[r].text ELSE None]
           ls == IF req[r].ok THEN [row EXCEPT !.status = "confirmed", !.q = e.q, !.text = req[r].text]
                 ELSE [row EXCEPT !.status = "rejected"]
<1>1. /\ UNCHANGED <<chain, mem, indexVars, offered>> /\ req[r].at = "commit"
      /\ market' = [market EXCEPT ![c] = here] /\ listing' = [listing EXCEPT ![c] = ls]
      /\ late' = Noted(c, req[r].block) /\ req' = [req EXCEPT ![r] = Idle]
  BY DEF _apply_confirm, chainVars
<1>2. req[r] \in Request /\ RequestOK(req[r])
  BY DEF CatInv, CatalogueTypeOK, Request, Places, RequestsOK
<1>3. c \in UserMarkets /\ c \in Markets /\ Read(req[r]) /\ marketExists(c) /\ (req[r].ok => Passes(c, req[r].text))
  BY <1>1, <1>2 DEF RequestOK, Read, Markets
<1>4. e.q \in Questions
  BY <1>3, CreatedOK DEF CatInv
<1>5. /\ listing \in [UserMarkets -> ListRow] /\ market \in [Markets -> Row] /\ late \subseteq Markets
      /\ offered \in [UserMarkets -> Questions \cup {None}]
  BY DEF CatInv, CatalogueTypeOK, Row, ListRow
<1>6. here \in Row
  <2> HIDE DEF c, e
  <2> QED BY <1>2, <1>4 DEF Row, Request
<1>7. row \in ListRow /\ (listing[c].status # None => row = listing[c])
  <2> HIDE DEF c, e
  <2>1. "indexed" \in Statuses
    BY DEF Statuses
  <2> QED BY <1>3, <1>4, <1>5, <2>1 DEF ListRow
<1>8. /\ ls \in ListRow
      /\ req[r].ok => ls.status = "confirmed" /\ ls.prep = row.prep /\ ls.q = e.q
      /\ ~req[r].ok => ls.status = "rejected" /\ ls.prep = row.prep /\ ls.q = row.q
  <2> HIDE DEF row, c, e
  <2>1. "confirmed" \in Statuses /\ "rejected" \in Statuses
    BY DEF Statuses
  <2> QED BY <1>2, <1>4, <1>7, <2>1 DEF ListRow, Request
<1>9. /\ here.there /\ here.q = e.q /\ here.paused = req[r].paused /\ (req[r].ok => here.text = req[r].text)
  OBVIOUS
<1> HIDE DEF here, ls, row
<1>10. /\ market' \in [Markets -> Row] /\ listing' \in [UserMarkets -> ListRow]
       /\ \A d \in Markets : market'[d] = IF d = c THEN here ELSE market[d]
       /\ \A d \in UserMarkets : listing'[d] = IF d = c THEN ls ELSE listing[d]
  <2> HIDE DEF c
  <2> QED BY <1>1, <1>3, <1>5, <1>6, <1>8
<1>11. RowsOK(market, listing)'
  <2>1. ASSUME NEW d \in Markets PROVE IF market'[d].there THEN marketExists(d) /\ market'[d].q = Created(d).q ELSE market'[d] = NoMarket
    BY <1>3, <1>9, <1>10 DEF CatInv, RowsOK
  <2>2. ASSUME NEW d \in UserMarkets, listing'[d].status = "confirmed" PROVE market'[d].there /\ Passes(d, market'[d].text)
    <3>1. CASE d = c
      BY <1>3, <1>8, <1>9, <1>10, <2>2, <3>1 DEF Passes
    <3>2. CASE d # c
      BY <1>10, <2>2, <3>2 DEF CatInv, RowsOK, Markets
    <3> QED BY <3>1, <3>2
  <2>3. ASSUME NEW d \in UserMarkets, offered[d] # None
        PROVE  listing'[d].prep /\ listing'[d].status # None /\ listing'[d].q = offered[d]
    <3>1. listing[d].prep /\ listing[d].status # None /\ listing[d].q = offered[d]
      BY <2>3 DEF CatInv, RowsOK
    <3>2. CASE d = c
      <4>1. req[r].ok => offered[c] = e.q
        BY <1>3, <2>3, <3>2 DEF Passes
      <4>2. listing'[c] = ls /\ row = listing[c] /\ "confirmed" # None /\ "rejected" # None
        BY <1>3, <1>7, <1>10, <3>1, <3>2 DEF None
      <4> QED BY <1>8, <3>1, <3>2, <4>1, <4>2
    <3>3. CASE d # c
      BY <1>10, <3>1, <3>3
    <3> QED BY <3>2, <3>3
  <2> QED BY <1>1, <2>1, <2>2, <2>3, ChainStays DEF RowsOK, Passes
<1>12. FlagsOK'
  <2>1. c \notin late' => req[r].block \in Passed..Len(chain)
    BY <1>1, <1>2, <1>3, NotedFlag DEF Read, Request
  <2>2. market'[c].paused = PausedAt(c, req[r].block)
    BY <1>3, <1>9, <1>10 DEF Read
  <2>3. \A d \in Markets \ {c} : market'[d] = market[d] /\ (d \in late => d \in late')
    BY <1>1, <1>3, <1>10, NotedOthers
  <2> HIDE DEF c
  <2> QED BY <1>1, <1>3, <2>1, <2>2, <2>3, OneFlag DEF indexVars
<1>13. late' \subseteq Markets /\ \A d \in Markets : market[d].there => market'[d].there
  BY <1>1, <1>3, <1>9, <1>10, NotedOthers
<1>14. req' \in [Requests -> Request] /\ RequestsOK'
  BY <1>1, <1>13, RequestEnds
<1>15. offered' \in [UserMarkets -> Questions \cup {None}]
  BY <1>1, <1>5
<1> QED BY <1>1, <1>10, <1>11, <1>12, <1>13, <1>14, <1>15, RowsWritten

(* Only the row of a market in the catalogue changes, and not its text.    *)
LEMMA RowRewritten ==
    ASSUME CatInv, UNCHANGED <<chain, mem, indexVars, offered, listing>>, NEW r \in Requests, NEW c \in Markets,
           req' = [req EXCEPT ![r] = Idle], marketExists(c), NEW here \in Row,
           here.there, here.q = Created(c).q, here.text = market[c].text,
           market' = [market EXCEPT ![c] = here], late' \subseteq Markets, FlagsOK'
    PROVE  CatInv'
<1>1. market \in [Markets -> Row] /\ listing \in [UserMarkets -> ListRow] /\ offered \in [UserMarkets -> Questions \cup {None}]
  BY DEF CatInv, CatalogueTypeOK, Row, ListRow
<1>2. market' \in [Markets -> Row] /\ \A d \in Markets : market'[d] = IF d = c THEN here ELSE market[d]
  BY <1>1
<1>3. RowsOK(market, listing)'
  <2>1. ASSUME NEW d \in Markets PROVE IF market'[d].there THEN marketExists(d) /\ market'[d].q = Created(d).q ELSE market'[d] = NoMarket
    BY <1>2 DEF CatInv, RowsOK
  <2>2. ASSUME NEW d \in UserMarkets, listing[d].status = "confirmed" PROVE market'[d].there /\ Passes(d, market'[d].text)
    <3>1. market[d].there /\ Passes(d, market[d].text) /\ d \in Markets
      BY <2>2 DEF CatInv, RowsOK, Markets
    <3>2. market'[d].there /\ market'[d].text = market[d].text
      BY <1>2, <3>1
    <3> QED BY <3>1, <3>2
  <2>3. \A d \in UserMarkets : offered[d] # None => listing[d].prep /\ listing[d].status # None /\ listing[d].q = offered[d]
    BY DEF CatInv, RowsOK
  <2> QED BY <2>1, <2>2, <2>3, ChainStays DEF RowsOK, Passes
<1>4. \A d \in Markets : market[d].there => market'[d].there
  BY <1>2
<1>5. req' \in [Requests -> Request] /\ RequestsOK'
  BY <1>4, RequestEnds
<1>6. listing' \in [UserMarkets -> ListRow] /\ offered' \in [UserMarkets -> Questions \cup {None}]
  BY <1>1
<1> QED BY <1>2, <1>3, <1>4, <1>5, <1>6, RowsWritten

LEMMA UpsertKeeps == ASSUME CatInv, NEW r \in Requests, _upsert_market_row(r) PROVE CatInv'
<1> DEFINE c == req[r].c
           flag == IF req[r].at = "mirror" THEN req[r].paused ELSE market[c].paused
           here == [there |-> TRUE, paused |-> flag, q |-> Created(c).q, text |-> market[c].text]
<1>0. market \in [Markets -> Row] /\ req[r] \in Request /\ RequestOK(req[r])
  BY DEF CatInv, CatalogueTypeOK, Row, Request, Places, RequestsOK
<1>1. /\ UNCHANGED <<chain, mem, indexVars, offered, listing>> /\ req[r].at \in {"upsert", "mirror"}
      /\ late' = (IF req[r].at = "mirror" \/ ~market[c].there THEN Noted(c, req[r].block) ELSE late)
      /\ req' = [req EXCEPT ![r] = Idle]
  BY DEF _upsert_market_row, chainVars
<1>2. c \in Markets /\ marketExists(c) /\ req[r].block \in Nat /\ req[r].block <= Len(chain)
  <2>1. c \in Markets /\ req[r].block \in Nat
    BY <1>0, <1>1 DEF RequestOK, Request
  <2>2. CASE req[r].at = "mirror"
    BY <1>0, <2>1, <2>2 DEF RequestOK, Read
  <2>3. CASE req[r].at = "upsert"
    <3>1. req[r].block \in CreatedAt(c)
      BY <1>0, <2>3 DEF RequestOK
    <3>2. req[r].block \in 1..Len(chain) /\ marketExists(c) /\ Len(chain) \in Nat
      BY <3>1, Blocks DEF CatInv, CreatedAt, marketExists
    <3> QED BY <2>1, <3>2
  <2> QED BY <1>1, <2>2, <2>3
<1>3. market' = [market EXCEPT ![c] = here]
  <2> HIDE DEF c
  <2> QED BY <1>0, <1>2 DEF _upsert_market_row, c
<1>4. here \in Row /\ here.there /\ here.q = Created(c).q /\ here.text = market[c].text /\ here.paused = flag
  <2>1. Created(c).q \in Questions
    BY <1>2, CreatedOK DEF CatInv
  <2>2. flag \in BOOLEAN /\ market[c].text \in Texts \cup {None}
    BY <1>0, <1>2 DEF Row, Request
  <2> HIDE DEF c, flag
  <2> QED BY <2>1, <2>2 DEF Row
<1>5. \A d \in Markets : market'[d] = IF d = c THEN here ELSE market[d]
  <2> HIDE DEF c, here
  <2> QED BY <1>0, <1>2, <1>3
<1>6. late' \subseteq Markets /\ \A d \in Markets \ {c} : market'[d] = market[d] /\ (d \in late => d \in late')
  <2> HIDE DEF c, here
  <2> QED BY <1>1, <1>2, <1>5, NotedOthers DEF CatInv, CatalogueTypeOK
<1>7. c \notin late' => \E k \in Passed..Len(chain) : market'[c].paused = PausedAt(c, k)
  <2>1. market'[c].paused = flag
    BY <1>2, <1>4, <1>5
  <2>2. CASE req[r].at = "mirror"
    <3>1. flag = PausedAt(c, req[r].block)
      BY <1>0, <2>2 DEF RequestOK, Read
    <3>2. c \notin late' => req[r].block \in Passed..Len(chain)
      BY <1>1, <1>2, <2>2, NotedFlag
    <3> QED BY <2>1, <3>1, <3>2
  <2>3. CASE req[r].at = "upsert" /\ ~market[c].there
    <3>1. req[r].block \in CreatedAt(c) /\ flag = market[c].paused
      BY <1>0, <2>3 DEF RequestOK
    <3>2. market[c] = NoMarket
      BY <1>2, <2>3 DEF CatInv, RowsOK
    <3>3. flag = FALSE /\ ~PausedAt(c, req[r].block) /\ PausedAt(c, req[r].block) \in BOOLEAN
      <4>1. ~PausedAt(c, req[r].block) /\ PausedAt(c, req[r].block) \in BOOLEAN
        <5> HIDE DEF c
        <5> QED BY <3>1, BornUnpaused DEF CatInv, PausedAt
      <4>2. market[c].paused = FALSE
        <5> HIDE DEF c
        <5> QED BY <3>2 DEF NoMarket
      <4> QED BY <3>1, <4>1, <4>2
    <3>4. c \notin late' => req[r].block \in Passed..Len(chain)
      BY <1>1, <1>2, <2>3, NotedFlag
    <3> QED BY <2>1, <3>3, <3>4
  <2>4. CASE req[r].at = "upsert" /\ market[c].there
    <3>1. late' = late /\ flag = market[c].paused
      BY <1>1, <2>4
    <3> QED BY <1>2, <2>1, <2>4, <3>1 DEF CatInv, FlagsOK
  <2> QED BY <1>1, <2>2, <2>3, <2>4
<1>8. FlagsOK'
  <2> HIDE DEF c
  <2> QED BY <1>1, <1>2, <1>6, <1>7, OneFlag DEF indexVars
<1> HIDE DEF c, here
<1> QED BY <1>1, <1>2, <1>3, <1>4, <1>6, <1>8, RowRewritten

LEMMA PauseReceiptKeeps == ASSUME CatInv, NEW r \in Requests, PauseReceipt(r) PROVE CatInv'
<1> DEFINE c == req[r].c
           mined == {b \in PauseBlocks(c, Len(chain)) : chain[b].kind = "paused"}
           here == [market[c] EXCEPT !.paused = TRUE]
<1>0. market \in [Markets -> Row] /\ req[r] \in Request /\ RequestOK(req[r]) /\ CatalogueTypeOK /\ Len(chain) \in Nat
  BY Blocks DEF CatInv, CatalogueTypeOK, Row, Request, Places, RequestsOK
<1>1. /\ UNCHANGED <<chain, mem, indexVars, offered, listing>> /\ req[r].at = "pausing"
      /\ [kind |-> "paused", c |-> c] \notin mem /\ req' = [req EXCEPT ![r] = Idle]
  BY DEF PauseReceipt, chainVars
<1>2. c \in Markets /\ market[c].there /\ \E b \in DOMAIN chain : chain[b].c = c /\ chain[b].kind = "paused"
  BY <1>0, <1>1 DEF RequestOK
<1>3. CASE req[r].paused
  <2>1. UNCHANGED <<market, late>>
    BY <1>3 DEF PauseReceipt
  <2>2. req' \in [Requests -> Request] /\ RequestsOK'
    BY <1>1, <2>1, RequestEnds
  <2>3. mem' \subseteq Sent /\ \A t \in mem' : t.kind = "paused" => marketExists(t.c)
    BY <1>0, <1>1 DEF CatInv, ChainOK, CatalogueTypeOK
  <2> QED BY <1>1, <2>1, <2>2, <2>3, RequestFrame
<1>4. CASE ~req[r].paused
  <2>1. market' = [market EXCEPT ![c] = here] /\ late' = Noted(c, Max(mined))
    <3> HIDE DEF mined
    <3>1. mined = {b \in PauseBlocks(c, Len(chain)) : chain[b].kind = "paused"}
      BY DEF mined
    <3> QED BY <1>0, <1>2, <1>4, <3>1 DEF PauseReceipt
  <2>2. mined \in SUBSET Nat /\ mined # {} /\ \A b \in mined : b <= Len(chain)
    <3>1. \A b \in DOMAIN chain : b \in Nat /\ b <= Len(chain)
      BY <1>0, Blocks
    <3> QED BY <1>2, <3>1 DEF PauseBlocks
  <2>3. Max(mined) \in mined
    <3> HIDE DEF mined
    <3> QED BY <1>0, <2>2, MaxOfBounded
  <2>4. PICK b : b = Max(mined)
    OBVIOUS
  <2>5. /\ b \in DOMAIN chain /\ b \in Nat /\ b <= Len(chain)
        /\ chain[b].c = c /\ chain[b].kind = "paused" /\ Flag(chain[b])
    <3>1. b \in mined
      BY <2>3, <2>4
    <3> QED BY <2>2, <3>1 DEF PauseBlocks, Flag
  <2>6. PausedAt(c, b) = TRUE
    BY <1>0, <2>5, PausedHere DEF PausedAt
  <2>7. here \in Row /\ here.there /\ here.q = market[c].q /\ here.text = market[c].text /\ here.paused = TRUE
    <3>1. market[c] \in Row
      BY <1>0, <1>2
    <3> QED BY <1>2, <3>1 DEF Row
  <2>8. marketExists(c) /\ market[c].q = Created(c).q
    BY <1>2 DEF CatInv, RowsOK
  <2> HIDE DEF mined, here, c
  <2>9. \A d \in Markets : market'[d] = IF d = c THEN here ELSE market[d]
    BY <1>0, <1>2, <2>1
  <2>10. late' \subseteq Markets /\ \A d \in Markets \ {c} : market'[d] = market[d] /\ (d \in late => d \in late')
    BY <1>2, <2>1, <2>9, NotedOthers
  <2>11. c \notin late' => b \in Passed..Len(chain)
    BY <1>2, <2>1, <2>4, <2>5, NotedFlag
  <2>12. market'[c].paused = PausedAt(c, b)
    BY <1>2, <2>6, <2>7, <2>9
  <2>13. FlagsOK'
    BY <1>1, <1>2, <2>10, <2>11, <2>12, OneFlag DEF indexVars
  <2> QED BY <1>1, <1>2, <2>1, <2>7, <2>8, <2>10, <2>13, RowRewritten
<1> QED BY <1>3, <1>4

----------------------------------------------------------------------------
(* The indexer: its ticks come and go.                                     *)
LEMMA TickTyped ==
    ASSUME CatalogueTypeOK
    PROVE  /\ tick \in [Instances -> TickState] /\ window \in [Instances -> MinRange..MaxRange]
           /\ Waiting \in TickState /\ MinRange \in Nat /\ MaxRange \in Nat /\ 1 <= MinRange /\ MinRange <= MaxRange
  BY CatalogueBounds DEF CatalogueTypeOK, TickState, Waiting

LEMMA TickFrame ==
    ASSUME CatInv, UNCHANGED <<chain, mem, market, listing, req, offered, late, points, checkpoint, floor>>,
           leader' \in Instances \cup {Free}, lost' \in 0..MaxLost,
           window' \in [Instances -> MinRange..MaxRange], tick' \in [Instances -> TickState],
           \A i \in Instances : tick'[i] = tick[i] \/ tick'[i].at = "idle"
    PROVE  CatInv'
<1>1. CatalogueTypeOK'
  BY DEF CatInv, CatalogueTypeOK, TickState
<1>2. ChainOK' /\ RowsOK(market, listing)'
  BY ChainStays DEF CatInv, ChainOK, RowsOK, Passes
<1>3. Passed' = Passed /\ Cursor'
  BY DEF CatInv, Cursor, Passed
<1>4. \A b \in DOMAIN chain : BlockIndexed(b)' = BlockIndexed(b)
  BY ChainStays DEF BlockIndexed, AmmEvent
<1>5. TicksOK'
  <2>1. ASSUME NEW i \in Instances PROVE TickOK(tick[i])'
    <3>1. CASE tick'[i] = tick[i]
      BY <1>3, <1>4, <3>1 DEF CatInv, TicksOK, TickOK
    <3>2. CASE tick'[i].at = "idle"
      BY <3>2 DEF TickOK
    <3> QED BY <3>1, <3>2
  <2> QED BY <2>1 DEF TicksOK
<1>6. PassedIsIndexed' /\ FlagsOK'
  BY <1>3, <1>4, ChainStays DEF CatInv, PassedIsIndexed, BlockIndexed, FlagsOK
<1>7. RequestsOK'
  BY ChainStays DEF CatInv, RequestsOK, RequestOK, Passes
<1> QED BY <1>1, <1>2, <1>3, <1>5, <1>6, <1>7 DEF CatInv

LEMMA LeaderLostKeeps == ASSUME CatInv, LeaderLost PROVE CatInv'
<1>1. lost' \in 0..MaxLost /\ leader' \in Instances \cup {Free}
  BY CatalogueBounds DEF CatInv, CatalogueTypeOK, LeaderLost
<1>2. tick' = tick /\ window' = window /\ tick \in [Instances -> TickState] /\ window \in [Instances -> MinRange..MaxRange]
  BY TickTyped DEF CatInv, LeaderLost
<1> QED BY <1>1, <1>2, TickFrame DEF LeaderLost, chainVars

LEMMA ReleaseKeeps == ASSUME CatInv, NEW i \in Instances, release_indexer_leadership(i) PROVE CatInv'
<1>1. lost' \in 0..MaxLost /\ leader' \in Instances \cup {Free}
  BY CatalogueBounds DEF CatInv, CatalogueTypeOK, release_indexer_leadership
<1>2. tick' = [tick EXCEPT ![i] = Waiting] /\ window' = [window EXCEPT ![i] = MaxRange]
  BY DEF release_indexer_leadership
<1>3. tick' \in [Instances -> TickState] /\ window' \in [Instances -> MinRange..MaxRange]
  BY <1>2, TickTyped DEF CatInv
<1>4. \A j \in Instances : tick'[j] = tick[j] \/ tick'[j].at = "idle"
  BY <1>2, TickTyped DEF CatInv, Waiting
<1> QED BY <1>1, <1>3, <1>4, TickFrame DEF release_indexer_leadership, chainVars

LEMMA TickAbortedKeeps == ASSUME CatInv, NEW i \in Instances, TickAborted(i) PROVE CatInv'
<1>1. tick' = [tick EXCEPT ![i] = Waiting]
  BY DEF TickAborted
<1>2. tick' \in [Instances -> TickState] /\ \A j \in Instances : tick'[j] = tick[j] \/ tick'[j].at = "idle"
  BY <1>1, TickTyped DEF CatInv, Waiting
<1>3. UNCHANGED <<chain, mem, market, listing, req, offered, late, points, checkpoint, floor, leader, lost, window>>
  BY DEF TickAborted, chainVars
<1>4. lost' \in 0..MaxLost /\ leader' \in Instances \cup {Free} /\ window' \in [Instances -> MinRange..MaxRange]
  BY <1>3, TickTyped DEF CatInv, CatalogueTypeOK
<1> QED BY <1>2, <1>3, <1>4, TickFrame

(* The checkpoint advances to block b.                                     *)
LEMMA CursorMoves ==
    ASSUME CatInv, UNCHANGED <<chain, floor>>, checkpoint # NoBlock, NEW b \in Nat, b <= Len(chain),
           checkpoint' = advance_checkpoint(b)
    PROVE  /\ checkpoint' \in Nat /\ checkpoint' # NoBlock /\ Cursor'
           /\ checkpoint' = IF checkpoint >= b THEN checkpoint ELSE b
           /\ Passed' = IF Passed >= b THEN Passed ELSE b
<1>0. CatalogueTypeOK /\ Cursor
  BY DEF CatInv
<1>1. checkpoint \in Nat /\ floor \in Nat /\ StartBlock \in Nat /\ Len(chain) \in Nat
  BY <1>0, Blocks, CatalogueBounds DEF CatalogueTypeOK
<1>2. checkpoint' = IF checkpoint >= b THEN checkpoint ELSE b
  BY <1>1, MaxOfTwo DEF advance_checkpoint
<1>3. checkpoint' \in Nat /\ checkpoint' # NoBlock
  BY <1>1, <1>2 DEF NoBlock
<1>4. Passed = IF checkpoint >= floor THEN checkpoint ELSE floor
  BY <1>1, MaxOfTwo DEF Passed
<1>5. Passed' = IF checkpoint' >= floor THEN checkpoint' ELSE floor
  <2>1. Passed' = Max({checkpoint', floor})
    BY DEF Passed
  <2>2. Max({checkpoint', floor}) = IF checkpoint' >= floor THEN checkpoint' ELSE floor
    BY <1>1, <1>3, MaxOfTwo
  <2> QED BY <2>1, <2>2
<1>6. Passed' = IF Passed >= b THEN Passed ELSE b
  BY <1>1, <1>2, <1>4, <1>5
<1>7. Max({Len(chain), StartBlock}) \in Int /\ Max({Len(chain), StartBlock}) >= Len(chain)
  BY <1>1, MaxOfTwo
<1>8. Cursor'
  <2>1. checkpoint' <= Max({Len(chain), StartBlock})
    BY <1>0, <1>1, <1>2, <1>7 DEF Cursor
  <2>2. checkpoint' <= Len(chain) \/ checkpoint' <= floor
    BY <1>0, <1>1, <1>2 DEF Cursor
  <2> QED BY <1>0, <1>3, <2>1, <2>2 DEF Cursor
<1> QED BY <1>2, <1>3, <1>6, <1>8

(* A range ends, with or without its writes; up to block b all is indexed. *)
LEMMA RangeEnds ==
    ASSUME CatInv, UNCHANGED <<chain, mem, leader, lost, req, floor, offered>>, checkpoint # NoBlock,
           NEW b \in Nat, b <= Len(chain), checkpoint' = advance_checkpoint(b),
           market' \in [Markets -> Row], listing' \in [UserMarkets -> ListRow], late' \subseteq Markets,
           points \subseteq points', points' \subseteq Nat,
           window' \in [Instances -> MinRange..MaxRange], tick' \in [Instances -> TickState],
           \A i \in Instances : \/ tick'[i] = tick[i] \/ tick'[i].at = "idle"
                                \/ tick'[i].lo = b + 1 /\ b + 1 <= tick'[i].head /\ tick'[i].head <= Len(chain),
           \A c \in Markets : market[c].there => market'[c].there,
           \A x \in DOMAIN chain : x > floor /\ x <= b => BlockIndexed(x)',
           RowsOK(market, listing)', FlagsOK'
    PROVE  CatInv'
<1>0. CatalogueTypeOK /\ ChainOK
  BY DEF CatInv
<1>1. /\ checkpoint' \in Nat /\ checkpoint' # NoBlock /\ Cursor'
      /\ checkpoint' = IF checkpoint >= b THEN checkpoint ELSE b
      /\ Passed' = IF Passed >= b THEN Passed ELSE b
  BY CursorMoves
<1>2. Passed \in Nat /\ checkpoint \in Nat /\ floor \in Nat /\ Len(chain) \in Nat
  BY <1>0, PassedIs, Blocks DEF CatalogueTypeOK
<1>3. CatalogueTypeOK'
  BY <1>0, <1>1 DEF CatalogueTypeOK, Row, ListRow, TickState
<1>4. ChainOK'
  BY <1>0, ChainStays DEF ChainOK
<1>5. \A x \in DOMAIN chain : x \in Nat /\ (BlockIndexed(x) => BlockIndexed(x)')
  <2>1. ASSUME NEW x \in DOMAIN chain, BlockIndexed(x) PROVE BlockIndexed(x)'
    <3>1. chain[x].c \in Markets
      BY <1>0, Blocks
    <3>2. AmmEvent(x)' = AmmEvent(x)
      BY DEF AmmEvent
    <3> QED BY <2>1, <3>1, <3>2, ChainStays DEF BlockIndexed
  <2> QED BY <1>0, <2>1, Blocks
<1>6. TicksOK'
  <2>1. ASSUME NEW i \in Instances PROVE TickOK(tick[i])'
    <3>1. CASE tick'[i] = tick[i]
      <4>1. TickOK(tick[i]) /\ tick[i].lo \in Nat
        BY <1>0, TickTyped DEF CatInv, TicksOK, TickState
      <4> QED BY SMTT(60), <1>1, <1>2, <1>5, <3>1, <4>1 DEF TickOK
    <3>2. CASE tick'[i].at = "idle"
      BY <3>2 DEF TickOK
    <3>3. CASE tick'[i].lo = b + 1 /\ b + 1 <= tick'[i].head /\ tick'[i].head <= Len(chain)
      <4>1. \A x \in DOMAIN chain : x > floor /\ x < b + 1 => BlockIndexed(x)'
        BY <1>5
      <4>2. b + 1 <= Passed' + 1 /\ 1 <= b + 1
        BY <1>1, <1>2
      <4> QED BY <1>1, <3>3, <4>1, <4>2 DEF TickOK
    <3> QED BY <3>1, <3>2, <3>3
  <2> QED BY <2>1 DEF TicksOK
<1>7. PassedIsIndexed'
  <2>1. ASSUME NEW x \in DOMAIN chain, x > floor, x <= checkpoint' PROVE BlockIndexed(x)'
    <3>1. CASE x <= checkpoint
      <4>1. BlockIndexed(x)
        BY <2>1, <3>1 DEF CatInv, PassedIsIndexed, BlockIndexed
      <4> QED BY <1>5, <4>1
    <3>2. CASE ~(x <= checkpoint)
      <4>1. x <= b
        BY <1>1, <1>2, <1>5, <2>1, <3>2
      <4> QED BY <2>1, <4>1
    <3> QED BY <3>1, <3>2
  <2> QED BY <2>1 DEF PassedIsIndexed, BlockIndexed
<1>8. RequestsOK'
  BY ChainStays DEF CatInv, RequestsOK, RequestOK, Passes
<1> QED BY <1>1, <1>3, <1>4, <1>6, <1>7, <1>8 DEF CatInv

(* Where a range lies, and what its end leaves in the window.              *)
LEMMA RangeIs ==
    ASSUME CatInv, NEW i \in Instances, tick[i].at = "range", NEW hi, hi = RangeEnd(tick[i].lo, window[i], tick[i].head)
    PROVE  /\ tick[i].lo \in Nat /\ tick[i].head \in Nat /\ hi \in Nat /\ 1 <= tick[i].lo /\ tick[i].lo <= hi
           /\ hi <= tick[i].head /\ tick[i].head <= Len(chain) /\ Len(chain) \in Nat
           /\ tick[i].lo <= Passed + 1 /\ Passed \in Nat /\ checkpoint # NoBlock
           /\ \A x \in DOMAIN chain : x > floor /\ x < tick[i].lo => BlockIndexed(x)
<1>1. TickOK(tick[i]) /\ tick[i] \in TickState /\ window[i] \in MinRange..MaxRange
  BY TickTyped DEF CatInv, TicksOK
<1>2. window[i] \in Nat /\ 1 <= window[i] /\ tick[i].lo \in Nat /\ tick[i].head \in Nat
  BY <1>1, TickTyped DEF CatInv, TickState
<1>3. tick[i].lo + window[i] - 1 \in Int /\ tick[i].head \in Int
  BY <1>2
<1>4. hi = IF tick[i].lo + window[i] - 1 <= tick[i].head THEN tick[i].lo + window[i] - 1 ELSE tick[i].head
  BY <1>3, MinOfTwo DEF RangeEnd
<1>5. Len(chain) \in Nat /\ Passed \in Nat
  BY Blocks, PassedIs DEF CatInv
<1> QED BY <1>1, <1>2, <1>4, <1>5 DEF TickOK

LEMMA WindowHalved ==
    ASSUME CatalogueTypeOK, NEW i \in Instances, NEW lo \in Nat, NEW head \in Nat, lo <= head,
           NEW hi, hi = RangeEnd(lo, window[i], head)
    PROVE  Halved(lo, hi) \in MinRange..MaxRange
<1>1. window[i] \in Nat /\ window[i] <= MaxRange /\ 1 <= window[i] /\ MinRange \in Nat /\ MaxRange \in Nat /\ MinRange <= MaxRange
  BY TickTyped
<1>2. lo + window[i] - 1 \in Int /\ head \in Int
  BY <1>1
<1>3. hi = IF lo + window[i] - 1 <= head THEN lo + window[i] - 1 ELSE head
  BY <1>2, MinOfTwo DEF RangeEnd
<1>4. hi - lo + 1 \in Nat /\ hi - lo + 1 <= MaxRange
  BY <1>1, <1>3
<1>5. (hi - lo + 1) \div 2 \in Int /\ (hi - lo + 1) \div 2 <= MaxRange
  <2>1. \A n \in Nat : n \div 2 \in Nat /\ n \div 2 <= n
    BY SMT
  <2> QED BY <1>1, <1>4, <2>1
<1>6. Halved(lo, hi) = IF MinRange >= (hi - lo + 1) \div 2 THEN MinRange ELSE (hi - lo + 1) \div 2
  BY <1>1, <1>5, MaxOfTwo DEF Halved
<1> QED BY <1>1, <1>5, <1>6

LEMMA WindowDoubled ==
    ASSUME CatalogueTypeOK, NEW i \in Instances
    PROVE  Min({MaxRange, 2 * window[i]}) \in MinRange..MaxRange
<1>1. window[i] \in Nat /\ window[i] <= MaxRange /\ MinRange <= window[i] /\ MinRange \in Nat /\ MaxRange \in Nat /\ MinRange <= MaxRange
  BY TickTyped
<1>2. Min({MaxRange, 2 * window[i]}) = IF MaxRange <= 2 * window[i] THEN MaxRange ELSE 2 * window[i]
  BY <1>1, MinOfTwo
<1> QED BY <1>1, <1>2

(* A failed range leaves what the checkpoint has passed as it was.         *)
LEMMA TickFailsIs ==
    ASSUME CatInv, NEW i \in Instances, tick[i].at = "range", NEW lo, lo = tick[i].lo,
           NEW hi, hi = RangeEnd(lo, window[i], tick[i].head), TickFails(i, lo, hi)
    PROVE  /\ window' \in [Instances -> MinRange..MaxRange] /\ tick' \in [Instances -> TickState]
           /\ \A j \in Instances : tick'[j] = tick[j] \/ tick'[j].at = "idle"
           /\ lo - 1 \in Nat /\ lo - 1 <= Passed /\ lo - 1 <= Len(chain) /\ checkpoint' = advance_checkpoint(lo - 1)
<1>1. /\ lo \in Nat /\ 1 <= lo /\ lo <= hi /\ hi <= tick[i].head /\ hi <= Len(chain) /\ lo <= Passed + 1
      /\ hi \in Nat /\ tick[i].head \in Nat /\ Len(chain) \in Nat /\ Passed \in Nat
  BY RangeIs
<1>2. Halved(lo, hi) \in MinRange..MaxRange
  <2>1. CatalogueTypeOK /\ lo <= tick[i].head
    BY <1>1 DEF CatInv
  <2>2. PICK head \in Nat : head = tick[i].head
    BY <1>1
  <2>3. lo <= head /\ hi = RangeEnd(lo, window[i], head)
    BY <2>1, <2>2
  <2> QED BY <1>1, <2>1, <2>3, WindowHalved
<1>3. window' = [window EXCEPT ![i] = Halved(lo, hi)] /\ tick' = [tick EXCEPT ![i] = Waiting]
      /\ checkpoint' = advance_checkpoint(lo - 1)
  BY DEF TickFails
<1>4. window' \in [Instances -> MinRange..MaxRange] /\ tick' \in [Instances -> TickState]
  BY <1>2, <1>3, TickTyped DEF CatInv
<1>5. \A j \in Instances : tick'[j] = tick[j] \/ tick'[j].at = "idle"
  BY <1>3, TickTyped DEF CatInv, Waiting
<1> QED BY <1>1, <1>3, <1>4, <1>5

LEMMA RangeLogsFailedKeeps == ASSUME CatInv, NEW i \in Instances, RangeLogsFailed(i) PROVE CatInv'
<1>1. PICK lo, hi : lo = tick[i].lo /\ hi = RangeEnd(lo, window[i], tick[i].head)
  OBVIOUS
<1>2. tick[i].at = "range" /\ TickFails(i, lo, hi)
      /\ UNCHANGED <<chain, mem, market, listing, points, leader, lost, req, floor, offered, late>>
  BY <1>1 DEF RangeLogsFailed, chainVars
<1>3. /\ window' \in [Instances -> MinRange..MaxRange] /\ tick' \in [Instances -> TickState]
      /\ \A j \in Instances : tick'[j] = tick[j] \/ tick'[j].at = "idle"
      /\ lo - 1 \in Nat /\ lo - 1 <= Passed /\ lo - 1 <= Len(chain) /\ checkpoint' = advance_checkpoint(lo - 1)
  BY <1>1, <1>2, TickFailsIs
<1>4. checkpoint # NoBlock /\ Passed \in Nat /\ lo \in Nat
      /\ \A x \in DOMAIN chain : x > floor /\ x < lo => BlockIndexed(x)
  BY <1>1, <1>2, RangeIs
<1>5. Passed' = Passed
  <2>1. Passed' = IF Passed >= lo - 1 THEN Passed ELSE lo - 1
    BY <1>2, <1>3, <1>4, CursorMoves
  <2> QED BY <1>3, <1>4, <2>1
<1>6. \A x \in DOMAIN chain : x > floor /\ x <= lo - 1 => BlockIndexed(x)'
  <2>1. ASSUME NEW x \in DOMAIN chain, x > floor, x <= lo - 1 PROVE BlockIndexed(x)'
    <3>1. BlockIndexed(x)
      BY <1>4, <2>1, Blocks DEF CatInv
    <3>2. AmmEvent(x)' = AmmEvent(x)
      BY <1>2 DEF AmmEvent
    <3> QED BY <1>2, <3>1, <3>2, ChainStays DEF BlockIndexed
  <2> QED BY <2>1
<1>7. RowsOK(market, listing)' /\ FlagsOK'
  BY <1>2, <1>5, ChainStays DEF CatInv, RowsOK, Passes, FlagsOK
<1>8. /\ market' \in [Markets -> Row] /\ listing' \in [UserMarkets -> ListRow] /\ late' \subseteq Markets
      /\ points \subseteq points' /\ points' \subseteq Nat
      /\ \A c \in Markets : market[c].there => market'[c].there
  BY <1>2 DEF CatInv, CatalogueTypeOK, Row, ListRow
<1> QED BY <1>2, <1>3, <1>4, <1>6, <1>7, <1>8, RangeEnds
----------------------------------------------------------------------------
(* What an event writes.                                                   *)
LEMMA ListingWritten ==
    ASSUME ChainOK, NEW rows \in Rows, RowsOK(rows.mk, rows.ls), NEW b \in DOMAIN chain, chain[b].kind = "list",
           rows.mk[chain[b].c].there, NEW unread, NEW new, new = ListingIndexed(rows, chain[b], unread)
    PROVE  /\ new \in Rows /\ RowsOK(new.mk, new.ls)
           /\ \A d \in Markets : new.mk[d].there = rows.mk[d].there /\ new.mk[d].paused = rows.mk[d].paused
<1> DEFINE e == chain[b]
           c == e.c
           row == rows.ls[c]
           here == IF row.status = None THEN [status |-> "indexed", prep |-> FALSE, q |-> e.q, text |-> None] ELSE row
           ls == [rows.ls EXCEPT ![c] = here]
<1>1. c \in UserMarkets /\ c \in Markets /\ e.q \in Questions /\ e.text \in Texts
  BY DEF ChainOK, EventOK, Creation, Markets
<1>2. b \in CreatedAt(c)
  BY DEF CreatedAt
<1>3. Created(c) = e
  BY <1>2, CreatedOnce
<1>4. rows.mk \in [Markets -> Row] /\ rows.ls \in [UserMarkets -> ListRow] /\ row \in ListRow /\ rows.mk[c] \in Row
  <2>1. rows.mk \in [Markets -> Row] /\ rows.ls \in [UserMarkets -> ListRow]
    BY DEF Rows
  <2> QED BY <1>1, <2>1
<1>5. here \in ListRow /\ (row.status # None => here = row) /\ (row.status = None => here.status = "indexed")
  <2>1. "indexed" \in Statuses
    BY DEF Statuses
  <2> HIDE DEF row, e, c
  <2> QED BY <1>1, <1>4, <2>1 DEF ListRow
<1>6. PICK text, pass : text = here.text /\ pass = review_user_listing(rows.mk, ls, c, e.q, here.text)
  OBVIOUS
<1>7. text \in Texts \cup {None}
  <2> HIDE DEF here
  <2> QED BY SMTT(60), <1>5, <1>6 DEF ListRow
<1>8. new = IF here.status \in {"confirmed", "rejected"} \/ c \in unread \/ text # e.text
            THEN [rows EXCEPT !.ls = ls]
            ELSE IF pass
            THEN [rows EXCEPT !.ls = [ls EXCEPT ![c].status = "confirmed", ![c].q = e.q], !.mk[c].text = text]
            ELSE [rows EXCEPT !.ls = [ls EXCEPT ![c].status = "rejected"]]
  BY <1>6 DEF ListingIndexed
<1>9. offered[c] # None => row.prep /\ row.status # None /\ row.q = offered[c]
  BY <1>1 DEF RowsOK
<1>10. text = e.text /\ pass => Passes(c, text)
  <2>1. ls[c] = here
    <3> HIDE DEF here
    <3> QED BY <1>1, <1>4
  <2>2. offered[c] # None => ls[c].prep /\ ls[c].q = offered[c]
    <3> HIDE DEF here, ls, row
    <3> QED BY <1>5, <1>9, <2>1
  <2>3. pass = review_user_listing(rows.mk, ls, c, Created(c).q, text)
    BY <1>3, <1>6
  <2> HIDE DEF ls, here, row, c
  <2>4. text = e.text => text = Created(c).text
    BY <1>3
  <2> QED BY <2>2, <2>3, <2>4, Reviewed
<1>11. row.status = "confirmed" => Passes(c, rows.mk[c].text)
  BY <1>1 DEF RowsOK
<1> HIDE DEF here
<1>12. PICK h \in ListRow, k \in Row :
         /\ new = [mk |-> [rows.mk EXCEPT ![c] = k], ls |-> [rows.ls EXCEPT ![c] = h]]
         /\ k.there = rows.mk[c].there /\ k.paused = rows.mk[c].paused /\ k.q = rows.mk[c].q
         /\ offered[c] # None => h.prep /\ h.status # None /\ h.q = offered[c]
         /\ h.status = "confirmed" => Passes(c, k.text)
  <2>1. rows = [mk |-> rows.mk, ls |-> rows.ls]
    BY DEF Rows
  <2>2. CASE here.status \in {"confirmed", "rejected"} \/ c \in unread \/ text # e.text
    <3> DEFINE k == rows.mk[c]
    <3>1. rows.mk = [rows.mk EXCEPT ![c] = k]
      BY <1>4
    <3>2. new = [mk |-> [rows.mk EXCEPT ![c] = k], ls |-> [rows.ls EXCEPT ![c] = here]]
      BY <1>8, <2>1, <2>2, <3>1
    <3>3. offered[c] # None => here.prep /\ here.status # None /\ here.q = offered[c]
      BY <1>5, <1>9
    <3>4. here.status = "confirmed" => Passes(c, k.text)
      BY <1>5, <1>11
    <3> QED BY <1>4, <1>5, <3>2, <3>3, <3>4
  <2>3. CASE ~(here.status \in {"confirmed", "rejected"} \/ c \in unread \/ text # e.text) /\ pass
    <3> DEFINE k == [rows.mk[c] EXCEPT !.text = text]
               h == [here EXCEPT !.status = "confirmed", !.q = e.q]
    <3>1. [rows.mk EXCEPT ![c].text = text] = [rows.mk EXCEPT ![c] = k]
      BY <1>4
    <3>2. [ls EXCEPT ![c].status = "confirmed", ![c].q = e.q] = [rows.ls EXCEPT ![c] = h]
      BY <1>1, <1>4
    <3>3. new = [mk |-> [rows.mk EXCEPT ![c] = k], ls |-> [rows.ls EXCEPT ![c] = h]]
      BY <1>8, <2>1, <2>3, <3>1, <3>2
    <3>4. k \in Row /\ k.there = rows.mk[c].there /\ k.paused = rows.mk[c].paused /\ k.q = rows.mk[c].q /\ k.text = text
      <4>1. PICK o \in Row : o = rows.mk[c]
        BY <1>4
      <4> QED BY <1>7, <4>1 DEF Row
    <3>5. h \in ListRow /\ h.status = "confirmed" /\ h.prep = here.prep /\ h.q = e.q
      <4>1. "confirmed" \in Statuses
        BY DEF Statuses
      <4> HIDE DEF e, c
      <4> QED BY <1>1, <1>5, <4>1 DEF ListRow
    <3>6. Passes(c, text)
      BY <1>10, <2>3
    <3>7. offered[c] # None => h.prep /\ h.status # None /\ h.q = offered[c]
      <4>1. offered[c] # None => offered[c] = e.q
        BY <1>3, <3>6 DEF Passes
      <4>2. "confirmed" # None
        BY DEF None
      <4> HIDE DEF h
      <4> QED BY <1>5, <1>9, <3>5, <4>1, <4>2
    <3> HIDE DEF h, k
    <3> QED BY <3>3, <3>4, <3>5, <3>6, <3>7
  <2>4. CASE ~(here.status \in {"confirmed", "rejected"} \/ c \in unread \/ text # e.text) /\ ~pass
    <3> DEFINE k == rows.mk[c]
               h == [here EXCEPT !.status = "rejected"]
    <3>1. rows.mk = [rows.mk EXCEPT ![c] = k]
      BY <1>4
    <3>2. [ls EXCEPT ![c].status = "rejected"] = [rows.ls EXCEPT ![c] = h]
      BY <1>1, <1>4
    <3>3. new = [mk |-> [rows.mk EXCEPT ![c] = k], ls |-> [rows.ls EXCEPT ![c] = h]]
      BY <1>8, <2>1, <2>4, <3>1, <3>2
    <3>4. h \in ListRow /\ h.status = "rejected" /\ h.prep = here.prep /\ h.q = here.q
      <4>1. "rejected" \in Statuses
        BY DEF Statuses
      <4> QED BY <1>5, <4>1 DEF ListRow
    <3>5. "rejected" # None
      BY DEF None
    <3> HIDE DEF h, k
    <3>6. offered[c] # None => h.prep /\ h.status # None /\ h.q = offered[c]
      BY <1>5, <1>9, <3>4, <3>5
    <3> QED BY <1>4, <3>3, <3>4, <3>6 DEF k
  <2> QED BY <2>2, <2>3, <2>4
<1> HIDE DEF c, e, row, ls
<1>13. /\ new.mk \in [Markets -> Row] /\ new.ls \in [UserMarkets -> ListRow] /\ new \in Rows
       /\ \A d \in Markets : new.mk[d] = IF d = c THEN k ELSE rows.mk[d]
       /\ \A d \in UserMarkets : new.ls[d] = IF d = c THEN h ELSE rows.ls[d]
  BY <1>1, <1>4, <1>12 DEF Rows
<1>14. rows.mk[c].there
  BY DEF c, e
<1>15. RowsOK(new.mk, new.ls)
  <2>1. \A d \in Markets : IF new.mk[d].there THEN marketExists(d) /\ new.mk[d].q = Created(d).q ELSE new.mk[d] = NoMarket
    <3>1. ASSUME NEW d \in Markets
          PROVE  IF new.mk[d].there THEN marketExists(d) /\ new.mk[d].q = Created(d).q ELSE new.mk[d] = NoMarket
      <4>1. IF rows.mk[d].there THEN marketExists(d) /\ rows.mk[d].q = Created(d).q ELSE rows.mk[d] = NoMarket
        BY DEF RowsOK
      <4>2. new.mk[d] = IF d = c THEN k ELSE rows.mk[d]
        BY <1>13
      <4>3. CASE d = c
        <5>1. new.mk[d] = k /\ k.there /\ k.q = rows.mk[d].q /\ rows.mk[d].there
          BY <1>12, <1>14, <4>2, <4>3
        <5> QED BY <4>1, <5>1
      <4>4. CASE d # c
        <5>1. new.mk[d] = rows.mk[d]
          BY <4>2, <4>4
        <5> QED BY <4>1, <5>1
      <4> QED BY <4>3, <4>4
    <3> QED BY <3>1
  <2>2. \A d \in UserMarkets : new.ls[d].status = "confirmed" => new.mk[d].there /\ Passes(d, new.mk[d].text)
    BY ZenonT(60), <1>1, <1>12, <1>13, <1>14 DEF RowsOK, Markets
  <2>3. \A d \in UserMarkets : offered[d] # None => new.ls[d].prep /\ new.ls[d].status # None /\ new.ls[d].q = offered[d]
    BY <1>12, <1>13 DEF RowsOK
  <2> QED BY <2>1, <2>2, <2>3 DEF RowsOK
<1> QED BY <1>12, <1>13, <1>15

LEMMA EventWritten ==
    ASSUME CatInv, NEW rows \in Rows, RowsOK(rows.mk, rows.ls), NEW b \in DOMAIN chain,
           NEW unread, NEW new, new = EventIndexed(rows, chain[b], unread)
    PROVE  /\ new \in Rows /\ RowsOK(new.mk, new.ls)
           /\ \A d \in Markets :
                /\ new.mk[d].there <=> rows.mk[d].there \/ (Creation(chain[b]) /\ chain[b].c = d)
                /\ new.mk[d].paused = IF Flag(chain[b]) /\ chain[b].c = d /\ rows.mk[d].there
                                      THEN chain[b].kind = "paused" ELSE rows.mk[d].paused
<1> DEFINE e == chain[b]
           c == e.c
<1>0. CatalogueTypeOK /\ ChainOK
  BY DEF CatInv
<1>1. c \in Markets /\ EventOK(e) /\ e \in Event
  BY <1>0, Blocks DEF ChainOK
<1>2. rows.mk \in [Markets -> Row] /\ rows.ls \in [UserMarkets -> ListRow] /\ rows.mk[c] \in Row
      /\ rows = [mk |-> rows.mk, ls |-> rows.ls]
  <2>1. rows.mk \in [Markets -> Row] /\ rows.ls \in [UserMarkets -> ListRow] /\ rows = [mk |-> rows.mk, ls |-> rows.ls]
    BY DEF Rows
  <2> QED BY <1>1, <2>1
<1>3. CASE Creation(e)
  <2> DEFINE born == [there |-> TRUE, paused |-> FALSE, q |-> e.q, text |-> None]
             inserted == IF rows.mk[c].there THEN rows ELSE [rows EXCEPT !.mk[c] = born]
  <2>1. new = IF e.kind = "list" THEN ListingIndexed(inserted, e, unread) ELSE inserted
    BY <1>3 DEF EventIndexed, Creation
  <2>2. marketExists(c) /\ Created(c) = e
    <3>1. b \in CreatedAt(c)
      BY <1>3 DEF CreatedAt, Creation
    <3> QED BY <1>0, <3>1, CreatedOnce
  <2>3. /\ inserted \in Rows /\ RowsOK(inserted.mk, inserted.ls) /\ inserted.mk[c].there
        /\ \A d \in Markets : /\ inserted.mk[d].there <=> rows.mk[d].there \/ c = d
                              /\ inserted.mk[d].paused = rows.mk[d].paused
    <3>1. CASE rows.mk[c].there
      <4>1. inserted = rows
        BY <3>1
      <4> HIDE DEF inserted, c
      <4> QED BY <3>1, <4>1
    <3>2. CASE ~rows.mk[c].there
      <4>1. rows.mk[c] = NoMarket
        BY <1>1, <3>2 DEF RowsOK
      <4>2. born \in Row /\ born.there /\ born.q = Created(c).q /\ born.paused = FALSE
        BY <1>1, <1>3, <2>2 DEF Row, EventOK
      <4>3. inserted = [mk |-> [rows.mk EXCEPT ![c] = born], ls |-> rows.ls]
        BY <1>2, <3>2
      <4> HIDE DEF inserted, c, born
      <4>4. /\ inserted.mk \in [Markets -> Row] /\ inserted.ls = rows.ls /\ inserted \in Rows
            /\ \A d \in Markets : inserted.mk[d] = IF d = c THEN born ELSE rows.mk[d]
        BY <1>1, <1>2, <4>2, <4>3 DEF Rows
      <4>5. \A d \in Markets : IF inserted.mk[d].there THEN marketExists(d) /\ inserted.mk[d].q = Created(d).q ELSE inserted.mk[d] = NoMarket
        BY <2>2, <4>2, <4>4 DEF RowsOK
      <4>6. ASSUME NEW d \in UserMarkets, rows.ls[d].status = "confirmed"
            PROVE  inserted.mk[d].there /\ Passes(d, inserted.mk[d].text)
        <5>1. rows.mk[d].there /\ Passes(d, rows.mk[d].text) /\ d \in Markets
          BY <4>6 DEF RowsOK, Markets
        <5>2. d # c
          BY <3>2, <5>1
        <5> QED BY <4>4, <5>1, <5>2
      <4>7. \A d \in UserMarkets : offered[d] # None => rows.ls[d].prep /\ rows.ls[d].status # None /\ rows.ls[d].q = offered[d]
        BY DEF RowsOK
      <4>8. RowsOK(inserted.mk, inserted.ls)
        BY <4>4, <4>5, <4>6, <4>7 DEF RowsOK
      <4>9. rows.mk[c].paused = FALSE /\ rows.mk[c].there = FALSE
        BY <4>1 DEF NoMarket
      <4> QED BY <1>1, <4>2, <4>4, <4>8, <4>9
    <3> QED BY <3>1, <3>2
  <2>4. ~Flag(e)
    BY <1>3 DEF Creation, Flag
  <2>5. CASE e.kind = "list"
    <3>1. PICK r \in Rows : r = inserted
      BY <2>3
    <3>2. RowsOK(r.mk, r.ls) /\ r.mk[chain[b].c].there /\ new = ListingIndexed(r, chain[b], unread)
      BY <2>1, <2>3, <2>5, <3>1
    <3>3. /\ new \in Rows /\ RowsOK(new.mk, new.ls)
          /\ \A d \in Markets : new.mk[d].there = r.mk[d].there /\ new.mk[d].paused = r.mk[d].paused
      BY <1>0, <2>5, <3>2, ListingWritten
    <3> QED BY ZenonT(60), <1>3, <2>3, <2>4, <3>1, <3>3
  <2>6. CASE e.kind # "list"
    <3>1. new = inserted
      BY <2>1, <2>6
    <3> QED BY <1>3, <2>3, <2>4, <3>1
  <2> QED BY <2>5, <2>6
<1>4. CASE Flag(e) /\ rows.mk[c].there
  <2> DEFINE k == [rows.mk[c] EXCEPT !.paused = e.kind = "paused"]
  <2>1. new = [rows EXCEPT !.mk[c].paused = e.kind = "paused"]
    BY <1>4 DEF EventIndexed, Flag
  <2>2. new = [mk |-> [rows.mk EXCEPT ![c] = k], ls |-> rows.ls]
    BY <1>2, <2>1
  <2>3. k \in Row /\ k.there /\ k.paused = (e.kind = "paused") /\ k.q = rows.mk[c].q /\ k.text = rows.mk[c].text
    <3>1. PICK o \in Row : o = rows.mk[c]
      BY <1>2
    <3>2. (e.kind = "paused") \in BOOLEAN
      OBVIOUS
    <3> QED BY <1>4, <3>1, <3>2 DEF Row
  <2>4. ~Creation(e)
    BY <1>4 DEF Creation, Flag
  <2> HIDE DEF k, c
  <2>5. /\ new.mk \in [Markets -> Row] /\ new.ls = rows.ls /\ new \in Rows
        /\ \A d \in Markets : new.mk[d] = IF d = c THEN k ELSE rows.mk[d]
    BY <1>1, <1>2, <2>2, <2>3 DEF Rows
  <2>6. \A d \in Markets : new.mk[d].there = rows.mk[d].there /\ new.mk[d].q = rows.mk[d].q /\ new.mk[d].text = rows.mk[d].text
    <3>1. rows.mk[c].there = TRUE /\ k.there = TRUE
      <4>1. k.there \in BOOLEAN /\ rows.mk[c].there \in BOOLEAN
        BY <1>2, <2>3 DEF Row
      <4> QED BY <1>4, <2>3, <4>1
    <3> QED BY <2>3, <2>5, <3>1
  <2>7. RowsOK(new.mk, new.ls)
    <3>1. \A d \in Markets : IF new.mk[d].there THEN marketExists(d) /\ new.mk[d].q = Created(d).q ELSE new.mk[d] = NoMarket
      BY <1>4, <2>5, <2>6 DEF RowsOK
    <3>2. \A d \in UserMarkets : new.ls[d].status = "confirmed" => new.mk[d].there /\ Passes(d, new.mk[d].text)
      BY <2>5, <2>6 DEF RowsOK, Markets
    <3>3. \A d \in UserMarkets : offered[d] # None => new.ls[d].prep /\ new.ls[d].status # None /\ new.ls[d].q = offered[d]
      BY <2>5 DEF RowsOK
    <3> QED BY <3>1, <3>2, <3>3 DEF RowsOK
  <2>8. \A d \in Markets : new.mk[d].paused = IF c = d THEN e.kind = "paused" ELSE rows.mk[d].paused
    BY <2>3, <2>5
  <2> QED BY <1>4, <2>4, <2>5, <2>6, <2>7, <2>8 DEF c
<1>5. CASE ~Creation(e) /\ ~(Flag(e) /\ rows.mk[c].there)
  <2>1. new = rows
    BY <1>5 DEF EventIndexed, Creation, Flag
  <2> QED BY <1>5, <2>1
<1> QED BY <1>3, <1>4, <1>5

(* What the rows hold when the events of lo..b have been written over what *)
(* the session found: a flag that one of them wrote is that of block b.    *)
CreatedIn(c, lo, b) == \E x \in lo..b : Creation(chain[x]) /\ chain[x].c = c
FlaggedIn(c, lo, b) == \E x \in lo..b : Flag(chain[x]) /\ chain[x].c = c
WrittenTo(rows, lo, b) ==
    /\ rows \in Rows /\ RowsOK(rows.mk, rows.ls)
    /\ \A c \in Markets :
        /\ rows.mk[c].there <=> market[c].there \/ CreatedIn(c, lo, b)
        /\ rows.mk[c].there /\ (~market[c].there \/ FlaggedIn(c, lo, b)) => rows.mk[c].paused = PausedAt(c, b)
        /\ market[c].there /\ ~FlaggedIn(c, lo, b) => rows.mk[c].paused = market[c].paused

LEMMA NothingWritten ==
    ASSUME CatInv, NEW lo \in Nat, 1 <= lo
    PROVE  WrittenTo([mk |-> market, ls |-> listing], lo, lo - 1)
<1>1. market \in [Markets -> Row] /\ listing \in [UserMarkets -> ListRow] /\ RowsOK(market, listing)
  BY DEF CatInv, CatalogueTypeOK, Row, ListRow
<1>2. lo..(lo - 1) = {}
  OBVIOUS
<1> QED BY <1>1, <1>2 DEF WrittenTo, CreatedIn, FlaggedIn, Rows

LEMMA OneMoreWritten ==
    ASSUME CatInv, NEW lo \in Nat, NEW b \in Nat, 1 <= lo, lo <= b, b <= Len(chain),
           NEW rows, WrittenTo(rows, lo, b - 1), NEW unread, NEW new, new = EventIndexed(rows, chain[b], unread)
    PROVE  WrittenTo(new, lo, b)
<1>0. CatalogueTypeOK /\ ChainOK
  BY DEF CatInv
<1>1. b \in DOMAIN chain /\ b - 1 \in Nat /\ b - 1 <= b /\ DOMAIN chain = 1..Len(chain) /\ Len(chain) \in Nat
  BY <1>0, Blocks
<1>2. lo..b = (lo..(b - 1)) \cup {b}
  OBVIOUS
<1>3. /\ new \in Rows /\ RowsOK(new.mk, new.ls)
      /\ \A d \in Markets :
           /\ new.mk[d].there <=> rows.mk[d].there \/ (Creation(chain[b]) /\ chain[b].c = d)
           /\ new.mk[d].paused = IF Flag(chain[b]) /\ chain[b].c = d /\ rows.mk[d].there
                                 THEN chain[b].kind = "paused" ELSE rows.mk[d].paused
  <2>1. PICK r \in Rows : r = rows
    BY DEF WrittenTo
  <2>2. RowsOK(r.mk, r.ls) /\ new = EventIndexed(r, chain[b], unread)
    BY <2>1 DEF WrittenTo
  <2> QED BY <1>1, <2>1, <2>2, EventWritten
<1>4. ASSUME NEW c \in Markets
      PROVE  /\ new.mk[c].there <=> market[c].there \/ CreatedIn(c, lo, b)
             /\ new.mk[c].there /\ (~market[c].there \/ FlaggedIn(c, lo, b)) => new.mk[c].paused = PausedAt(c, b)
             /\ market[c].there /\ ~FlaggedIn(c, lo, b) => new.mk[c].paused = market[c].paused
  <2>1. /\ rows.mk[c].there <=> market[c].there \/ CreatedIn(c, lo, b - 1)
        /\ rows.mk[c].there /\ (~market[c].there \/ FlaggedIn(c, lo, b - 1)) => rows.mk[c].paused = PausedAt(c, b - 1)
        /\ market[c].there /\ ~FlaggedIn(c, lo, b - 1) => rows.mk[c].paused = market[c].paused
        /\ rows \in Rows /\ RowsOK(rows.mk, rows.ls)
    BY DEF WrittenTo
  <2>2. CreatedIn(c, lo, b) <=> CreatedIn(c, lo, b - 1) \/ (Creation(chain[b]) /\ chain[b].c = c)
    BY <1>2 DEF CreatedIn
  <2>3. FlaggedIn(c, lo, b) <=> FlaggedIn(c, lo, b - 1) \/ (Flag(chain[b]) /\ chain[b].c = c)
    BY <1>2 DEF FlaggedIn
  <2>4. new.mk[c].there <=> market[c].there \/ CreatedIn(c, lo, b)
    BY <1>3, <2>1, <2>2
  <2>5. CASE Flag(chain[b]) /\ chain[b].c = c
    <3>1. ~Creation(chain[b])
      BY <2>5 DEF Creation, Flag
    <3>2. FlaggedIn(c, lo, b)
      BY <2>3, <2>5
    <3>3. ASSUME new.mk[c].there PROVE new.mk[c].paused = PausedAt(c, b)
      <4>1. rows.mk[c].there /\ new.mk[c].paused = (chain[b].kind = "paused")
        BY <1>3, <2>5, <3>1, <3>3
      <4>2. PausedAt(c, b) = (chain[b].kind = "paused")
        BY <1>0, <1>1, <2>5, PausedHere DEF PausedAt
      <4> QED BY <4>1, <4>2
    <3> QED BY <2>4, <3>2, <3>3
  <2>6. CASE ~(Flag(chain[b]) /\ chain[b].c = c)
    <3>1. new.mk[c].paused = rows.mk[c].paused
      BY <1>3, <2>6
    <3>2. FlaggedIn(c, lo, b) <=> FlaggedIn(c, lo, b - 1)
      BY <2>3, <2>6
    <3>3. PausedAt(c, b) = PausedAt(c, b - 1)
      <4>1. \A x \in DOMAIN chain : x > b - 1 /\ x <= b => x = b
        BY <1>1
      <4>2. \A x \in DOMAIN chain : x > b - 1 /\ x <= b => ~(chain[x].c = c /\ Flag(chain[x]))
        BY <2>6, <4>1
      <4> QED BY <1>0, <1>1, <4>2, PausedSame
    <3>4. ASSUME new.mk[c].there, ~market[c].there \/ FlaggedIn(c, lo, b) PROVE new.mk[c].paused = PausedAt(c, b)
      <4>1. CASE rows.mk[c].there
        BY <2>1, <3>1, <3>2, <3>3, <3>4, <4>1
      <4>2. CASE ~rows.mk[c].there
        <5>1. b \in CreatedAt(c)
          BY <1>1, <1>3, <3>4, <4>2 DEF CreatedAt, Creation
        <5>2. PausedAt(c, b) = FALSE
          BY <1>0, <5>1, BornUnpaused DEF PausedAt
        <5>3. rows.mk[c].paused = FALSE
          BY <2>1, <4>2 DEF RowsOK, NoMarket
        <5> QED BY <3>1, <5>2, <5>3
      <4> QED BY <4>1, <4>2
    <3> QED BY <2>1, <2>4, <3>1, <3>2, <3>4
  <2> QED BY <2>5, <2>6
<1> QED BY <1>3, <1>4 DEF WrittenTo

(* Every recursion over the events of lo..hi ends with what they wrote.    *)
Along(f, lo, hi, unread) ==
    f = [n \in 0..(hi - lo + 1) |-> IF n = 0 THEN [mk |-> market, ls |-> listing]
                                    ELSE EventIndexed(f[n - 1], chain[lo + n - 1], unread)]

LEMMA AlongWrites ==
    ASSUME CatInv, NEW lo \in Nat, NEW hi \in Nat, 1 <= lo, lo <= hi, hi <= Len(chain),
           NEW unread, NEW f, Along(f, lo, hi, unread)
    PROVE  WrittenTo(f[hi - lo + 1], lo, hi)
<1> DEFINE N == hi - lo + 1
           G == {n \in 0..N : WrittenTo(f[n], lo, lo + n - 1)}
<1>1. N \in Nat /\ Len(chain) \in Nat
  BY Blocks DEF CatInv
<1>2. f[0] = [mk |-> market, ls |-> listing]
  BY <1>1 DEF Along
<1>3. \A n \in 1..N : f[n] = EventIndexed(f[n - 1], chain[lo + n - 1], unread)
  <2>1. \A n \in 1..N : n \in 0..N /\ n # 0
    BY <1>1
  <2> QED BY <2>1 DEF Along
<1>4. 0 \in G
  <2>1. WrittenTo(f[0], lo, lo - 1)
    BY <1>2, NothingWritten
  <2>2. lo + 0 - 1 = lo - 1 /\ 0 \in 0..N
    BY <1>1
  <2> QED BY <2>1, <2>2
<1>5. ASSUME NEW n \in 1..N, n - 1 \in G PROVE n \in G
  <2>1. PICK b \in Nat : b = lo + n - 1
    BY <1>1
  <2>2. lo <= b /\ b <= Len(chain) /\ lo + (n - 1) - 1 = b - 1 /\ n \in 0..N
    BY <1>1, <2>1
  <2>3. WrittenTo(f[n - 1], lo, b - 1)
    BY <1>5, <2>2
  <2>4. WrittenTo(f[n], lo, b)
    BY <1>3, <2>1, <2>2, <2>3, OneMoreWritten
  <2> QED BY <2>1, <2>2, <2>4
<1>6. \A n \in 0..N : n \in G
  <2>1. \A n \in 1..N : n - 1 \in G => n \in G
    BY <1>5
  <2> HIDE DEF G, N
  <2> QED BY <1>1, <1>4, <2>1, UpTo
<1>7. N \in 0..N /\ lo + N - 1 = hi
  BY <1>1
<1>8. WrittenTo(f[N], lo, lo + N - 1)
  BY <1>6, <1>7
<1> QED BY <1>7, <1>8

LEMMA AlongExists ==
    ASSUME CatInv, NEW lo \in Nat, NEW hi \in Nat, 1 <= lo, lo <= hi, hi <= Len(chain), NEW unread
    PROVE  \E f : Along(f, lo, hi, unread)
<1> DEFINE N == hi - lo + 1
           base == [mk |-> market, ls |-> listing]
           step == [p \in Rows \X Event |-> IF EventIndexed(p[1], p[2], unread) \in Rows
                                            THEN EventIndexed(p[1], p[2], unread) ELSE base]
           s == [n \in 1..N |-> chain[lo + n - 1]]
<1>1. N \in Nat /\ Len(chain) \in Nat /\ base \in Rows
  BY Blocks DEF CatInv, CatalogueTypeOK, Rows, Row, ListRow
<1>2. \A n \in 1..N : lo + n - 1 \in 1..Len(chain)
  BY <1>1
<1>3. s \in [1..N -> Event]
  <2>1. \A b \in 1..Len(chain) : chain[b] \in Event
    BY Blocks DEF CatInv
  <2> QED BY <1>2, <2>1
<1>4. step \in [Rows \X Event -> Rows]
  <2> HIDE DEF base
  <2> QED BY <1>1
<1>5. PICK g \in [0..N -> Rows] : Solves(g, base, step, N, s)
  <2> HIDE DEF step, s, base, N
  <2> QED BY <1>1, <1>3, <1>4, RecursionAlong
<1>6. \A r \in Rows, e \in Event : EventIndexed(r, e, unread) \in Rows => step[<<r, e>>] = EventIndexed(r, e, unread)
  <2>1. ASSUME NEW r \in Rows, NEW e \in Event, EventIndexed(r, e, unread) \in Rows
        PROVE  step[<<r, e>>] = EventIndexed(r, e, unread)
    <3>1. <<r, e>> \in Rows \X Event /\ <<r, e>>[1] = r /\ <<r, e>>[2] = e
      OBVIOUS
    <3>2. step[<<r, e>>] = IF EventIndexed(<<r, e>>[1], <<r, e>>[2], unread) \in Rows
                           THEN EventIndexed(<<r, e>>[1], <<r, e>>[2], unread) ELSE base
      <4> HIDE DEF base
      <4> QED BY <3>1
    <3> QED BY <2>1, <3>1, <3>2
  <2> QED BY <2>1
<1> DEFINE G == {n \in 0..N : WrittenTo(g[n], lo, lo + n - 1)}
<1>7. ASSUME NEW n \in 1..N, n - 1 \in G
      PROVE  n \in G /\ g[n] = EventIndexed(g[n - 1], chain[lo + n - 1], unread)
  <2>1. PICK b \in Nat : b = lo + n - 1
    BY <1>1
  <2>2. lo <= b /\ b <= Len(chain) /\ lo + (n - 1) - 1 = b - 1 /\ n \in 0..N /\ n - 1 \in 0..N /\ b \in 1..Len(chain)
    BY <1>1, <2>1
  <2>3. WrittenTo(g[n - 1], lo, b - 1) /\ g[n - 1] \in Rows
    BY <1>7, <2>2
  <2>4. PICK new : new = EventIndexed(g[n - 1], chain[b], unread)
    OBVIOUS
  <2>5. WrittenTo(new, lo, b)
    BY <2>2, <2>3, <2>4, OneMoreWritten
  <2>6. new \in Rows /\ chain[b] \in Event
    BY <2>2, <2>5, Blocks DEF WrittenTo, CatInv
  <2>7. g[n] = step[<<g[n - 1], s[n]>>]
    BY <1>5 DEF Solves
  <2>8. s[n] = chain[b]
    BY <2>1
  <2>9. g[n] = new
    <3> HIDE DEF step, s
    <3> QED BY <1>6, <2>3, <2>4, <2>6, <2>7, <2>8
  <2> HIDE DEF step, s, base
  <2> QED BY <2>1, <2>2, <2>4, <2>5, <2>9
<1> HIDE DEF step, s
<1>8. g[0] = base
  BY <1>5 DEF Solves
<1>9. \A n \in 0..N : n \in G
  <2>1. 0 \in G
    <3>1. WrittenTo(g[0], lo, lo - 1)
      BY <1>8, NothingWritten
    <3>2. lo + 0 - 1 = lo - 1 /\ 0 \in 0..N
      BY <1>1
    <3> QED BY <3>1, <3>2
  <2>2. \A n \in 1..N : n - 1 \in G => n \in G
    BY <1>7
  <2> HIDE DEF G, N
  <2> QED BY <1>1, <2>1, <2>2, UpTo
<1>10. \A n \in 1..N : g[n] = EventIndexed(g[n - 1], chain[lo + n - 1], unread)
  <2>1. \A n \in 1..N : n - 1 \in 0..N
    BY <1>1
  <2> HIDE DEF G
  <2> QED BY <1>7, <1>9, <2>1
<1> HIDE DEF G, base
<1>11. g = [n \in 0..N |-> IF n = 0 THEN base ELSE EventIndexed(g[n - 1], chain[lo + n - 1], unread)]
  <2>1. ASSUME NEW n \in 0..N PROVE g[n] = IF n = 0 THEN base ELSE EventIndexed(g[n - 1], chain[lo + n - 1], unread)
    <3>1. n = 0 \/ n \in 1..N
      BY <1>1
    <3> QED BY <1>8, <1>10, <3>1
  <2> QED BY <1>5, <2>1
<1> QED BY <1>11 DEF Along, base

LEMMA FactoryWritten ==
    ASSUME CatInv, NEW lo \in Nat, NEW hi \in Nat, 1 <= lo, lo <= hi, hi <= Len(chain), NEW unread
    PROVE  WrittenTo(FactoryIndexed(lo, hi, unread), lo, hi)
<1>1. chain \in Seq(Event) /\ Len(chain) \in Nat
  BY Blocks DEF CatInv, CatalogueTypeOK
<1>2. /\ Len(SubSeq(chain, lo, hi)) = hi - lo + 1
      /\ \A n \in 1..(hi - lo + 1) : SubSeq(chain, lo, hi)[n] = chain[lo + n - 1]
  <2>1. lo \in 1..(Len(chain) + 1) /\ hi \in (lo - 1)..Len(chain)
    BY <1>1
  <2> QED BY <1>1, <2>1, SubSeqProperties
<1> DEFINE F(f) == f = [n \in 0..Len(SubSeq(chain, lo, hi)) |->
                          IF n = 0 THEN [mk |-> market, ls |-> listing]
                          ELSE EventIndexed(f[n - 1], SubSeq(chain, lo, hi)[n], unread)]
<1>3. \A f : F(f) <=> Along(f, lo, hi, unread)
  <2>1. \A n \in 0..(hi - lo + 1) : n = 0 \/ n \in 1..(hi - lo + 1)
    OBVIOUS
  <2>2. ASSUME NEW f PROVE
        [n \in 0..Len(SubSeq(chain, lo, hi)) |->
            IF n = 0 THEN [mk |-> market, ls |-> listing] ELSE EventIndexed(f[n - 1], SubSeq(chain, lo, hi)[n], unread)]
      = [n \in 0..(hi - lo + 1) |->
            IF n = 0 THEN [mk |-> market, ls |-> listing] ELSE EventIndexed(f[n - 1], chain[lo + n - 1], unread)]
    BY <1>2, <2>1
  <2> QED BY <2>2 DEF Along
<1>4. F(CHOOSE f : F(f))
  <2>1. \E f : F(f)
    BY <1>3, AlongExists
  <2> HIDE DEF F
  <2> QED BY <2>1
<1>5. FactoryIndexed(lo, hi, unread) = (CHOOSE f : F(f))[hi - lo + 1]
  BY <1>2 DEF FactoryIndexed
<1> HIDE DEF F
<1>6. PICK f : f = (CHOOSE g : F(g))
  OBVIOUS
<1>7. Along(f, lo, hi, unread)
  BY <1>3, <1>4, <1>6
<1> QED BY <1>5, <1>6, <1>7, AlongWrites

LEMMA TouchedIs ==
    ASSUME CatalogueTypeOK, NEW lo \in Nat, NEW hi \in Nat, 1 <= lo, hi <= Len(chain), NEW c
    PROVE  c \in Touched(lo, hi) <=> FlaggedIn(c, lo, hi) \/ (~market[c].there /\ CreatedIn(c, lo, hi))
<1>1. \A x \in lo..hi : /\ x \in DOMAIN chain
                        /\ x \in CreatedAt(chain[x].c) <=> Creation(chain[x])
                        /\ chain[x].kind # "swap" <=> Creation(chain[x]) \/ Flag(chain[x])
                        /\ ~(Creation(chain[x]) /\ Flag(chain[x]))
  <2>1. ASSUME NEW x \in lo..hi
        PROVE  /\ x \in DOMAIN chain
               /\ x \in CreatedAt(chain[x].c) <=> Creation(chain[x])
               /\ chain[x].kind # "swap" <=> Creation(chain[x]) \/ Flag(chain[x])
               /\ ~(Creation(chain[x]) /\ Flag(chain[x]))
    <3>1. x \in DOMAIN chain
      BY Blocks
    <3>2. chain[x].kind \in {"create", "list", "paused", "unpaused", "swap"}
      BY <3>1, Blocks DEF Event
    <3> QED BY <3>1, <3>2 DEF CreatedAt, Creation, Flag
  <2> QED BY <2>1
<1> QED BY <1>1 DEF Touched, FlaggedIn, CreatedIn

(* The factory half of a range, whether the checkpoint moves or not.       *)
LEMMA FactoryKeeps ==
    ASSUME CatInv, UNCHANGED <<chain, floor, offered>>, NEW lo \in Nat, NEW hi \in Nat, 1 <= lo, lo <= hi, hi <= Len(chain),
           lo <= Passed + 1, NEW unread, FactoryWrites(lo, hi, unread),
           Passed' = Passed \/ (Passed' = hi /\ Passed <= hi)
    PROVE  /\ market' \in [Markets -> Row] /\ listing' \in [UserMarkets -> ListRow] /\ late' \subseteq Markets
           /\ RowsOK(market, listing)' /\ FlagsOK'
           /\ \A c \in Markets : market[c].there => market'[c].there
           /\ \A x \in lo..hi : Creation(chain[x]) => market'[chain[x].c].there
<1>0. CatalogueTypeOK /\ Passed \in Nat /\ Len(chain) \in Nat
  BY PassedIs, Blocks DEF CatInv
<1>1. PICK rows : rows = FactoryIndexed(lo, hi, unread)
  OBVIOUS
<1>2. WrittenTo(rows, lo, hi)
  BY <1>1, FactoryWritten
<1>3. /\ market' = rows.mk /\ listing' = rows.ls
      /\ late' = IF hi < Passed THEN late \cup Touched(lo, hi) ELSE late \ Touched(lo, hi)
  BY <1>1 DEF FactoryWrites
<1>4. /\ market' \in [Markets -> Row] /\ listing' \in [UserMarkets -> ListRow]
      /\ \A c \in Markets :
          /\ market'[c].there <=> market[c].there \/ CreatedIn(c, lo, hi)
          /\ market'[c].there /\ (~market[c].there \/ FlaggedIn(c, lo, hi)) => market'[c].paused = PausedAt(c, hi)
          /\ market[c].there /\ ~FlaggedIn(c, lo, hi) => market'[c].paused = market[c].paused
  BY <1>2, <1>3 DEF WrittenTo, Rows
<1>5. RowsOK(market, listing)'
  <2>1. RowsOK(rows.mk, rows.ls)
    BY <1>2 DEF WrittenTo
  <2> QED BY <1>3, <2>1, ChainStays DEF RowsOK, Passes
<1>6. \A c \in Markets : c \in Touched(lo, hi) <=> FlaggedIn(c, lo, hi) \/ (~market[c].there /\ CreatedIn(c, lo, hi))
  BY <1>0, TouchedIs
<1>7. Touched(lo, hi) \subseteq Markets /\ late \subseteq Markets
  <2>1. \A x \in lo..hi : x \in DOMAIN chain
    BY <1>0, Blocks
  <2>2. \A x \in lo..hi : chain[x].c \in Markets
    BY <1>0, <2>1, Blocks
  <2> QED BY <1>0, <2>2 DEF Touched, CatalogueTypeOK
<1>8. \A x \in lo..hi : Creation(chain[x]) => market'[chain[x].c].there
  <2>1. ASSUME NEW x \in lo..hi, Creation(chain[x]) PROVE market'[chain[x].c].there
    <3>1. x \in DOMAIN chain
      BY <1>0, Blocks
    <3>2. chain[x].c \in Markets /\ CreatedIn(chain[x].c, lo, hi)
      BY <1>0, <2>1, <3>1, Blocks DEF CreatedIn
    <3> QED BY <1>4, <3>2
  <2> QED BY <2>1
<1>9. ASSUME NEW c \in Markets, market'[c].there, c \notin late'
      PROVE  \E k \in Passed'..Len(chain) : market'[c].paused = PausedAt(c, k)
  <2>1. CASE c \in Touched(lo, hi)
    <3>1. ~(hi < Passed)
      BY <1>3, <1>9, <2>1
    <3>2. hi \in Passed'..Len(chain)
      BY <1>0, <3>1
    <3>3. market'[c].paused = PausedAt(c, hi)
      BY <1>4, <1>6, <1>9, <2>1
    <3> QED BY <3>2, <3>3
  <2>2. CASE c \notin Touched(lo, hi)
    <3>1. c \notin late /\ ~FlaggedIn(c, lo, hi) /\ market[c].there
      BY <1>3, <1>4, <1>6, <1>9, <2>2
    <3>2. PICK k \in Passed..Len(chain) : market[c].paused = PausedAt(c, k)
      BY <3>1 DEF CatInv, FlagsOK
    <3>3. market'[c].paused = PausedAt(c, k) /\ k \in Nat
      BY <1>0, <1>4, <3>1, <3>2
    <3>4. CASE Passed' <= k
      <4>1. k \in Passed'..Len(chain)
        BY <1>0, <3>2, <3>4
      <4> QED BY <3>3, <4>1
    <3>5. CASE ~(Passed' <= k)
      <4>1. Passed' = hi /\ k <= hi /\ hi \in Passed'..Len(chain)
        BY <1>0, <3>2, <3>5
      <4>2. \A b \in DOMAIN chain : b > k /\ b <= hi => ~(chain[b].c = c /\ Flag(chain[b]))
        <5>1. ASSUME NEW b \in DOMAIN chain, b > k, b <= hi PROVE b \in lo..hi
          BY <1>0, <3>2, <5>1, Blocks
        <5> QED BY <3>1, <5>1 DEF FlaggedIn
      <4>3. PausedAt(c, hi) = PausedAt(c, k)
        BY <1>0, <3>3, <4>1, <4>2, PausedSame
      <4> QED BY <3>3, <4>1, <4>3
    <3> QED BY <3>4, <3>5
  <2> QED BY <2>1, <2>2
<1>10. FlagsOK'
  BY <1>9, ChainStays DEF FlagsOK
<1> QED BY <1>3, <1>4, <1>5, <1>7, <1>8, <1>10

LEMMA RangeIndexedKeeps == ASSUME CatInv, NEW i \in Instances, RangeIndexed(i) PROVE CatInv'
<1>1. PICK lo, hi, head : lo = tick[i].lo /\ head = tick[i].head /\ hi = RangeEnd(lo, window[i], head)
  OBVIOUS
<1>2. /\ tick[i].at = "range" /\ UNCHANGED <<chain, mem, leader, lost, req, floor, offered>>
      /\ \E unread \in SUBSET UserMarkets : FactoryWrites(lo, hi, unread)
      /\ _insert_point(lo..hi) /\ checkpoint' = advance_checkpoint(hi)
      /\ IF hi < head /\ tick[i].left > 1
         THEN tick' = [tick EXCEPT ![i].lo = hi + 1, ![i].left = @ - 1] /\ UNCHANGED window
         ELSE tick' = [tick EXCEPT ![i] = Waiting] /\ window' = [window EXCEPT ![i] = Min({MaxRange, 2 * @})]
  BY <1>1 DEF RangeIndexed, chainVars
<1>3. /\ lo \in Nat /\ head \in Nat /\ hi \in Nat /\ 1 <= lo /\ lo <= hi
      /\ hi <= head /\ head <= Len(chain) /\ Len(chain) \in Nat
      /\ lo <= Passed + 1 /\ Passed \in Nat /\ checkpoint # NoBlock
      /\ \A x \in DOMAIN chain : x > floor /\ x < lo => BlockIndexed(x)
  BY <1>1, <1>2, RangeIs
<1>4. hi <= Len(chain) /\ CatalogueTypeOK
  BY <1>3 DEF CatInv
<1>5. Passed' = Passed \/ (Passed' = hi /\ Passed <= hi)
  <2>1. Passed' = IF Passed >= hi THEN Passed ELSE hi
    BY <1>2, <1>3, <1>4, CursorMoves
  <2> QED BY <1>3, <2>1
<1>6. PICK unread \in SUBSET UserMarkets : FactoryWrites(lo, hi, unread)
  BY <1>2
<1>7. /\ market' \in [Markets -> Row] /\ listing' \in [UserMarkets -> ListRow] /\ late' \subseteq Markets
      /\ RowsOK(market, listing)' /\ FlagsOK'
      /\ \A c \in Markets : market[c].there => market'[c].there
      /\ \A x \in lo..hi : Creation(chain[x]) => market'[chain[x].c].there
  BY <1>2, <1>3, <1>4, <1>5, <1>6, FactoryKeeps
<1>8. points' = points \cup {x \in lo..hi : AmmEvent(x)} /\ points \subseteq points' /\ points' \subseteq Nat
  <2>1. points' = points \cup {x \in lo..hi : AmmEvent(x)}
    BY <1>2 DEF _insert_point
  <2>2. points \subseteq Nat /\ lo..hi \subseteq Nat
    BY <1>3, <1>4 DEF CatalogueTypeOK
  <2> QED BY <2>1, <2>2
<1>9. \A x \in DOMAIN chain : x > floor /\ x <= hi => BlockIndexed(x)'
  <2>1. ASSUME NEW x \in DOMAIN chain, x > floor, x <= hi PROVE BlockIndexed(x)'
    <3>0. x \in Nat /\ AmmEvent(x)' = AmmEvent(x) /\ chain[x].c \in Markets
      BY <1>2, <1>4, Blocks DEF AmmEvent
    <3>1. CASE x < lo
      <4>1. BlockIndexed(x)
        BY <1>3, <2>1, <3>1
      <4> QED BY <1>2, <1>7, <1>8, <3>0, <4>1, ChainStays DEF BlockIndexed
    <3>2. CASE ~(x < lo)
      <4>1. x \in lo..hi
        BY <1>3, <2>1, <3>0, <3>2
      <4>2. x \in CreatedAt(chain[x].c) => Creation(chain[x])
        BY DEF CreatedAt, Creation
      <4> QED BY <1>2, <1>7, <1>8, <3>0, <4>1, <4>2, ChainStays DEF BlockIndexed
    <3> QED BY <3>1, <3>2
  <2> QED BY <2>1
<1>10. tick \in [Instances -> TickState] /\ window \in [Instances -> MinRange..MaxRange] /\ Waiting \in TickState
  BY <1>4, TickTyped
<1>11. /\ window' \in [Instances -> MinRange..MaxRange] /\ tick' \in [Instances -> TickState]
       /\ \A j \in Instances : \/ tick'[j] = tick[j] \/ tick'[j].at = "idle"
                               \/ tick'[j].lo = hi + 1 /\ hi + 1 <= tick'[j].head /\ tick'[j].head <= Len(chain)
  <2>1. CASE hi < head /\ tick[i].left > 1
    <3>1. PICK t \in TickState : t = tick[i]
      BY <1>10
    <3>2. PICK u : u = [t EXCEPT !.lo = hi + 1, !.left = t.left - 1]
      OBVIOUS
    <3>3. u \in TickState /\ u.lo = hi + 1 /\ u.head = head
      <4>1. t.left \in Nat /\ t.left > 1 /\ t.head = head
        BY <1>1, <2>1, <3>1 DEF TickState
      <4>2. hi + 1 \in Nat /\ t.left - 1 \in Nat
        BY <1>3, <4>1
      <4> QED BY <3>1, <3>2, <4>1, <4>2 DEF TickState
    <3>4. tick' = [tick EXCEPT ![i] = u]
      BY <1>2, <1>10, <2>1, <3>1, <3>2
    <3>5. tick' \in [Instances -> TickState] /\ \A j \in Instances : tick'[j] = IF j = i THEN u ELSE tick[j]
      BY <1>10, <3>3, <3>4
    <3>6. hi + 1 <= head
      BY <1>3, <2>1
    <3> QED BY <1>2, <1>3, <1>10, <2>1, <3>3, <3>5, <3>6
  <2>2. CASE ~(hi < head /\ tick[i].left > 1)
    <3>1. Min({MaxRange, 2 * window[i]}) \in MinRange..MaxRange
      BY <1>4, WindowDoubled
    <3>2. tick' = [tick EXCEPT ![i] = Waiting] /\ window' = [window EXCEPT ![i] = Min({MaxRange, 2 * window[i]})]
      BY <1>2, <1>10, <2>2
    <3>3. window' \in [Instances -> MinRange..MaxRange]
      BY <1>10, <3>1, <3>2
    <3>4. tick' \in [Instances -> TickState] /\ \A j \in Instances : tick'[j] = tick[j] \/ tick'[j].at = "idle"
      BY <1>10, <3>2 DEF Waiting
    <3> QED BY <3>3, <3>4
  <2> QED BY <2>1, <2>2
<1> QED BY <1>2, <1>3, <1>4, <1>7, <1>8, <1>9, <1>11, RangeEnds

LEMMA RangeAmmFailedKeeps == ASSUME CatInv, NEW i \in Instances, RangeAmmFailed(i) PROVE CatInv'
<1>1. PICK lo, hi : lo = tick[i].lo /\ hi = RangeEnd(lo, window[i], tick[i].head)
  OBVIOUS
<1>2. /\ tick[i].at = "range" /\ UNCHANGED <<chain, mem, leader, lost, req, floor, offered>>
      /\ \E unread \in SUBSET UserMarkets : FactoryWrites(lo, hi, unread)
      /\ \E k \in (lo - 1)..hi : _insert_point(lo..k)
      /\ TickFails(i, lo, hi)
  BY <1>1 DEF RangeAmmFailed, chainVars
<1>3. /\ lo \in Nat /\ hi \in Nat /\ 1 <= lo /\ lo <= hi /\ hi <= Len(chain) /\ Len(chain) \in Nat
      /\ lo <= Passed + 1 /\ Passed \in Nat /\ checkpoint # NoBlock /\ CatalogueTypeOK
      /\ \A x \in DOMAIN chain : x > floor /\ x < lo => BlockIndexed(x)
  BY <1>1, <1>2, RangeIs DEF CatInv
<1>4. /\ window' \in [Instances -> MinRange..MaxRange] /\ tick' \in [Instances -> TickState]
      /\ \A j \in Instances : tick'[j] = tick[j] \/ tick'[j].at = "idle"
      /\ lo - 1 \in Nat /\ lo - 1 <= Passed /\ lo - 1 <= Len(chain) /\ checkpoint' = advance_checkpoint(lo - 1)
  BY <1>1, <1>2, TickFailsIs
<1>5. Passed' = Passed
  <2>1. Passed' = IF Passed >= lo - 1 THEN Passed ELSE lo - 1
    BY <1>2, <1>3, <1>4, CursorMoves
  <2> QED BY <1>3, <1>4, <2>1
<1>6. PICK unread \in SUBSET UserMarkets : FactoryWrites(lo, hi, unread)
  BY <1>2
<1>7. /\ market' \in [Markets -> Row] /\ listing' \in [UserMarkets -> ListRow] /\ late' \subseteq Markets
      /\ RowsOK(market, listing)' /\ FlagsOK'
      /\ \A c \in Markets : market[c].there => market'[c].there
  BY <1>2, <1>3, <1>5, <1>6, FactoryKeeps
<1>8. points \subseteq points' /\ points' \subseteq Nat
  <2>1. PICK k \in (lo - 1)..hi : points' = points \cup {x \in lo..k : AmmEvent(x)}
    BY <1>2 DEF _insert_point
  <2>2. points \subseteq Nat /\ lo..k \subseteq Nat
    BY <1>3 DEF CatalogueTypeOK
  <2> QED BY <2>1, <2>2
<1>9. \A x \in DOMAIN chain : x > floor /\ x <= lo - 1 => BlockIndexed(x)'
  <2>1. ASSUME NEW x \in DOMAIN chain, x > floor, x <= lo - 1 PROVE BlockIndexed(x)'
    <3>1. x \in Nat /\ AmmEvent(x)' = AmmEvent(x) /\ chain[x].c \in Markets
      BY <1>2, <1>3, Blocks DEF AmmEvent
    <3>2. BlockIndexed(x)
      BY <1>3, <2>1, <3>1
    <3> QED BY <1>2, <1>7, <1>8, <3>1, <3>2, ChainStays DEF BlockIndexed
  <2> QED BY <2>1
<1> QED BY <1>2, <1>3, <1>4, <1>7, <1>8, <1>9, RangeEnds

(* Where a tick starts: next to the checkpoint, or at the first block that *)
(* the configuration asks for when that lies beyond.                       *)
LastOf(head) == IF checkpoint = NoBlock THEN _fresh_last_block(head) ELSE checkpoint

LEMMA StartIs ==
    ASSUME CatInv, NEW last, last = LastOf(Len(chain)), NEW start, start = resolve_start_block(last, Len(chain))
    PROVE  /\ last \in Nat /\ start \in Nat /\ last + 1 <= start /\ checkpoint <= last
           /\ last <= Max({Len(chain), StartBlock})
           /\ checkpoint = NoBlock \/ start > last + 1 =>
                /\ floor <= start - 1
                /\ IF StartBlock > 0 THEN start <= StartBlock ELSE start - 1 <= Max({0, Len(chain) - Lookback})
<1> DEFINE head == Len(chain)
           behind == Max({0, head - Lookback})
<1>1. head \in Nat /\ checkpoint \in Nat \cup {NoBlock} /\ floor \in Nat /\ StartBlock \in Nat /\ Lookback \in Nat /\ Legacy \in Nat
      /\ Anvil \in BOOLEAN
  BY Blocks, CatalogueBounds DEF CatInv, CatalogueTypeOK
<1>2. Cursor
  BY DEF CatInv
<1>3. behind = (IF 0 >= head - Lookback THEN 0 ELSE head - Lookback) /\ behind \in Nat /\ behind <= head
  <2>1. head - Lookback \in Int /\ 0 \in Int
    BY <1>1
  <2>2. behind = IF 0 >= head - Lookback THEN 0 ELSE head - Lookback
    BY <2>1, MaxOfTwo
  <2> HIDE DEF behind
  <2> QED BY <1>1, <2>1, <2>2
<1>4. Max({head, StartBlock}) \in Int /\ head <= Max({head, StartBlock}) /\ StartBlock <= Max({head, StartBlock})
  BY <1>1, MaxOfTwo
<1> DEFINE most == Max({head, StartBlock})
<1>5. checkpoint = NoBlock =>
        /\ last \in Nat /\ last <= most
        /\ IF StartBlock > 0 THEN last = StartBlock - 1 ELSE last <= behind
  <2>1. ASSUME checkpoint = NoBlock PROVE last = _fresh_last_block(head)
    BY <2>1 DEF LastOf
  <2>2. Min({Legacy, behind}) = IF Legacy <= behind THEN Legacy ELSE behind
    <3> HIDE DEF behind
    <3> QED BY <1>1, <1>3, MinOfTwo
  <2>3. _fresh_last_block(head) = IF StartBlock > 0 THEN StartBlock - 1
                                  ELSE IF Anvil THEN 0
                                  ELSE IF Legacy > 0 THEN Min({Legacy, behind}) ELSE behind
    BY DEF _fresh_last_block
  <2> HIDE DEF behind, head, most
  <2> QED BY <1>1, <1>3, <1>4, <2>1, <2>2, <2>3 DEF most
<1>6. checkpoint # NoBlock => last = checkpoint /\ last \in Nat /\ last <= most
  BY <1>1, <1>2 DEF LastOf, Cursor
<1>7. last \in Nat /\ last <= most /\ checkpoint <= last
  <2>1. NoBlock = -1
    BY DEF NoBlock
  <2> HIDE DEF most
  <2> QED BY <1>1, <1>5, <1>6, <2>1
<1> DEFINE first == Max({1, head - Lookback + 1})
           bottom == IF StartBlock > 0 THEN StartBlock ELSE IF Anvil \/ last > 0 THEN 1 ELSE first
<1>8. first = behind + 1
  <2>1. head - Lookback + 1 \in Int /\ 1 \in Int
    BY <1>1
  <2>2. first = IF 1 >= head - Lookback + 1 THEN 1 ELSE head - Lookback + 1
    BY <2>1, MaxOfTwo
  <2> HIDE DEF first, behind
  <2> QED BY <1>1, <1>3, <2>2
<1>9. bottom \in Nat
  <2> HIDE DEF first, behind
  <2> QED BY <1>1, <1>3, <1>8
<1>10. start = IF last + 1 >= bottom THEN last + 1 ELSE bottom
  <2>1. start = Max({last + 1, bottom})
    BY DEF resolve_start_block
  <2> HIDE DEF bottom
  <2> QED BY <1>7, <1>9, <2>1, MaxOfTwo
<1>11. start \in Nat /\ last + 1 <= start
  <2> HIDE DEF bottom
  <2> QED BY <1>7, <1>9, <1>10
<1>12. IF StartBlock > 0 THEN floor <= StartBlock - 1 ELSE floor <= behind
  BY <1>2 DEF Cursor
<1>13. ASSUME checkpoint = NoBlock \/ start > last + 1
       PROVE  /\ floor <= start - 1
              /\ IF StartBlock > 0 THEN start <= StartBlock ELSE start - 1 <= behind
  <2>1. CASE StartBlock > 0
    <3>1. bottom = StartBlock
      BY <2>1
    <3>2. start = StartBlock
      <4> HIDE DEF bottom
      <4> QED BY <1>1, <1>5, <1>7, <1>10, <1>13, <2>1, <3>1
    <3> QED BY <1>1, <1>12, <2>1, <3>2
  <2>2. CASE ~(StartBlock > 0) /\ start > last + 1
    <3>1. start = bottom
      <4> HIDE DEF bottom
      <4> QED BY <1>7, <1>9, <1>10, <2>2
    <3>2. bottom = IF Anvil \/ last > 0 THEN 1 ELSE first
      BY <2>2
    <3>3. start = first
      <4> HIDE DEF bottom, first
      <4> QED BY <1>7, <2>2, <3>1, <3>2
    <3> HIDE DEF behind, first, bottom
    <3> QED BY <1>1, <1>3, <1>8, <1>12, <2>2, <3>3
  <2>3. CASE ~(StartBlock > 0) /\ ~(start > last + 1) /\ checkpoint = NoBlock
    <3>1. start = last + 1 /\ floor = 0 /\ last <= behind
      <4> HIDE DEF behind, bottom, most
      <4> QED BY <1>2, <1>5, <1>7, <1>11, <2>3 DEF Cursor
    <3> HIDE DEF behind, bottom
    <3> QED BY <1>1, <1>3, <1>7, <2>3, <3>1
  <2> QED BY <1>13, <2>1, <2>2, <2>3
<1> HIDE DEF bottom, first, behind, head, most
<1> QED BY <1>7, <1>11, <1>13 DEF behind, head, most

LEMMA IndexOnceKeeps == ASSUME CatInv, NEW i \in Instances, index_once(i) PROVE CatInv'
<1>1. PICK head, last, start : head = Len(chain) /\ last = LastOf(head) /\ start = resolve_start_block(last, head)
  OBVIOUS
<1>2. /\ tick[i].at = "idle" /\ leader' = i /\ checkpoint' = last
      /\ floor' = (IF checkpoint = NoBlock \/ start > last + 1 THEN Max({floor, start - 1}) ELSE floor)
      /\ late' = late \cup {c \in Markets : market[c].there /\ start > checkpoint + 1
                                              /\ (start > head + 1 \/ PausedAt(c, start - 1) # market[c].paused)}
      /\ IF start <= head
         THEN /\ tick' = [tick EXCEPT ![i] = [at |-> "range", lo |-> start, head |-> head, left |-> MaxChunks]]
              /\ UNCHANGED window
         ELSE /\ window' = [window EXCEPT ![i] = Min({MaxRange, 2 * @})]
              /\ UNCHANGED tick
      /\ UNCHANGED <<chain, mem, market, listing, points, lost, req, offered>>
  BY <1>1 DEF index_once, LastOf, chainVars
<1>3. /\ last \in Nat /\ start \in Nat /\ last + 1 <= start /\ checkpoint <= last
      /\ last <= Max({head, StartBlock})
      /\ checkpoint = NoBlock \/ start > last + 1 =>
           /\ floor <= start - 1
           /\ IF StartBlock > 0 THEN start <= StartBlock ELSE start - 1 <= Max({0, head - Lookback})
  BY <1>1, StartIs
<1>4. CatalogueTypeOK /\ Cursor /\ head \in Nat /\ StartBlock \in Nat /\ MaxChunks \in Nat
      /\ checkpoint \in Nat \cup {NoBlock} /\ floor \in Nat /\ NoBlock = -1 /\ DOMAIN chain = 1..head
  BY <1>1, Blocks, CatalogueBounds DEF CatInv, CatalogueTypeOK, NoBlock
<1> DEFINE skips == checkpoint = NoBlock \/ start > last + 1
<1>5. floor' = IF skips THEN start - 1 ELSE floor
  <2>1. skips => Max({floor, start - 1}) = start - 1
    <3>1. start - 1 \in Int /\ floor \in Int
      BY <1>3, <1>4
    <3>2. Max({floor, start - 1}) = IF floor >= start - 1 THEN floor ELSE start - 1
      BY <3>1, MaxOfTwo
    <3> QED BY <1>3, <1>4, <3>1, <3>2
  <2> QED BY <1>2, <2>1
<1>6. ~skips => last = checkpoint /\ start = checkpoint + 1
  BY <1>1, <1>3, <1>4 DEF LastOf
<1>7. floor' \in Nat /\ floor <= floor' /\ checkpoint' \in Nat /\ checkpoint' # NoBlock
  BY <1>2, <1>3, <1>4, <1>5
<1>8. Passed = IF checkpoint >= floor THEN checkpoint ELSE floor
  BY <1>4, MaxOfTwo DEF Passed
<1>9. Passed' = IF skips THEN start - 1 ELSE Passed
  <2>1. Passed' = IF last >= floor' THEN last ELSE floor'
    <3>1. Passed' = Max({last, floor'})
      BY <1>2 DEF Passed
    <3> QED BY <1>3, <1>7, <3>1, MaxOfTwo
  <2> HIDE DEF skips
  <2> QED BY <1>3, <1>4, <1>5, <1>6, <1>8, <2>1
<1>10. start <= Passed' + 1 /\ Passed <= Passed' /\ Passed' \in Nat /\ Passed \in Nat
  <2> HIDE DEF skips
  <2>1. skips => floor <= start - 1
    BY <1>3 DEF skips
  <2> QED BY <1>3, <1>4, <1>6, <1>8, <1>9, <2>1
<1>11. CatalogueTypeOK'
  <2>1. [at |-> "range", lo |-> start, head |-> head, left |-> MaxChunks] \in TickState
    BY <1>3, <1>4 DEF TickState
  <2>2. tick' \in [Instances -> TickState] /\ window' \in [Instances -> MinRange..MaxRange]
    <3>1. tick \in [Instances -> TickState] /\ window \in [Instances -> MinRange..MaxRange]
      BY <1>4, TickTyped
    <3>2. Min({MaxRange, 2 * window[i]}) \in MinRange..MaxRange
      BY <1>4, WindowDoubled
    <3>3. CASE start <= head
      BY <1>2, <2>1, <3>1, <3>3
    <3>4. CASE ~(start <= head)
      <4>1. window' = [window EXCEPT ![i] = Min({MaxRange, 2 * window[i]})] /\ tick' = tick
        BY <1>2, <3>1, <3>4
      <4> QED BY <3>1, <3>2, <4>1
    <3> QED BY <3>3, <3>4
  <2>3. late' \subseteq Markets
    BY <1>2, <1>4 DEF CatalogueTypeOK
  <2> QED BY <1>2, <1>4, <1>7, <2>2, <2>3 DEF CatalogueTypeOK, TickState
<1>12. ChainOK' /\ RowsOK(market, listing)'
  BY <1>2, ChainStays DEF CatInv, ChainOK, RowsOK, Passes
<1>13. Cursor'
  <2>1. checkpoint' <= Max({head, StartBlock})
    BY <1>2, <1>3
  <2>2. IF StartBlock > 0 THEN floor' <= StartBlock - 1 ELSE floor' <= Max({0, head - Lookback})
    <3>1. CASE skips
      BY <1>3, <1>4, <1>5, <3>1
    <3>2. CASE ~skips
      BY <1>1, <1>4, <1>5, <3>2 DEF Cursor
    <3> QED BY <3>1, <3>2
  <2>3. checkpoint' <= head \/ checkpoint' <= floor'
    <3>1. CASE skips
      BY <1>2, <1>3, <1>5, <3>1
    <3>2. CASE ~skips
      BY <1>1, <1>2, <1>4, <1>5, <1>6, <3>2 DEF Cursor
    <3> QED BY <3>1, <3>2
  <2> QED BY <1>1, <1>2, <1>7, <2>1, <2>2, <2>3 DEF Cursor
<1>14. \A b \in DOMAIN chain : b \in Nat /\ (BlockIndexed(b) => BlockIndexed(b)')
  <2>1. ASSUME NEW b \in DOMAIN chain, BlockIndexed(b) PROVE BlockIndexed(b)'
    <3>1. AmmEvent(b)' = AmmEvent(b)
      BY <1>2 DEF AmmEvent
    <3> QED BY <1>2, <2>1, <3>1, ChainStays DEF BlockIndexed
  <2> QED BY <1>4, <2>1
<1>15. ASSUME NEW b \in DOMAIN chain, b > floor', b <= checkpoint' PROVE BlockIndexed(b)
  <2>1. ~skips
    BY <1>2, <1>3, <1>5, <1>14, <1>15
  <2>2. b > floor /\ b <= checkpoint
    BY <1>2, <1>5, <1>6, <1>15, <2>1
  <2> QED BY <2>2 DEF CatInv, PassedIsIndexed, BlockIndexed
<1>16. PassedIsIndexed'
  BY <1>2, <1>14, <1>15 DEF PassedIsIndexed, BlockIndexed
<1>17. TicksOK'
  <2>1. ASSUME NEW j \in Instances PROVE TickOK(tick[j])'
    <3>1. CASE tick'[j] = tick[j]
      <4>1. TickOK(tick[j]) /\ tick[j] \in TickState
        BY <1>4, TickTyped DEF CatInv, TicksOK
      <4>2. CASE tick[j].at = "range"
        <5>1. \A b \in DOMAIN chain : b > floor' /\ b < tick[j].lo => BlockIndexed(b)'
          BY <1>4, <1>7, <1>14, <4>1, <4>2 DEF TickOK
        <5>2. tick[j].lo <= Passed' + 1
          BY <1>10, <4>1, <4>2 DEF TickOK, TickState
        <5> QED BY <1>2, <1>7, <3>1, <4>1, <4>2, <5>1, <5>2 DEF TickOK
      <4>3. CASE tick[j].at # "range"
        BY <3>1, <4>3 DEF TickOK
      <4> QED BY <4>2, <4>3
    <3>2. CASE tick'[j] # tick[j]
      <4>1. start <= head /\ tick'[j] = [at |-> "range", lo |-> start, head |-> head, left |-> MaxChunks]
        BY <1>2, <1>4, <3>2, TickTyped
      <4>2. \A b \in DOMAIN chain : b > floor' /\ b < start => BlockIndexed(b)'
        <5>1. ASSUME NEW b \in DOMAIN chain, b > floor', b < start PROVE BlockIndexed(b)'
          <6>1. ~skips
            BY <1>3, <1>5, <1>14, <5>1
          <6>2. b <= checkpoint'
            BY <1>2, <1>3, <1>4, <1>6, <1>14, <5>1, <6>1
          <6> QED BY <1>14, <1>15, <5>1, <6>2
        <5> QED BY <5>1
      <4>3. 1 <= start
        BY <1>3
      <4>4. tick'[j].lo = start /\ tick'[j].head = head
        BY <4>1
      <4>5. head <= Len(chain') /\ checkpoint' # NoBlock
        BY <1>1, <1>2, <1>4, <1>7
      <4>6. \A b \in DOMAIN chain' : b > floor' /\ b < tick'[j].lo => BlockIndexed(b)'
        BY <1>2, <4>2, <4>4
      <4> QED BY <1>10, <4>1, <4>3, <4>4, <4>5, <4>6 DEF TickOK
    <3> QED BY <3>1, <3>2
  <2> QED BY <2>1 DEF TicksOK
<1>18. FlagsOK'
  <2>1. ASSUME NEW c \in Markets, market[c].there, c \notin late'
        PROVE  \E k \in Passed'..head : market[c].paused = PausedAt(c, k)
    <3>1. CASE skips
      <4>1. start > checkpoint + 1
        BY <1>3, <1>4, <1>1, <3>1 DEF LastOf
      <4>2. start <= head + 1 /\ PausedAt(c, start - 1) = market[c].paused
        BY <1>2, <1>3, <1>4, <2>1, <4>1
      <4>3. start - 1 \in Passed'..head
        BY <1>3, <1>4, <1>9, <1>10, <3>1, <4>2
      <4> QED BY <4>2, <4>3
    <3>2. CASE ~skips
      BY <1>1, <1>2, <1>9, <2>1, <3>2 DEF CatInv, FlagsOK
    <3> QED BY <3>1, <3>2
  <2> QED BY <1>1, <1>2, <2>1, ChainStays DEF FlagsOK
<1>19. RequestsOK'
  BY <1>2, ChainStays DEF CatInv, RequestsOK, RequestOK, Passes
<1> QED BY <1>11, <1>12, <1>13, <1>16, <1>17, <1>18, <1>19 DEF CatInv
----------------------------------------------------------------------------
LEMMA CatInit == Init => CatInv
<1> SUFFICES ASSUME Init PROVE CatInv
  OBVIOUS
<1>1. chain = <<>> /\ DOMAIN chain = {} /\ Len(chain) = 0 /\ chain \in Seq(Event) /\ mem = {}
  <2>1. <<>> \in Seq(Event) /\ Len(<<>>) = 0
    BY EmptySeq
  <2> QED BY <2>1, LenProperties DEF Init
<1>2. /\ market = [c \in Markets |-> NoMarket] /\ listing = [c \in UserMarkets |-> NoListing]
      /\ checkpoint = NoBlock /\ points = {} /\ floor = 0 /\ leader = Free /\ lost = 0
      /\ tick = [i \in Instances |-> Waiting] /\ window = [i \in Instances |-> MaxRange]
      /\ req = [r \in Requests |-> Idle] /\ offered = [c \in UserMarkets |-> None] /\ late = {}
  BY DEF Init
<1>3. NoMarket \in Row /\ NoListing \in ListRow /\ Idle \in Request /\ Waiting \in TickState /\ MaxRange \in MinRange..MaxRange
      /\ 0 \in 0..MaxLost
  BY IdleRequest, CatalogueBounds DEF NoMarket, NoListing, Row, ListRow, Statuses, Waiting, TickState
<1>4. CatalogueTypeOK
  BY <1>1, <1>2, <1>3 DEF CatalogueTypeOK, Row, ListRow, Request, Places, TickState
<1>5. ChainOK
  BY <1>1 DEF ChainOK
<1>6. RowsOK(market, listing)
  BY <1>2 DEF RowsOK, NoMarket, NoListing, None
<1>7. Cursor
  <2>1. StartBlock \in Nat /\ Lookback \in Nat
    BY CatalogueBounds
  <2>2. Max({0, 0 - Lookback}) = 0
    <3>1. 0 - Lookback \in Int /\ 0 \in Int /\ 0 >= 0 - Lookback
      BY <2>1
    <3> QED BY <3>1, MaxOfTwo
  <2>3. Max({0, StartBlock}) = StartBlock
    <3>1. Max({0, StartBlock}) = IF 0 >= StartBlock THEN 0 ELSE StartBlock
      BY <2>1, MaxOfTwo
    <3> QED BY <2>1, <3>1
  <2> QED BY <1>1, <1>2, <2>1, <2>2, <2>3 DEF Cursor, NoBlock
<1>8. TicksOK /\ RequestsOK
  BY <1>2 DEF TicksOK, TickOK, Waiting, RequestsOK, RequestOK, Idle
<1>9. PassedIsIndexed /\ FlagsOK
  BY <1>1, <1>2 DEF PassedIsIndexed, FlagsOK, NoMarket
<1> QED BY <1>4, <1>5, <1>6, <1>7, <1>8, <1>9 DEF CatInv

LEMMA CatChain == ASSUME CatInv, ChainStep PROVE CatInv'
<1>1. CASE \E c \in UserMarkets, q \in Questions, text \in Texts : UserLists(c, q, text)
  BY <1>1, UserListsKeeps
<1>2. CASE \E c \in Markets : Traded(c)
  BY <1>2, LogKeeps DEF Traded
<1>3. CASE \E c \in Markets, kind \in {"paused", "unpaused"} : SetPaused(c, kind)
  BY <1>3, LogKeeps DEF SetPaused
<1>4. CASE \E t \in mem : Mined(t)
  BY <1>4, MinedKeeps
<1> QED BY <1>1, <1>2, <1>3, <1>4 DEF ChainStep

LEMMA CatIndexer == ASSUME CatInv, NEW i \in Instances, IndexerStep(i) PROVE CatInv'
  BY IndexOnceKeeps, RangeIndexedKeeps, RangeAmmFailedKeeps, RangeLogsFailedKeeps, TickAbortedKeeps DEF IndexerStep

LEMMA CatRoutes == ASSUME CatInv, RouteStep PROVE CatInv'
<1>1. CASE \E c \in UserMarkets, q \in Questions, text \in Texts : listing_prepare(c, q, text)
  BY <1>1, ListingPrepareKeeps
<1>2. ASSUME NEW r \in Requests, \E c \in UserMarkets, text \in Texts \cup {None} : listing_confirm(r, c, text) PROVE CatInv'
  BY <1>2, ListingConfirmKeeps
<1>3. ASSUME NEW r \in Requests, \E c \in OperatorMarkets : create_market(r, c) PROVE CatInv'
  BY <1>3, CreateMarketKeeps
<1>4. ASSUME NEW r \in Requests, \E c \in Markets : pause_market(r, c) PROVE CatInv'
  BY <1>4, PauseMarketKeeps
<1>5. ASSUME NEW r \in Requests,
             ConfirmReviewed(r) \/ _apply_confirm(r) \/ CreateReceipt(r) \/ _upsert_market_row(r) \/ PauseReceipt(r) \/ RequestFails(r)
      PROVE  CatInv'
  BY <1>5, ConfirmReviewedKeeps, ApplyConfirmKeeps, CreateReceiptKeeps, UpsertKeeps, PauseReceiptKeeps, RequestFailsKeeps
<1> QED BY <1>1, <1>2, <1>3, <1>4, <1>5 DEF RouteStep

(* Nothing happens.                                                        *)
LEMMA CatStutter == ASSUME CatInv, UNCHANGED vars PROVE CatInv'
<1>1. UNCHANGED <<chain, mem, market, listing, req, offered, late, points, checkpoint, floor, leader, lost, window, tick>>
  BY DEF vars
<1>2. lost' \in 0..MaxLost /\ leader' \in Instances \cup {Free} /\ window' \in [Instances -> MinRange..MaxRange]
      /\ tick' \in [Instances -> TickState]
  BY <1>1, TickTyped DEF CatInv, CatalogueTypeOK
<1> QED BY <1>1, <1>2, TickFrame

LEMMA CatStep == CatInv /\ [Next]_vars => CatInv'
<1> SUFFICES ASSUME CatInv, [Next]_vars PROVE CatInv'
  OBVIOUS
<1>1. CASE \E i \in Instances : IndexerStep(i) \/ release_indexer_leadership(i)
  BY <1>1, CatIndexer, ReleaseKeeps
<1>2. CASE ChainStep \/ LeaderLost \/ RouteStep
  BY <1>2, CatChain, LeaderLostKeeps, CatRoutes
<1>3. CASE UNCHANGED vars
  BY <1>3, CatStutter
<1> QED BY <1>1, <1>2, <1>3 DEF Next

(* Only a tick moves the checkpoint, and never past the end of the chain   *)
(* or the block before the configured start.                               *)
LEMMA CursorForward ==
    ASSUME CatInv, [Next]_vars
    PROVE  [checkpoint' >= checkpoint /\ checkpoint' <= Max({Len(chain), StartBlock})]_vars
<1> DEFINE Forward == checkpoint' >= checkpoint /\ checkpoint' <= Max({Len(chain), StartBlock})
<1>0. checkpoint \in Int /\ checkpoint <= Max({Len(chain), StartBlock})
  BY DEF CatInv, CatalogueTypeOK, Cursor, NoBlock
<1>1. checkpoint' = checkpoint => Forward
  BY <1>0
<1>2. ASSUME NEW i \in Instances, index_once(i) PROVE Forward
  <2>1. PICK last, start : last = LastOf(Len(chain)) /\ start = resolve_start_block(last, Len(chain))
    OBVIOUS
  <2>2. checkpoint' = last
    BY <1>2, <2>1 DEF index_once, LastOf
  <2>3. checkpoint <= last /\ last <= Max({Len(chain), StartBlock})
    BY <2>1, StartIs
  <2>4. last \in Nat
    BY <2>1, StartIs
  <2> QED BY <1>0, <2>2, <2>3, <2>4
<1>3. ASSUME NEW b \in Nat, b <= Len(chain), checkpoint # NoBlock, UNCHANGED <<chain, floor>>, checkpoint' = advance_checkpoint(b)
      PROVE  Forward
  <2>1. /\ checkpoint' \in Nat /\ Cursor'
        /\ checkpoint' = IF checkpoint >= b THEN checkpoint ELSE b
    BY <1>3, CursorMoves
  <2>2. checkpoint' <= Max({Len(chain), StartBlock})
    BY <1>3, <2>1 DEF Cursor
  <2>3. checkpoint' >= checkpoint
    BY <1>0, <2>1
  <2> QED BY <2>2, <2>3
<1> HIDE DEF Forward
<1>4. ASSUME NEW i \in Instances, RangeIndexed(i) PROVE Forward
  <2>1. PICK hi : hi = RangeEnd(tick[i].lo, window[i], tick[i].head)
    OBVIOUS
  <2>2. tick[i].at = "range" /\ UNCHANGED <<chain, floor>> /\ checkpoint' = advance_checkpoint(hi)
    BY <1>4, <2>1 DEF RangeIndexed, chainVars
  <2>3. hi \in Nat /\ hi <= Len(chain) /\ checkpoint # NoBlock
    <3>1. hi \in Nat /\ hi <= tick[i].head /\ tick[i].head <= Len(chain) /\ tick[i].head \in Nat /\ Len(chain) \in Nat
          /\ checkpoint # NoBlock
      BY <2>1, <2>2, RangeIs
    <3> QED BY <3>1
  <2> QED BY <1>3, <2>2, <2>3
<1>5. ASSUME NEW i \in Instances, RangeAmmFailed(i) \/ RangeLogsFailed(i) PROVE Forward
  <2>1. PICK lo, hi : lo = tick[i].lo /\ hi = RangeEnd(lo, window[i], tick[i].head)
    OBVIOUS
  <2>2. tick[i].at = "range" /\ UNCHANGED <<chain, floor>> /\ TickFails(i, lo, hi)
    BY <1>5, <2>1 DEF RangeAmmFailed, RangeLogsFailed, chainVars
  <2>3. lo - 1 \in Nat /\ lo - 1 <= Len(chain) /\ checkpoint' = advance_checkpoint(lo - 1)
    BY <2>1, <2>2, TickFailsIs
  <2>4. checkpoint # NoBlock
    BY <2>1, <2>2, RangeIs
  <2> QED BY <1>3, <2>2, <2>3, <2>4
<1>6. ASSUME NEW i \in Instances, TickAborted(i) \/ release_indexer_leadership(i) PROVE Forward
  BY <1>1, <1>6 DEF TickAborted, release_indexer_leadership
<1>7. CASE \E i \in Instances : IndexerStep(i) \/ release_indexer_leadership(i)
  BY <1>2, <1>4, <1>5, <1>6, <1>7 DEF IndexerStep, Forward
<1>8. CASE LeaderLost
  BY <1>1, <1>8 DEF LeaderLost, Forward
<1>9. CASE ChainStep
  <2>1. checkpoint' = checkpoint
    BY <1>9 DEF ChainStep, UserLists, Traded, SetPaused, Mined, indexVars
  <2> QED BY <1>1, <2>1 DEF Forward
<1>10. CASE RouteStep
  <2>1. checkpoint' = checkpoint
    BY ZenonT(60), <1>10 DEF RouteStep, listing_prepare, listing_confirm, ConfirmReviewed, _apply_confirm, create_market, CreateReceipt,
                 _upsert_market_row, pause_market, PauseReceipt, RequestFails, indexVars
  <2> QED BY <1>1, <2>1 DEF Forward
<1>11. CASE UNCHANGED vars
  BY <1>11
<1> QED BY <1>7, <1>8, <1>9, <1>10, <1>11 DEF Next, Forward

(* What the invariant says of the rows.                                    *)
LEMMA CatMeans == CatInv => CatalogueTypeOK /\ PassedIsIndexed /\ PublicIsReviewed /\ PausedStaleOnlyIfLate
<1> SUFFICES ASSUME CatInv PROVE PublicIsReviewed /\ PausedStaleOnlyIfLate
  BY DEF CatInv
<1>1. ASSUME NEW c \in UserMarkets, market[c].there, is_listed(market, listing, c)
      PROVE  /\ market[c].text = Created(c).text /\ market[c].q = Created(c).q
             /\ Created(c).q \notin Banned /\ Created(c).text \notin Short
             /\ offered[c] \in {Created(c).q, None}
  <2>1. listing[c].status = "confirmed"
    BY <1>1 DEF is_listed
  <2>2. Passes(c, market[c].text) /\ market[c].q = Created(c).q
    BY <1>1, <2>1 DEF CatInv, RowsOK, Markets
  <2> QED BY <2>2 DEF Passes
<1>2. ASSUME NEW c \in Markets, market[c].there, c \notin late
      PROVE  \E k \in Max({checkpoint, 0})..Max({checkpoint, Len(chain)}) : market[c].paused = PausedAt(c, k)
  <2>1. PICK k \in Passed..Len(chain) : market[c].paused = PausedAt(c, k)
    BY <1>2 DEF CatInv, FlagsOK
  <2>2. Passed \in Nat /\ Passed >= checkpoint /\ checkpoint \in Int /\ Len(chain) \in Nat
    BY PassedIs, Blocks DEF CatInv, CatalogueTypeOK, NoBlock
  <2>3. Max({checkpoint, 0}) = (IF checkpoint >= 0 THEN checkpoint ELSE 0)
        /\ Max({checkpoint, Len(chain)}) = IF checkpoint >= Len(chain) THEN checkpoint ELSE Len(chain)
    BY <2>2, MaxOfTwo
  <2>4. k \in Max({checkpoint, 0})..Max({checkpoint, Len(chain)})
    BY <2>1, <2>2, <2>3
  <2> QED BY <2>1, <2>4
<1> QED BY <1>1, <1>2 DEF PublicIsReviewed, PausedStaleOnlyIfLate
----------------------------------------------------------------------------
(* Whatever the instances, the requests and the chain do in between, the   *)
(* rows, the checkpoint and what every caller has read fit together.       *)
THEOREM CatalogueInvariant == Spec => []CatInv
<1>1. Init => CatInv
  BY CatInit
<1>2. CatInv /\ [Next]_vars => CatInv'
  BY CatStep
<1> QED BY <1>1, <1>2, PTL DEF Spec

(* The rows, the loop's position and the requests have their types.        *)
THEOREM CatalogueTypeCorrect == Spec => []CatalogueTypeOK
<1>1. CatInv => CatalogueTypeOK
  BY DEF CatInv
<1> QED BY <1>1, CatalogueInvariant, PTL

(* index_once and TickFails: what the checkpoint has passed is indexed,    *)
(* with every failed half, replay and second instance.                     *)
THEOREM NothingSkipped == Spec => []PassedIsIndexed
<1>1. CatInv => PassedIsIndexed
  BY DEF CatInv
<1> QED BY <1>1, CatalogueInvariant, PTL

(* review_user_listing: a user's market is public only as reviewed,        *)
(* whichever of the two writers came first and whatever each of them read. *)
THEOREM PublicMarketsAreReviewed == Spec => []PublicIsReviewed
<1>1. CatInv => PublicIsReviewed
  BY CatMeans
<1> QED BY <1>1, CatalogueInvariant, PTL

(* The paused flag is as new as the checkpoint unless its writer was late. *)
THEOREM StaleFlagsAreLate == Spec => []PausedStaleOnlyIfLate
<1>1. CatInv => PausedStaleOnlyIfLate
  BY CatMeans
<1> QED BY <1>1, CatalogueInvariant, PTL

(* advance_checkpoint never moves back and passes no block not yet mined.  *)
THEOREM CheckpointNeverBack == Spec => CheckpointForward
<1>1. CatInv /\ [Next]_vars => [checkpoint' >= checkpoint /\ checkpoint' <= Max({Len(chain), StartBlock})]_vars
  BY CursorForward
<1> QED BY <1>1, CatalogueInvariant, PTL DEF Spec, CheckpointForward
=============================================================================
