------------------------- MODULE RealtimeAlmProofs -------------------------
(***************************************************************************)
(* Proofs about RealtimeAlm, for any number of connections, institutions,  *)
(* cycles under way and readers, and any rates.                            *)
(***************************************************************************)
EXTENDS RealtimeAlm, TLAPS

USE RealtimeAssumption

-----------------------------------------------------------------------------
(* Types.                                                                  *)

\* What a fetch has seen the rate move by is a number.
LEMMA DeltaIsInt ==
  ASSUME RealtimeTypeOK, NEW f \in Fetchers
  PROVE  Delta(f) \in Int
<1>1. /\ value[f] \in Rates \cup {Unknown}
      /\ previous[f] \in Rates \cup {Unknown}
  BY DEF RealtimeTypeOK
<1>2. Rates \subseteq Int
  BY DEF Rates
<1>3. CASE Unknown \in {value[f], previous[f]}
  BY <1>3 DEF Delta
<1>4. CASE Unknown \notin {value[f], previous[f]}
  <2>1. value[f] \in Int /\ previous[f] \in Int
    BY <1>1, <1>2, <1>4
  <2> QED
    BY <1>4, <2>1 DEF Delta
<1> QED
  BY <1>3, <1>4

\* Missing a move leaves the sums handed on and their origins as they are.
LEMMA MissKeepsType ==
  ASSUME RealtimeTypeOK, NEW f \in Fetchers, NEW S, Miss(f, S)
  PROVE  missed' \in [Institutions -> Int]
BY DeltaIsInt DEF Miss, RealtimeTypeOK

\* Every variable keeps its type; an institution that was recalculated has an
\* origin once the cache has a rate.
THEOREM RealtimeTypeCorrect == RealtimeSpec => []RealtimeTypeOK
<1>1. RealtimeInit => RealtimeTypeOK
  <2> SUFFICES ASSUME RealtimeInit PROVE RealtimeTypeOK
    OBVIOUS
  <2>1. /\ handed \in [Institutions -> Int \cup {Unknown}]
        /\ origin \in [Institutions -> Int \cup {Unknown}]
        /\ missed \in [Institutions -> Int]
        /\ \A i \in Institutions :
             handed[i] # Unknown => (origin[i] = Unknown <=> cache = Unknown)
    BY DEF RealtimeInit, Fresh
  <2>2. /\ todo \in [Polls -> SUBSET Institutions]
        /\ \A p \in Polls : todo[p] # {} => fpc[p] = "recalc"
    BY DEF RealtimeInit
  <2>3. /\ link \in [Clients -> {"new", "on", "gone"}]
        /\ subs \in [Clients -> SUBSET Institutions]
        /\ asking \in [Clients -> SUBSET Institutions]
        /\ crossed \in [Clients -> SUBSET Institutions]
    BY DEF RealtimeInit
  <2>4. /\ fpc \in [Fetchers -> {"idle", "ask", "publish", "rooms", "recalc"}]
        /\ previous \in [Fetchers -> Rates \cup {Unknown}]
        /\ value \in [Fetchers -> Rates \cup {Unknown}]
    BY DEF RealtimeInit
  <2>5. /\ rate \in Rates /\ cache \in Rates \cup {Unknown}
        /\ moves \in 0 .. MaxMoves /\ reads \in 0 .. MaxReads
        /\ restarts \in 0 .. MaxRestarts
    BY DEF RealtimeInit, Rates
  <2>6. overlap \in BOOLEAN
    BY DEF RealtimeInit
  <2> QED
    BY <2>1, <2>2, <2>3, <2>4, <2>5, <2>6 DEF RealtimeTypeOK
<1>2. RealtimeTypeOK /\ [RealtimeNext]_realtimeVars => RealtimeTypeOK'
  <2> SUFFICES ASSUME RealtimeTypeOK, [RealtimeNext]_realtimeVars
               PROVE  RealtimeTypeOK'
    OBVIOUS
  <2> USE DEF linkVars, feedVars, sumVars, boundVars, Rates
  <2>1. ASSUME NEW c \in Clients, Connect(c) PROVE RealtimeTypeOK'
    BY <2>1 DEF RealtimeTypeOK, Connect
  <2>2. ASSUME NEW c \in Clients, Disconnect(c) PROVE RealtimeTypeOK'
    BY <2>2 DEF RealtimeTypeOK, Disconnect
  <2>3. ASSUME NEW c \in Clients, NEW i \in Institutions, Subscribe(c, i)
        PROVE  RealtimeTypeOK'
    BY <2>3 DEF RealtimeTypeOK, Subscribe
  <2>4. ASSUME NEW c \in Clients, NEW i \in Institutions, Refuse(c, i)
        PROVE  RealtimeTypeOK'
    BY <2>4 DEF RealtimeTypeOK, Refuse
  <2>5. ASSUME NEW c \in Clients, NEW i \in Institutions, Join(c, i)
        PROVE  RealtimeTypeOK'
    BY <2>5 DEF RealtimeTypeOK, Join
  <2>6. ASSUME NEW c \in Clients, NEW i \in Institutions, Unsubscribe(c, i)
        PROVE  RealtimeTypeOK'
    BY <2>6 DEF RealtimeTypeOK, Unsubscribe
  <2>7. ASSUME NEW f \in Fetchers, Ask(f) PROVE RealtimeTypeOK'
    BY <2>7 DEF RealtimeTypeOK, Ask, Steps, Fetching, Fetchers
  <2>8. ASSUME NEW f \in Fetchers, Reply(f) PROVE RealtimeTypeOK'
    BY <2>8 DEF RealtimeTypeOK, Reply, Steps, Fetchers
  <2>9. ASSUME NEW f \in Fetchers, Publish(f) PROVE RealtimeTypeOK'
    <3>1. missed' \in [Institutions -> Int]
      BY <2>9, MissKeepsType DEF Publish
    <3>2. /\ cache' \in Rates \cup {Unknown}
          /\ origin' \in [Institutions -> Int \cup {Unknown}]
          /\ \A i \in Institutions :
               handed[i] # Unknown => (origin'[i] = Unknown <=> cache' = Unknown)
      BY <2>9 DEF RealtimeTypeOK, Publish
    <3>3. /\ previous' \in [Fetchers -> Rates \cup {Unknown}]
          /\ value' \in [Fetchers -> Rates \cup {Unknown}]
      BY <2>9 DEF RealtimeTypeOK, Publish, Forget
    <3>4. /\ fpc' \in [Fetchers -> {"idle", "ask", "publish", "rooms", "recalc"}]
          /\ \A p \in Polls : todo[p] # {} => fpc'[p] = "recalc"
      BY <2>9 DEF RealtimeTypeOK, Publish, Steps, Fetchers
    <3> QED
      BY <2>9, <3>1, <3>2, <3>3, <3>4 DEF RealtimeTypeOK, Publish
  <2>10. ASSUME NEW p \in Polls, Rooms(p) PROVE RealtimeTypeOK'
    <3>1. missed' \in [Institutions -> Int]
      BY <2>10, MissKeepsType DEF Rooms, Fetchers
    <3>2. Subscribed \in SUBSET Institutions
      BY DEF RealtimeTypeOK, Subscribed
    <3> QED
      BY <2>10, <3>1, <3>2 DEF RealtimeTypeOK, Rooms, Steps, Fetchers
  <2>11. ASSUME NEW p \in Polls, NEW i \in Institutions, Recalculate(p, i)
         PROVE  RealtimeTypeOK'
    <3>1. Delta(p) \in Int
      BY DeltaIsInt DEF Fetchers
    <3>2. CASE handed[i] # Unknown
      BY <2>11, <3>1, <3>2 DEF RealtimeTypeOK, Recalculate
    <3>3. CASE handed[i] = Unknown
      <4>1. /\ handed' = [handed EXCEPT ![i] = Delta(p)]
            /\ origin' = [origin EXCEPT ![i] =
                            IF cache = Unknown THEN Unknown ELSE cache - Delta(p)]
        BY <2>11, <3>3 DEF Recalculate
      <4>2. cache # Unknown => cache \in Int /\ cache - Delta(p) \in Int
        BY <3>1 DEF RealtimeTypeOK
      <4> QED
        BY <2>11, <3>1, <4>1, <4>2 DEF RealtimeTypeOK, Recalculate
    <3> QED
      BY <3>2, <3>3
  <2>12. ASSUME NEW p \in Polls, EndCycle(p) PROVE RealtimeTypeOK'
    BY <2>12 DEF RealtimeTypeOK, EndCycle, Steps, Forget, Fetchers
  <2>13. ASSUME Move PROVE RealtimeTypeOK'
    BY <2>13 DEF RealtimeTypeOK, Move
  <2>14. ASSUME RealtimeRestart PROVE RealtimeTypeOK'
    <3>1. /\ handed' \in [Institutions -> Int \cup {Unknown}]
          /\ origin' \in [Institutions -> Int \cup {Unknown}]
          /\ missed' \in [Institutions -> Int]
          /\ \A i \in Institutions :
               handed'[i] # Unknown => (origin'[i] = Unknown <=> cache' = Unknown)
      BY <2>14 DEF RealtimeRestart, Fresh
    <3>2. /\ todo' \in [Polls -> SUBSET Institutions]
          /\ \A p \in Polls : todo'[p] # {} => fpc'[p] = "recalc"
      BY <2>14 DEF RealtimeRestart
    <3>3. /\ link' \in [Clients -> {"new", "on", "gone"}]
          /\ subs' \in [Clients -> SUBSET Institutions]
          /\ asking' \in [Clients -> SUBSET Institutions]
          /\ crossed' \in [Clients -> SUBSET Institutions]
      BY <2>14 DEF RealtimeRestart
    <3>4. /\ fpc' \in [Fetchers -> {"idle", "ask", "publish", "rooms", "recalc"}]
          /\ previous' \in [Fetchers -> Rates \cup {Unknown}]
          /\ value' \in [Fetchers -> Rates \cup {Unknown}]
      BY <2>14 DEF RealtimeRestart
    <3>5. /\ rate' \in Rates /\ cache' \in Rates \cup {Unknown}
          /\ moves' \in 0 .. MaxMoves /\ reads' \in 0 .. MaxReads
          /\ restarts' \in 0 .. MaxRestarts
      BY <2>14 DEF RealtimeTypeOK, RealtimeRestart
    <3>6. overlap' \in BOOLEAN
      BY <2>14 DEF RealtimeRestart
    <3> QED
      BY <3>1, <3>2, <3>3, <3>4, <3>5, <3>6 DEF RealtimeTypeOK
  <2>15. ASSUME UNCHANGED realtimeVars PROVE RealtimeTypeOK'
    BY <2>15 DEF RealtimeTypeOK, realtimeVars, Fetching
  <2> QED
    BY <2>1, <2>2, <2>3, <2>4, <2>5, <2>6, <2>7, <2>8, <2>9, <2>10, <2>11,
       <2>12, <2>13, <2>14, <2>15 DEF RealtimeNext
<1> QED
  BY <1>1, <1>2, PTL DEF RealtimeSpec

-----------------------------------------------------------------------------
(* Connections that have ended.                                            *)

\* What a connection that has ended holds, or is still asking for, was being
\* asked for as it ended.
LeftBehind(c) == link[c] = "gone" => subs[c] \cup asking[c] \subseteq crossed[c]

LeftInv == RealtimeTypeOK /\ \A c \in Clients : LeftBehind(c)

\* A connection that has ended leaves in the map only institutions whose
\* subscribe call was under way (handleDisconnect deletes the others).
THEOREM LittleStays == RealtimeSpec => []LittleIsLeftBehind
<1>1. RealtimeInit => \A c \in Clients : LeftBehind(c)
  BY DEF RealtimeInit, LeftBehind
<1>2. LeftInv /\ [RealtimeNext]_realtimeVars => (\A c \in Clients : LeftBehind(c))'
  <2> SUFFICES ASSUME LeftInv, [RealtimeNext]_realtimeVars, NEW b \in Clients
               PROVE  LeftBehind(b)'
    OBVIOUS
  <2> USE DEF linkVars, feedVars, sumVars, boundVars, LeftBehind
  <2>1. ASSUME UNCHANGED linkVars PROVE LeftBehind(b)'
    BY <2>1 DEF LeftInv
  <2>2. ASSUME NEW c \in Clients, Connect(c) PROVE LeftBehind(b)'
    BY <2>2 DEF LeftInv, RealtimeTypeOK, Connect
  <2>3. ASSUME NEW c \in Clients, Disconnect(c) PROVE LeftBehind(b)'
    BY <2>3 DEF LeftInv, RealtimeTypeOK, Disconnect
  <2>4. ASSUME NEW c \in Clients, NEW i \in Institutions,
               \/ Subscribe(c, i) \/ Refuse(c, i) \/ Join(c, i)
               \/ Unsubscribe(c, i)
        PROVE  LeftBehind(b)'
    BY <2>4 DEF LeftInv, RealtimeTypeOK, Subscribe, Refuse, Join, Unsubscribe
  <2>5. ASSUME RealtimeRestart PROVE LeftBehind(b)'
    BY <2>5 DEF RealtimeRestart
  <2> QED
    BY <2>1, <2>2, <2>3, <2>4, <2>5
       DEF RealtimeNext, Ask, Reply, Publish, Rooms, Recalculate, EndCycle, Move,
           realtimeVars
<1>3. LeftInv => LittleIsLeftBehind
  BY DEF LeftInv, LeftBehind, LittleIsLeftBehind
<1> QED
  BY <1>1, <1>2, <1>3, RealtimeTypeCorrect, PTL DEF RealtimeSpec, LeftInv

-----------------------------------------------------------------------------
(* The sum of the moves an institution was handed.                         *)

\* The cycle has a move that the institution has yet to see or to miss.
Pending(p, i) == fpc[p] = "rooms" \/ (fpc[p] = "recalc" /\ i \in todo[p])

\* What it means that fetches and cycles have not overlapped: one fetch, which
\* started from what is still in the cache, and one cycle, which has no move
\* while the cache is empty.
Alone ==
  /\ \A f, g \in Fetchers : Fetching(f) /\ Fetching(g) => f = g
  /\ \A p, q \in Polls : fpc[p] # "idle" /\ fpc[q] # "idle" => p = q
  /\ \A f \in Fetchers : Fetching(f) => previous[f] = cache
  /\ cache = Unknown =>
       \A p \in Polls : fpc[p] \in {"rooms", "recalc"} => Delta(p) = 0

\* Moves seen, moves missed and the one pending are all there has been.
Balance(i, d) ==
  IF cache = Unknown THEN d = 0 /\ handed[i] + missed[i] = 0
                     ELSE handed[i] + missed[i] + d = cache - origin[i]

Accounted(i) ==
  IF handed[i] = Unknown THEN missed[i] = 0
  ELSE /\ \A p \in Polls : Pending(p, i) => Balance(i, Delta(p))
       /\ (\A p \in Polls : ~ Pending(p, i)) => Balance(i, 0)

SumInv == ~ overlap => Alone /\ \A i \in Institutions : Accounted(i)

\* Steps that touch neither a fetch nor what was handed on.
LEMMA ElsewhereKeepsSums ==
  ASSUME SumInv, UNCHANGED <<feedVars, sumVars>>
  PROVE  SumInv'
<1>1. /\ \A f \in Fetchers : Delta(f)' = Delta(f) /\ (Fetching(f)' <=> Fetching(f))
      /\ \A p \in Polls, i \in Institutions : Pending(p, i)' <=> Pending(p, i)
  BY DEF feedVars, Delta, Fetching, Pending
<1>2. Alone => Alone'
  BY <1>1 DEF Alone, feedVars, sumVars, Fetchers
<1>3. ASSUME NEW i \in Institutions, Accounted(i) PROVE Accounted(i)'
  BY <1>1, <1>3 DEF Accounted, Balance, sumVars, Fetchers
<1>4. overlap' = overlap
  BY DEF sumVars
<1> QED
  BY <1>2, <1>3, <1>4 DEF SumInv

\* A fetch that begins alone starts from the cache.
LEMMA AskKeepsSums ==
  ASSUME RealtimeTypeOK, SumInv, NEW f \in Fetchers, Ask(f)
  PROVE  SumInv'
<1> SUFFICES ASSUME ~ overlap'
             PROVE  Alone' /\ \A i \in Institutions : Accounted(i)'
  BY DEF SumInv
<1>1. /\ ~ overlap
      /\ \A g \in Fetchers : ~ Fetching(g)
      /\ f \in Polls => \A p \in Polls : fpc[p] = "idle"
  BY Zenon DEF Ask
<1>2. /\ fpc[f] = "idle" /\ fpc' = [fpc EXCEPT ![f] = "ask"]
      /\ previous' = [previous EXCEPT ![f] = cache]
      /\ UNCHANGED <<value, todo, cache, handed, origin, missed>>
  BY DEF Ask, Steps
<1>3. Alone /\ \A i \in Institutions : Accounted(i)
  BY <1>1 DEF SumInv
<1>4. \A p \in Polls : p # f => Delta(p)' = Delta(p) /\ fpc'[p] = fpc[p]
  BY <1>2 DEF Delta, RealtimeTypeOK, Fetchers
<1>5. \A p \in Polls, i \in Institutions :
        /\ Pending(p, i)' <=> Pending(p, i)
        /\ Pending(p, i) => p # f
  BY <1>2 DEF Pending, RealtimeTypeOK, Fetchers
<1>6. Alone'
  <2>1. \A g \in Fetchers : Fetching(g)' => g = f
    BY <1>1, <1>2 DEF Fetching, RealtimeTypeOK
  <2>2. \A p, q \in Polls : fpc'[p] # "idle" /\ fpc'[q] # "idle" => p = q
    BY <1>1, <1>2, <1>3 DEF Alone, RealtimeTypeOK, Fetchers
  <2>3. previous'[f] = cache'
    BY <1>2 DEF RealtimeTypeOK
  <2>4. ASSUME NEW p \in Polls, cache' = Unknown, fpc'[p] \in {"rooms", "recalc"}
        PROVE  Delta(p)' = 0
    BY <1>2, <1>3, <1>4, <2>4 DEF Alone, RealtimeTypeOK, Fetchers
  <2> QED
    BY <2>1, <2>2, <2>3, <2>4 DEF Alone
<1>7. ASSUME NEW i \in Institutions PROVE Accounted(i)'
  BY <1>2, <1>3, <1>4, <1>5 DEF Accounted, Balance
<1> QED
  BY <1>6, <1>7

\* A reply changes the move of its own fetch, which nobody waits for yet.
LEMMA ReplyKeepsSums ==
  ASSUME RealtimeTypeOK, SumInv, NEW f \in Fetchers, Reply(f)
  PROVE  SumInv'
<1> SUFFICES ASSUME ~ overlap'
             PROVE  Alone' /\ \A i \in Institutions : Accounted(i)'
  BY DEF SumInv
<1>1. /\ fpc[f] = "ask" /\ fpc' = [fpc EXCEPT ![f] = "publish"]
      /\ \A g \in Fetchers : g # f => value'[g] = value[g]
      /\ UNCHANGED <<previous, todo, sumVars>>
  BY DEF Reply, Steps, RealtimeTypeOK
<1>2. Alone /\ \A i \in Institutions : Accounted(i)
  BY <1>1 DEF SumInv, sumVars
<1>3. \A p \in Polls : p # f => Delta(p)' = Delta(p) /\ fpc'[p] = fpc[p]
  BY <1>1 DEF Delta, RealtimeTypeOK, Fetchers
<1>4. \A p \in Polls, i \in Institutions :
        /\ Pending(p, i)' <=> Pending(p, i)
        /\ Pending(p, i) => p # f
  BY <1>1 DEF Pending, RealtimeTypeOK, Fetchers
<1>5. Alone'
  <2>1. \A g \in Fetchers : /\ Fetching(g)' <=> Fetching(g)
                            /\ fpc'[g] # "idle" <=> fpc[g] # "idle"
    BY <1>1 DEF Fetching, RealtimeTypeOK
  <2>2. ASSUME NEW p \in Polls, cache' = Unknown, fpc'[p] \in {"rooms", "recalc"}
        PROVE  Delta(p)' = 0
    BY <1>1, <1>2, <1>3, <2>2 DEF Alone, RealtimeTypeOK, Fetchers, sumVars
  <2> QED
    BY <1>1, <1>2, <2>1, <2>2 DEF Alone, Fetchers, sumVars
<1>6. ASSUME NEW i \in Institutions PROVE Accounted(i)'
  BY <1>1, <1>2, <1>3, <1>4 DEF Accounted, Balance, sumVars
<1> QED
  BY <1>5, <1>6

\* What the only fetch publishes: the cache moves by its move, and a sum whose
\* origin was open gets the cache for an origin.
LEMMA PublishFacts ==
  ASSUME RealtimeTypeOK, Alone, NEW f \in Fetchers, Publish(f)
  PROVE  /\ Delta(f) \in Int
         /\ \A g \in Fetchers : Fetching(g) => g = f
         /\ \A g \in Fetchers : g # f => fpc'[g] = fpc[g]
         /\ fpc'[f] = IF f \in Polls THEN "rooms" ELSE "idle"
         /\ \A g \in Fetchers : g # f => Delta(g)' = Delta(g)
         /\ cache = Unknown => Delta(f) = 0
         /\ cache # Unknown => cache' # Unknown /\ cache' = cache + Delta(f)
         /\ \A i \in Institutions : handed[i] # Unknown =>
              /\ cache = Unknown => origin'[i] = cache'
              /\ cache # Unknown => origin'[i] = origin[i]
<1>1. /\ fpc[f] = "publish" /\ previous[f] = cache
      /\ \A g \in Fetchers : Fetching(g) => g = f
  BY DEF Alone, Publish, Steps, Fetching
<1>2. /\ value[f] \in Rates \cup {Unknown} /\ cache \in Rates \cup {Unknown}
      /\ Rates \subseteq Int
      /\ cache' = IF value[f] = Unknown THEN cache ELSE value[f]
  BY DEF RealtimeTypeOK, Publish, Rates
<1>3. cache # Unknown => cache' # Unknown /\ cache' = cache + Delta(f)
  <2>1. CASE value[f] = Unknown
    <3>1. Delta(f) = 0 /\ cache' = cache
      BY <1>2, <2>1, Zenon DEF Delta
    <3>2. cache # Unknown => cache \in Int
      BY <1>2, Zenon
    <3> QED
      BY <3>1, <3>2
  <2>2. CASE value[f] # Unknown /\ cache # Unknown
    <3>1. Delta(f) = value[f] - cache /\ value[f] \in Int /\ cache \in Int
      BY <1>1, <1>2, <2>2 DEF Delta
    <3> QED
      BY <1>2, <2>2, <3>1
  <2> QED
    BY <2>1, <2>2
<1>4. cache = Unknown => Delta(f) = 0
  BY <1>1 DEF Delta
<1>5. \A g \in Fetchers : g # f => Delta(g)' = Delta(g) /\ fpc'[g] = fpc[g]
  BY DEF Publish, Steps, Forget, Delta, RealtimeTypeOK
<1>6. fpc'[f] = IF f \in Polls THEN "rooms" ELSE "idle"
  BY DEF Publish, Steps, RealtimeTypeOK
<1>7. ASSUME NEW i \in Institutions, handed[i] # Unknown
      PROVE  /\ cache = Unknown => origin'[i] = cache'
             /\ cache # Unknown => origin'[i] = origin[i]
  <2>1. origin'[i] = IF cache = Unknown THEN value[f] ELSE origin[i]
    BY <1>7 DEF Publish
  <2> QED
    BY <1>2, <2>1
<1> QED
  BY <1>1, <1>3, <1>4, <1>5, <1>6, <1>7, DeltaIsInt

\* The move of a reader is missed by all; the move of a cycle is pending.
LEMMA PublishKeepsSums ==
  ASSUME RealtimeTypeOK, RealtimeTypeOK', SumInv, NEW f \in Fetchers, Publish(f)
  PROVE  SumInv'
<1> SUFFICES ASSUME ~ overlap'
             PROVE  Alone' /\ \A i \in Institutions : Accounted(i)'
  BY DEF SumInv
<1>1. /\ fpc[f] = "publish" /\ UNCHANGED <<todo, handed, overlap>>
      /\ Miss(f, IF f \in Polls THEN {} ELSE Institutions)
  BY DEF Publish, Steps
<1>2. Alone /\ \A i \in Institutions : Accounted(i)
  BY <1>1 DEF SumInv
<1>3. /\ Delta(f) \in Int
      /\ \A g \in Fetchers : Fetching(g) => g = f
      /\ \A g \in Fetchers : g # f => fpc'[g] = fpc[g]
      /\ fpc'[f] = IF f \in Polls THEN "rooms" ELSE "idle"
      /\ \A g \in Fetchers : g # f => Delta(g)' = Delta(g)
      /\ cache = Unknown => Delta(f) = 0
      /\ cache # Unknown => cache' # Unknown /\ cache' = cache + Delta(f)
      /\ \A i \in Institutions : handed[i] # Unknown =>
           /\ cache = Unknown => origin'[i] = cache'
           /\ cache # Unknown => origin'[i] = origin[i]
  BY <1>2, PublishFacts
<1>4. f \in Polls => Delta(f)' = Delta(f)
  BY DEF Publish, Forget, Delta, Fetchers
<1>5. Alone'
  <2>1. \A g \in Fetchers : ~ Fetching(g)'
    BY <1>3 DEF Fetching
  <2>2. \A p, q \in Polls : fpc'[p] # "idle" /\ fpc'[q] # "idle" => p = q
    BY <1>1, <1>2, <1>3 DEF Alone, Fetchers
  <2>3. ASSUME NEW p \in Polls, cache' = Unknown, fpc'[p] \in {"rooms", "recalc"}
        PROVE  Delta(p)' = 0
    BY <1>2, <1>3, <1>4, <2>3 DEF Alone, Fetchers
  <2> QED
    BY <2>1, <2>2, <2>3 DEF Alone
<1>6. ASSUME NEW i \in Institutions PROVE Accounted(i)'
  <2>1. CASE handed[i] = Unknown
    BY <1>1, <1>2, <2>1 DEF Accounted, Miss
  <2>2. ASSUME handed[i] # Unknown, f \in Polls PROVE Accounted(i)'
    <3>1. \A p \in Polls : ~ Pending(p, i) /\ (Pending(p, i)' <=> p = f)
      BY <1>1, <1>2, <1>3, <2>2 DEF Pending, Alone, Fetchers
    <3>2. Balance(i, 0) /\ missed'[i] = missed[i]
      BY <1>1, <1>2, <2>2, <3>1 DEF Accounted, Miss
    <3>3. /\ handed[i] \in Int /\ missed[i] \in Int
          /\ cache # Unknown => cache \in Int /\ origin[i] \in Int
      BY <2>2 DEF RealtimeTypeOK, Rates
    <3>4. cache' # Unknown => cache' \in Int
      BY DEF RealtimeTypeOK, Rates
    <3>5. Balance(i, Delta(f))'
      <4>1. CASE cache = Unknown
        BY <1>1, <1>3, <1>4, <2>2, <3>2, <3>3, <3>4, <4>1 DEF Balance
      <4>2. CASE cache # Unknown
        BY <1>1, <1>3, <1>4, <2>2, <3>2, <3>3, <3>4, <4>2 DEF Balance
      <4> QED
        BY <4>1, <4>2
    <3> QED
      BY <1>1, <2>2, <3>1, <3>5 DEF Accounted
  <2>3. ASSUME handed[i] # Unknown, f \notin Polls PROVE Accounted(i)'
    <3>1. \A p \in Polls : /\ Pending(p, i)' <=> Pending(p, i)
                           /\ Delta(p)' = Delta(p) /\ Delta(p) \in Int
      BY <1>1, <1>3, <2>3, DeltaIsInt DEF Pending, Fetchers
    <3>2. missed'[i] = missed[i] + Delta(f)
      BY <1>1, <2>3 DEF Miss
    <3>3. /\ handed[i] \in Int /\ missed[i] \in Int
          /\ cache # Unknown => cache \in Int /\ origin[i] \in Int
      BY <2>3 DEF RealtimeTypeOK, Rates
    <3>4. cache' # Unknown => cache' \in Int
      BY DEF RealtimeTypeOK, Rates
    <3>5. ASSUME NEW d \in Int, Balance(i, d)
          PROVE  IF cache' = Unknown THEN d = 0 /\ handed'[i] + missed'[i] = 0
                 ELSE handed'[i] + missed'[i] + d = cache' - origin'[i]
      <4>1. CASE cache = Unknown
        BY <1>1, <1>3, <2>3, <3>2, <3>3, <3>4, <3>5, <4>1 DEF Balance
      <4>2. CASE cache # Unknown
        BY <1>1, <1>3, <2>3, <3>2, <3>3, <3>4, <3>5, <4>2 DEF Balance
      <4> QED
        BY <4>1, <4>2
    <3>6. ASSUME NEW p \in Polls, Pending(p, i)' PROVE Balance(i, Delta(p))'
      <4>1. Balance(i, Delta(p))
        BY <1>2, <2>3, <3>1, <3>6 DEF Accounted
      <4> QED
        BY <3>1, <3>5, <4>1 DEF Balance
    <3>7. ASSUME \A p \in Polls : ~ Pending(p, i)' PROVE Balance(i, 0)'
      <4>1. Balance(i, 0)
        BY <1>2, <2>3, <3>1, <3>7 DEF Accounted
      <4> QED
        BY <3>5, <4>1 DEF Balance
    <3> QED
      BY <1>1, <2>3, <3>6, <3>7 DEF Accounted
  <2> QED
    BY <2>1, <2>2, <2>3
<1> QED
  BY <1>5, <1>6

\* What no room waits for is missed, the rest stays pending.
LEMMA RoomsKeepsSums ==
  ASSUME RealtimeTypeOK, SumInv, NEW p \in Polls, Rooms(p)
  PROVE  SumInv'
<1> SUFFICES ASSUME ~ overlap'
             PROVE  Alone' /\ \A i \in Institutions : Accounted(i)'
  BY DEF SumInv
<1>1. /\ fpc[p] = "rooms" /\ fpc' = [fpc EXCEPT ![p] = "recalc"]
      /\ todo' = [todo EXCEPT ![p] = Subscribed]
      /\ Miss(p, Institutions \ Subscribed)
      /\ UNCHANGED <<previous, value, cache, handed, origin, overlap>>
  BY DEF Rooms, Steps
<1>2. Alone /\ \A i \in Institutions : Accounted(i)
  BY <1>1 DEF SumInv
<1>3. \A f \in Fetchers : /\ Delta(f)' = Delta(f) /\ Delta(f) \in Int
                          /\ Fetching(f)' <=> Fetching(f)
  BY <1>1, DeltaIsInt DEF Delta, Fetching, RealtimeTypeOK
<1>4. Alone'
  BY <1>1, <1>2, <1>3 DEF Alone, RealtimeTypeOK, Fetchers
<1>5. ASSUME NEW i \in Institutions PROVE Accounted(i)'
  <2>1. CASE handed[i] = Unknown
    BY <1>1, <1>2, <2>1 DEF Accounted, Miss
  <2>2. ASSUME handed[i] # Unknown PROVE Accounted(i)'
    <3>1. \A q \in Polls : Pending(q, i)' <=> q = p /\ i \in Subscribed
      BY <1>1, <1>2 DEF Pending, Alone, RealtimeTypeOK, Fetchers
    <3>2. Balance(i, Delta(p))
      BY <1>1, <1>2, <2>2 DEF Accounted, Pending
    <3>3. /\ handed[i] \in Int /\ missed[i] \in Int /\ Delta(p) \in Int
          /\ cache # Unknown => cache \in Int /\ origin[i] \in Int
      BY <1>3, <2>2 DEF RealtimeTypeOK, Rates, Fetchers
    <3>4. CASE i \in Subscribed
      <4>1. missed'[i] = missed[i]
        BY <1>1, <3>4 DEF Miss
      <4>2. Balance(i, Delta(p))'
        BY <1>1, <1>3, <3>2, <4>1 DEF Balance, Fetchers
      <4> QED
        BY <1>1, <2>2, <3>1, <3>4, <4>2 DEF Accounted
    <3>5. CASE i \notin Subscribed
      <4>1. missed'[i] = missed[i] + Delta(p)
        BY <1>1, <2>2, <3>5 DEF Miss
      <4>2. Balance(i, 0)'
        BY <1>1, <3>2, <3>3, <4>1 DEF Balance
      <4> QED
        BY <1>1, <2>2, <3>1, <3>5, <4>2 DEF Accounted
    <3> QED
      BY <3>4, <3>5
  <2> QED
    BY <2>1, <2>2
<1> QED
  BY <1>4, <1>5

\* The pending move is handed on once; the first recalculation starts the sum from
\* it.
LEMMA RecalculateKeepsSums ==
  ASSUME RealtimeTypeOK, SumInv,
         NEW p \in Polls, NEW j \in Institutions, Recalculate(p, j)
  PROVE  SumInv'
<1> SUFFICES ASSUME ~ overlap'
             PROVE  Alone' /\ \A i \in Institutions : Accounted(i)'
  BY DEF SumInv
<1>1. /\ fpc[p] = "recalc" /\ j \in todo[p]
      /\ todo' = [todo EXCEPT ![p] = @ \ {j}]
      /\ UNCHANGED <<fpc, previous, value, cache, missed, overlap>>
  BY DEF Recalculate
<1>2. Alone /\ \A i \in Institutions : Accounted(i)
  BY <1>1 DEF SumInv
<1>3. \A f \in Fetchers : /\ Delta(f)' = Delta(f) /\ Delta(f) \in Int
                          /\ Fetching(f)' <=> Fetching(f)
  BY <1>1, DeltaIsInt DEF Delta, Fetching
<1>4. Alone'
  BY <1>1, <1>2, <1>3 DEF Alone, Fetchers
<1>5. ASSUME NEW i \in Institutions PROVE Accounted(i)'
  <2>1. CASE i # j
    <3>1. handed'[i] = handed[i] /\ origin'[i] = origin[i]
      BY <2>1 DEF Recalculate, RealtimeTypeOK
    <3>2. \A q \in Polls : Pending(q, i)' <=> Pending(q, i)
      BY <1>1, <2>1 DEF Pending, RealtimeTypeOK
    <3> QED
      BY <1>1, <1>2, <1>3, <3>1, <3>2 DEF Accounted, Balance, Fetchers
  <2>2. CASE i = j
    <3>1. \A q \in Polls : ~ Pending(q, j)'
      BY <1>1, <1>2 DEF Pending, Alone, RealtimeTypeOK
    <3>2. /\ missed[j] \in Int /\ Delta(p) \in Int
          /\ cache # Unknown => cache \in Int
          /\ cache = Unknown => Delta(p) = 0
      BY <1>1, <1>2, <1>3 DEF RealtimeTypeOK, Rates, Fetchers, Alone
    <3>3. CASE handed[j] # Unknown
      <4>1. Balance(j, Delta(p))
        BY <1>1, <1>2, <3>3 DEF Accounted, Pending
      <4>2. /\ handed'[j] = handed[j] + Delta(p) /\ origin'[j] = origin[j]
            /\ handed[j] \in Int /\ handed'[j] # Unknown
            /\ cache # Unknown => origin[j] \in Int
        BY <3>2, <3>3 DEF Recalculate, RealtimeTypeOK
      <4>3. Balance(j, 0)'
        BY <1>1, <3>2, <4>1, <4>2 DEF Balance
      <4> QED
        BY <2>2, <3>1, <4>2, <4>3 DEF Accounted
    <3>4. CASE handed[j] = Unknown
      <4>1. /\ handed'[j] = Delta(p) /\ handed'[j] # Unknown
            /\ origin'[j] = IF cache = Unknown THEN Unknown ELSE cache - Delta(p)
        BY <3>2, <3>4 DEF Recalculate, RealtimeTypeOK
      <4>2. missed'[j] = 0
        BY <1>1, <1>2, <3>4 DEF Accounted
      <4>3. Balance(j, 0)'
        BY <1>1, <3>2, <4>1, <4>2 DEF Balance
      <4> QED
        BY <2>2, <3>1, <4>1, <4>3 DEF Accounted
    <3> QED
      BY <3>3, <3>4
  <2> QED
    BY <2>1, <2>2
<1> QED
  BY <1>4, <1>5

\* A cycle ends with nothing pending.
LEMMA EndCycleKeepsSums ==
  ASSUME RealtimeTypeOK, SumInv, NEW p \in Polls, EndCycle(p)
  PROVE  SumInv'
<1> SUFFICES ASSUME ~ overlap'
             PROVE  Alone' /\ \A i \in Institutions : Accounted(i)'
  BY DEF SumInv
<1>1. /\ todo[p] = {} /\ fpc[p] = "recalc" /\ fpc' = [fpc EXCEPT ![p] = "idle"]
      /\ UNCHANGED <<todo, sumVars>>
      /\ \A f \in Fetchers : f # p => /\ previous'[f] = previous[f]
                                      /\ value'[f] = value[f]
  BY DEF EndCycle, Steps, Forget, RealtimeTypeOK
<1>2. Alone /\ \A i \in Institutions : Accounted(i)
  BY <1>1 DEF SumInv, sumVars
<1>3. \A f \in Fetchers : /\ f # p => Delta(f)' = Delta(f) /\ fpc'[f] = fpc[f]
                          /\ Fetching(f)' <=> Fetching(f)
                          /\ Fetching(f) => f # p
  BY <1>1 DEF Delta, Fetching, RealtimeTypeOK
<1>4. \A q \in Polls, i \in Institutions :
        (Pending(q, i)' <=> Pending(q, i)) /\ (Pending(q, i) => q # p)
  BY <1>1 DEF Pending, RealtimeTypeOK, Fetchers
<1>5. Alone'
  BY <1>1, <1>2, <1>3 DEF Alone, RealtimeTypeOK, Fetchers, sumVars
<1>6. ASSUME NEW i \in Institutions PROVE Accounted(i)'
  BY <1>1, <1>2, <1>3, <1>4 DEF Accounted, Balance, Fetchers, sumVars
<1> QED
  BY <1>5, <1>6

\* A process that has just started has nothing to account for.
LEMMA FreshSums ==
  ASSUME \A f \in Fetchers : fpc[f] = "idle",
         \A i \in Institutions : handed[i] = Unknown /\ missed[i] = 0
  PROVE  SumInv
BY DEF SumInv, Alone, Accounted, Fetching, Fetchers

\* Whatever a fetch brings (the market's rate, the demo one or nothing) and
\* whoever makes it, the moves of the published rate handed to an institution's
\* recalculations and those missed by them add up to how far it has moved since
\* the first of them, as long as no two fetches or cycles overlapped.
THEOREM MovesAddUp == RealtimeSpec => []RatesAddUp
<1>1. RealtimeInit => SumInv
  BY FreshSums DEF RealtimeInit, Fresh
<1>2. /\ RealtimeTypeOK /\ RealtimeTypeOK' /\ SumInv
      /\ [RealtimeNext]_realtimeVars
      => SumInv'
  <2> SUFFICES ASSUME RealtimeTypeOK, RealtimeTypeOK', SumInv,
                      [RealtimeNext]_realtimeVars
               PROVE  SumInv'
    OBVIOUS
  <2>1. ASSUME UNCHANGED <<feedVars, sumVars>> PROVE SumInv'
    BY <2>1, ElsewhereKeepsSums
  <2>2. ASSUME NEW f \in Fetchers, Ask(f) \/ Reply(f) \/ Publish(f) PROVE SumInv'
    BY <2>2, AskKeepsSums, ReplyKeepsSums, PublishKeepsSums
  <2>3. ASSUME NEW p \in Polls, Rooms(p) \/ EndCycle(p) PROVE SumInv'
    BY <2>3, RoomsKeepsSums, EndCycleKeepsSums
  <2>4. ASSUME NEW p \in Polls, NEW i \in Institutions, Recalculate(p, i)
        PROVE  SumInv'
    BY <2>4, RecalculateKeepsSums
  <2>5. ASSUME RealtimeRestart PROVE SumInv'
    <3>1. /\ \A f \in Fetchers : fpc'[f] = "idle"
          /\ \A i \in Institutions : handed'[i] = Unknown /\ missed'[i] = 0
      BY <2>5 DEF RealtimeRestart, Fresh
    <3> QED
      BY <3>1 DEF SumInv, Alone, Accounted, Fetching, Fetchers
  <2> QED
    BY <2>1, <2>2, <2>3, <2>4, <2>5
       DEF RealtimeNext, Connect, Disconnect, Subscribe, Refuse, Join, Unsubscribe,
           Move, realtimeVars
<1>3. RealtimeTypeOK /\ SumInv => RatesAddUp
  <2> SUFFICES ASSUME RealtimeTypeOK, SumInv, ~ overlap,
                      \A f \in Fetchers : fpc[f] = "idle",
                      NEW i \in Institutions, handed[i] # Unknown, cache # Unknown
               PROVE  handed[i] + missed[i] = cache - origin[i]
    BY DEF RatesAddUp
  <2>1. Balance(i, 0)
    BY DEF SumInv, Accounted, Pending, Fetchers
  <2>2. handed[i] \in Int /\ missed[i] \in Int
    BY DEF RealtimeTypeOK
  <2> QED
    BY <2>1, <2>2 DEF Balance
<1> QED
  BY <1>1, <1>2, <1>3, RealtimeTypeCorrect, PTL DEF RealtimeSpec

=============================================================================
