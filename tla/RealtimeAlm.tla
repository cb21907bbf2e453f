---------------------------- MODULE RealtimeAlm ----------------------------
(***************************************************************************)
(* The realtime gateway of one process (realtime-alm/), all of it in       *)
(* memory.  Clients subscribe to institutions; every poll fetches the      *)
(* market rates, and recalculates each institution somebody is subscribed  *)
(* to with what the rates have moved by since the fetch before.  Whoever   *)
(* fetches, a poll or a reader of the latest rates, becomes that "fetch    *)
(* before".  One rate stands for all of them, fetched the way SOFR is.     *)
(*                                                                         *)
(* The module follows a move of the published rate up to the call of       *)
(* recalculateOnRateChange that is handed it, and no further: what that    *)
(* call makes of it is arithmetic about which nothing is said here (the    *)
(* average over the rates that have a former value, rounding, a metric of  *)
(* exactly 0 that restarts from its default).                              *)
(***************************************************************************)
EXTENDS Integers

CONSTANTS Clients,       \* connections; one that has ended does not return
          Institutions,
          Polls,         \* cycles that may be under way at once
          Readers,       \* callers of fetchLatestRates other than a cycle
          Unknown,       \* a rate or sum there is none of
          MaxRate,       \* bound: values of the rate
          DemoRate,      \* DEMO_RATES.SOFR
          MaxMoves,      \* bound: changes of the rate, and replies with the demo one
          MaxReads,      \* bound: fetches by readers
          MaxRestarts    \* bound: restarts of the process

Fetchers == Polls \cup Readers

ASSUME RealtimeAssumption ==
  /\ MaxRate \in Nat /\ MaxMoves \in Nat /\ MaxReads \in Nat
  /\ MaxRestarts \in Nat /\ DemoRate \in 0 .. MaxRate
  /\ Unknown \notin Int /\ Polls \cap Readers = {}

VARIABLES link,         \* the state of each connection
          subs,         \* clientSubscriptions
          asking,       \* subscribe calls whose ownership is being verified
          crossed,      \* history: those under way when the client left
          rate,         \* the rate of the market
          cache,        \* snapshotCache, the published rate; Unknown before
                        \* the first fetch that brings one
          fpc,          \* where each fetcher is
          previous,     \* previousValue, read before the rate is asked for
          value,        \* the reply, Unknown if there was none; both are
                        \* cleared where the fetcher is done with them
          todo,         \* institutions the cycle still recalculates
          handed,       \* the moves the institution's recalculations were
                        \* handed; Unknown before the first (no lastRecalc)
          origin,       \* history: the published rate that sum started from
          missed,       \* history: the moves none of them was handed
          overlap,      \* history: fetches or cycles have overlapped
          moves, reads, restarts

linkVars == <<link, subs, asking, crossed>>
feedVars == <<fpc, previous, value, todo>>
sumVars == <<cache, handed, origin, missed, overlap>>
boundVars == <<moves, reads, restarts>>
realtimeVars == <<linkVars, rate, feedVars, sumVars, boundVars>>

Rates == 0 .. MaxRate

-----------------------------------------------------------------------------
RealtimeTypeOK ==
  /\ link \in [Clients -> {"new", "on", "gone"}]
  /\ subs \in [Clients -> SUBSET Institutions]
  /\ asking \in [Clients -> SUBSET Institutions]
  /\ crossed \in [Clients -> SUBSET Institutions]
  /\ rate \in Rates /\ cache \in Rates \cup {Unknown}
  /\ fpc \in [Fetchers -> {"idle", "ask", "publish", "rooms", "recalc"}]
  /\ previous \in [Fetchers -> Rates \cup {Unknown}]
  /\ value \in [Fetchers -> Rates \cup {Unknown}]
  /\ todo \in [Polls -> SUBSET Institutions]
  /\ \A p \in Polls : todo[p] # {} => fpc[p] = "recalc"
  /\ handed \in [Institutions -> Int \cup {Unknown}]
  /\ origin \in [Institutions -> Int \cup {Unknown}]
  /\ missed \in [Institutions -> Int]
  /\ \A i \in Institutions :
       handed[i] # Unknown => (origin[i] = Unknown <=> cache = Unknown)
  /\ overlap \in BOOLEAN
  /\ moves \in 0 .. MaxMoves /\ reads \in 0 .. MaxReads
  /\ restarts \in 0 .. MaxRestarts

\* The state of a process that has just started.
Fresh(v) == [i \in Institutions |-> v]

RealtimeInit ==
  /\ link = [c \in Clients |-> "new"]
  /\ subs = [c \in Clients |-> {}] /\ asking = [c \in Clients |-> {}]
  /\ crossed = [c \in Clients |-> {}]
  /\ rate \in Rates /\ cache = Unknown
  /\ fpc = [f \in Fetchers |-> "idle"]
  /\ previous = [f \in Fetchers |-> Unknown] /\ value = [f \in Fetchers |-> Unknown]
  /\ todo = [p \in Polls |-> {}]
  /\ handed = Fresh(Unknown) /\ origin = Fresh(Unknown) /\ missed = Fresh(0)
  /\ overlap = FALSE
  /\ moves = 0 /\ reads = 0 /\ restarts = 0

-----------------------------------------------------------------------------
\* Connections.

Connect(c) ==
  /\ link[c] = "new" /\ link' = [link EXCEPT ![c] = "on"]
  /\ UNCHANGED <<subs, asking, crossed, rate, feedVars, sumVars, boundVars>>

\* Mutant of Disconnect: the set of the client stays in the map.
Vanish(c) ==
  /\ link[c] = "on" /\ link' = [link EXCEPT ![c] = "gone"]
  /\ crossed' = [crossed EXCEPT ![c] = asking[c]]
  /\ UNCHANGED <<subs, asking, rate, feedVars, sumVars, boundVars>>

Disconnect(c) ==
  /\ link[c] = "on" /\ link' = [link EXCEPT ![c] = "gone"]
  /\ subs' = [subs EXCEPT ![c] = {}]
  /\ crossed' = [crossed EXCEPT ![c] = asking[c]]
  /\ UNCHANGED <<asking, rate, feedVars, sumVars, boundVars>>

\* handleSubscribe up to verifyOwnership, and its refusal.
Subscribe(c, i) ==
  /\ link[c] = "on" /\ i \notin asking[c]
  /\ asking' = [asking EXCEPT ![c] = @ \cup {i}]
  /\ UNCHANGED <<link, subs, crossed, rate, feedVars, sumVars, boundVars>>

Refuse(c, i) ==
  /\ i \in asking[c] /\ asking' = [asking EXCEPT ![c] = @ \ {i}]
  /\ UNCHANGED <<link, subs, crossed, rate, feedVars, sumVars, boundVars>>

\* The room is joined and recorded whether or not the client is still there.
Join(c, i) ==
  /\ i \in asking[c] /\ asking' = [asking EXCEPT ![c] = @ \ {i}]
  /\ subs' = [subs EXCEPT ![c] = @ \cup {i}]
  /\ UNCHANGED <<link, crossed, rate, feedVars, sumVars, boundVars>>

Unsubscribe(c, i) ==
  /\ link[c] = "on" /\ i \in subs[c] /\ subs' = [subs EXCEPT ![c] = @ \ {i}]
  /\ UNCHANGED <<link, asking, crossed, rate, feedVars, sumVars, boundVars>>

-----------------------------------------------------------------------------
\* fetchLatestRates

Fetching(f) == fpc[f] \in {"ask", "publish"}
Steps(f, at, to) == fpc[f] = at /\ fpc' = [fpc EXCEPT ![f] = to]

\* Fetches that overlap, or cycles that do, may see a move twice or not at all.
Ask(f) ==
  /\ Steps(f, "idle", "ask")
  /\ previous' = [previous EXCEPT ![f] = cache]
  /\ overlap' = (overlap \/ (\E g \in Fetchers : Fetching(g))
                   \/ (f \in Polls /\ \E p \in Polls : fpc[p] # "idle"))
  /\ f \in Readers => reads < MaxReads
  /\ reads' = IF f \in Readers THEN reads + 1 ELSE reads
  /\ UNCHANGED <<linkVars, rate, value, todo, cache, handed, origin, missed,
                 moves, restarts>>

\* fetchSOFR: the market's rate, the demo one where there is no key or the reply
\* names no rate that can be read, or nothing where the call throws.
Reply(f) ==
  /\ Steps(f, "ask", "publish")
  /\ \/ /\ \E v \in {rate, Unknown} : value' = [value EXCEPT ![f] = v]
        /\ UNCHANGED moves
     \/ /\ moves < MaxMoves /\ moves' = moves + 1
        /\ value' = [value EXCEPT ![f] = DemoRate]
  /\ UNCHANGED <<linkVars, rate, previous, todo, sumVars, reads, restarts>>

\* What the published rate moves by: nothing without a value or a former one.
Delta(f) ==
  IF Unknown \in {value[f], previous[f]} THEN 0 ELSE value[f] - previous[f]

\* What the recalculations of these institutions are not handed of a fetch.
Miss(f, these) ==
  missed' = [i \in Institutions |->
               IF i \in these /\ handed[i] # Unknown
                 THEN missed[i] + Delta(f) ELSE missed[i]]

Forget(f) ==
  /\ previous' = [previous EXCEPT ![f] = Unknown]
  /\ value' = [value EXCEPT ![f] = Unknown]

\* Mutant of Publish: what a failed fetch does not bring is forgotten.
PublishAnything(f) ==
  /\ Steps(f, "publish", IF f \in Polls THEN "rooms" ELSE "idle")
  /\ cache' = value[f]
  /\ Miss(f, IF f \in Polls THEN {} ELSE Institutions)
  /\ origin' = [i \in Institutions |->
                  IF handed[i] # Unknown /\ cache = Unknown
                    THEN value[f] ELSE origin[i]]
  /\ \/ f \in Polls /\ UNCHANGED <<previous, value>>
     \/ f \in Readers /\ Forget(f)
  /\ UNCHANGED <<linkVars, rate, todo, handed, overlap, boundVars>>

Publish(f) ==
  /\ Steps(f, "publish", IF f \in Polls THEN "rooms" ELSE "idle")
  /\ cache' = IF value[f] = Unknown THEN cache ELSE value[f]
  /\ Miss(f, IF f \in Polls THEN {} ELSE Institutions)
  /\ origin' = [i \in Institutions |->
                  IF handed[i] # Unknown /\ cache = Unknown
                    THEN value[f] ELSE origin[i]]
  /\ \/ f \in Polls /\ UNCHANGED <<previous, value>>
     \/ f \in Readers /\ Forget(f)
  /\ UNCHANGED <<linkVars, rate, todo, handed, overlap, boundVars>>

\* onPollCycle, once the rates are there.

Subscribed == UNION {subs[c] : c \in Clients}

Rooms(p) ==
  /\ Steps(p, "rooms", "recalc")
  /\ todo' = [todo EXCEPT ![p] = Subscribed]
  /\ Miss(p, Institutions \ Subscribed)
  /\ UNCHANGED <<linkVars, rate, previous, value, cache, handed, origin, overlap,
                 boundVars>>

\* recalculateOnRateChange is called with the snapshots of this cycle.  It reads
\* the former result before the balance sheet and writes the new one after: one
\* step, as only a cycle that overlaps could come in between.
Recalculate(p, i) ==
  /\ fpc[p] = "recalc" /\ i \in todo[p]
  /\ todo' = [todo EXCEPT ![p] = @ \ {i}]
  /\ \/ /\ handed[i] # Unknown
        /\ handed' = [handed EXCEPT ![i] = @ + Delta(p)]
        /\ UNCHANGED origin
     \/ /\ handed[i] = Unknown
        /\ handed' = [handed EXCEPT ![i] = Delta(p)]
        /\ origin' = [origin EXCEPT ![i] =
                        IF cache = Unknown THEN Unknown ELSE cache - Delta(p)]
  /\ UNCHANGED <<linkVars, rate, fpc, previous, value, cache, missed, overlap,
                 boundVars>>

EndCycle(p) ==
  /\ todo[p] = {} /\ Steps(p, "recalc", "idle") /\ Forget(p)
  /\ UNCHANGED <<linkVars, rate, todo, sumVars, boundVars>>

-----------------------------------------------------------------------------
\* The rate of the market moves.
Move ==
  /\ moves < MaxMoves /\ moves' = moves + 1
  /\ rate' \in Rates \ {rate}
  /\ UNCHANGED <<linkVars, feedVars, sumVars, reads, restarts>>

\* A restart ends every connection and empties every map.
RealtimeRestart ==
  /\ restarts < MaxRestarts /\ restarts' = restarts + 1
  /\ link' = [c \in Clients |-> IF link[c] = "new" THEN "new" ELSE "gone"]
  /\ subs' = [c \in Clients |-> {}] /\ asking' = [c \in Clients |-> {}]
  /\ crossed' = [c \in Clients |-> {}]
  /\ cache' = Unknown /\ fpc' = [f \in Fetchers |-> "idle"]
  /\ previous' = [f \in Fetchers |-> Unknown]
  /\ value' = [f \in Fetchers |-> Unknown]
  /\ todo' = [p \in Polls |-> {}]
  /\ handed' = Fresh(Unknown) /\ origin' = Fresh(Unknown) /\ missed' = Fresh(0)
  /\ overlap' = FALSE
  /\ UNCHANGED <<rate, moves, reads>>

RealtimeNext ==
  \/ \E c \in Clients :
       \/ Connect(c) \/ Disconnect(c)
       \/ \E i \in Institutions : Subscribe(c, i) \/ Refuse(c, i) \/ Join(c, i)
                                  \/ Unsubscribe(c, i)
  \/ \E f \in Fetchers : Ask(f) \/ Reply(f) \/ Publish(f)
  \/ \E p \in Polls : \/ Rooms(p) \/ EndCycle(p)
                       \/ \E i \in Institutions : Recalculate(p, i)
  \/ Move \/ RealtimeRestart

RealtimeSpec == RealtimeInit /\ [][RealtimeNext]_realtimeVars

-----------------------------------------------------------------------------
(* Properties *)

\* A connection that has ended leaves in the map, and so to be recalculated by
\* every cycle, only institutions whose subscribe call was under way as it
\* ended.
LittleIsLeftBehind ==
  \A c \in Clients : link[c] = "gone" => subs[c] \subseteq crossed[c]

\* Between cycles, while no two have overlapped: every move of the published rate
\* since an institution's first recalculation was handed to exactly one of its
\* recalculations, except the moves published by other readers' fetches or while
\* nobody was subscribed to it, which none of them ever is handed.  The published
\* rate moves to the demo value and back where fetches fall back on it.
RatesAddUp ==
  (~overlap /\ \A f \in Fetchers : fpc[f] = "idle") =>
    \A i \in Institutions :
      (handed[i] # Unknown /\ cache # Unknown) =>
        handed[i] + missed[i] = cache - origin[i]
=============================================================================
