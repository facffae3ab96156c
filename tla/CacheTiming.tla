---------------------------- MODULE CacheTiming ----------------------------
(***************************************************************************)
(* CacheService on a machine that keeps up: select takes a tick as soon as *)
(* there is one, and no collection lasts more than MaxBusy ticks.  What    *)
(* the two periods TTL / 2 and TTL (main.go:217-219) then guarantee.       *)
(***************************************************************************)
EXTENDS CacheService

CONSTANT MaxBusy   \* the longest collection, in ticks

ASSUME MaxBusyAssumption == MaxBusy \in Nat

VARIABLES
  busy,    \* ticks since the running collection began
  listed,  \* the clouds that the last collection listed
  steady   \* the clouds that the last two collections listed

timingVars == <<vars, busy, listed, steady>>

TimingInit == Init /\ busy = 0 /\ listed = {} /\ steady = {}

Collecting == pc \in {"list", "clouds", "enable", "gather"}

\* The clock waits for a cancelled main, for a select or a flush that is ready,
\* and for a collection that has used up its time.
Prompt == /\ cause = "none"
          /\ pc # "flush"
          /\ pc = "select" => ~collectTick /\ ~flushTick
          /\ Collecting => busy < MaxBusy

TimedTick ==
  /\ Tick
  /\ Prompt
  /\ busy' = IF Collecting THEN busy + 1 ELSE 0
  /\ UNCHANGED <<listed, steady>>

TimedList ==
  /\ ListClouds
  /\ listed' = IF pc' = "clouds" THEN todo' ELSE {}
  /\ steady' = listed \cap listed'
  /\ UNCHANGED busy

TimedEnd ==
  /\ EndCollection
  /\ busy' = 0
  /\ UNCHANGED <<listed, steady>>

Untimed ==
  /\ \/ \E c \in Clouds : VisitCloud(c)
     \/ EnableExporter
     \/ SkipService
     \/ \E fs \in SUBSET Families : Gather(fs)
     \/ Publish
     \/ SelectCollect \/ SelectFlush \/ Flush \/ SelectDone
     \/ EditConfig \/ Signal \/ WebError \/ MainReturns
  /\ UNCHANGED <<busy, listed, steady>>

TimingNext == TimedTick \/ TimedList \/ TimedEnd \/ Untimed

TimingSpec == TimingInit /\ [][TimingNext]_timingVars

---------------------------------------------------------------------------
(* Properties.                                                             *)

\* A cloud that is in clouds.yaml never disappears from the cache once it is
\* there, as long as no collection lasts longer than the TTL: a flush never
\* finds the entry of a listed cloud expired, in whatever order select takes a
\* collect tick and a flush tick that are due together (main.go:229-243).
NoGap ==
  [][\A c \in DOMAIN CloudCaches : c \notin DOMAIN CloudCaches' => c \notin listed]_timingVars

\* What a handler serves for a cloud that stays in clouds.yaml was published at
\* most one collection and one period (or two collections in a row) ago, even
\* when the collections visit the clouds in opposite orders.
ListedAgeBound ==
  \A c \in DOMAIN CloudCaches :
    c \in steady =>
      CloudCaches[c].age <= MaxBusy + (IF MaxBusy > CollectPeriod THEN MaxBusy
                                                                ELSE CollectPeriod)
============================================================================
