-------------------------- MODULE ReadAheadProofs --------------------------
(* Proofs about ReadAhead, for any images, chunk depths, channels, frames   *)
(* and clock.                                                               *)
EXTENDS ReadAhead, FiniteSetTheorems, WellFoundedInduction, TLAPS

(* Which thread is where, and what it leaves the other: a Served between    *)
(* deciding on a prefetch and starting it has the one under way for its     *)
(* own, beside no thread at work, an owner lets go between frames, and a decode  *)
(* is of an image left.                                                     *)
Handover ==
    /\ frame.pc \in {"join", "start"} => under_way /\ worker \in {"none", "returned"}
    /\ owner # "held" => frame.pc = "between" /\ canceller # "lock"
    /\ worker = "decode" => work # {}

(* The flag goes up before the lock is asked for, and stopped is set under  *)
(* it.                                                                      *)
Flagged ==
    /\ canceller # "idle" => cancelled
    /\ canceller = "done" => stopped

(* What the three times remember while a frame plays.                       *)
Remembered ==
    /\ frame.began <= now
    /\ under_way => \E i \in Images : prefetching[i] # NoRun
    /\ frame.pc = "playing" /\ frame.beside =>
         started <= frame.began /\ \E i \in Images : prefetching[i] # NoRun
    /\ frame.pc = "playing" /\ ~ frame.beside => ~ under_way /\ finished <= frame.began

IInv == TypeOK /\ OneThread /\ Handover /\ Flagged /\ Remembered

-----------------------------------------------------------------------------
(* A set of naturals has a least member, and Min is it.                     *)
LEMMA LeastMember ==
    ASSUME NEW S, S \subseteq Nat, S # {}
    PROVE  Min(S) \in S /\ \A y \in S : Min(S) <= y
<1> DEFINE R == OpToRel(<, Nat)
<1>1. IsWellFoundedOn(R, Nat)
  BY NatLessThanWellFounded, Zenon
<1>2. \A a, b \in Nat : a < b => <<a, b>> \in R
  BY DEF OpToRel
<1> HIDE DEF R
<1>3. PICK x \in S : \A y \in S : ~ (<<y, x>> \in R)
  BY <1>1, WFMin
<1>4. \A y \in S : x <= y
  <2> SUFFICES ASSUME NEW y \in S, ~ (x <= y) PROVE FALSE
    OBVIOUS
  <2>1. x \in Nat /\ y \in Nat /\ y < x
    OBVIOUS
  <2> QED
    BY <1>2, <1>3, <2>1
<1> QED
  BY <1>4 DEF Min

(* A run is numbered no higher than the channels in it.                     *)
LEMMA RunType == ASSUME NEW i \in Images, NEW c \in Channel PROVE RunOf(i, c) \in Channel
<1>1. c \in Nat /\ Depth[i] \in Nat /\ Depth[i] > 0 /\ c < Channels /\ Channels \in Nat
  BY ReadAheadAssumption DEF Channel
<1>2. \A n, d \in Nat : d > 0 => n \div d \in Nat /\ n \div d <= n
  <2> SUFFICES ASSUME NEW n \in Nat, NEW d \in Nat, d > 0 PROVE n \div d \in Nat /\ n \div d <= n
    OBVIOUS
  <2>1. n \div d \in Nat /\ (n \div d) * d <= n
    OBVIOUS
  <2>2. ASSUME NEW q \in Nat PROVE q <= q * d
    OBVIOUS
  <2> QED
    BY <2>1, <2>2
<1>3. c \div Depth[i] \in Nat /\ c \div Depth[i] <= c
  BY <1>1, <1>2
<1> QED
  BY <1>1, <1>3 DEF RunOf, Channel

LEMMA NextRunType ==
    ASSUME NEW i \in Images, NEW shown \in Shown, NEW upcoming \in Ahead
    PROVE  NextRun(i, shown, upcoming) \in Channel \cup {NoRun}
<1> DEFINE ahead == {k \in 1 .. Upcoming :
                       /\ k <= Len(upcoming)
                       /\ i \in Planes(upcoming[k])
                       /\ RunOf(i, upcoming[k][i]) # RunOf(i, shown[i])}
<1>1. CASE ahead = {}
  BY <1>1 DEF NextRun
<1>2. CASE ahead # {}
  <2>1. ahead \subseteq Nat
    BY ReadAheadAssumption
  <2>2. Min(ahead) \in ahead
    BY <1>2, <2>1, LeastMember
  <2> DEFINE k == Min(ahead)
  <2>3. k \in 1 .. Len(upcoming) /\ i \in Planes(upcoming[k])
    BY <2>2, ReadAheadAssumption, FramesAssumption
  <2> HIDE DEF k
  <2>4. upcoming[k] \in [Images -> Channel \cup {NoPlane}]
    BY <2>3, FramesAssumption
  <2>5. upcoming[k][i] \in Channel
    BY <2>3, <2>4 DEF Planes
  <2>6. RunOf(i, upcoming[k][i]) \in Channel
    BY <2>5, RunType
  <2> QED
    BY <1>2, <2>6 DEF NextRun, k
<1> QED
  BY <1>1, <1>2

LEMMA WantedFacts ==
    ASSUME NEW shown \in Shown, NEW upcoming \in Ahead
    PROVE  /\ Wanted(shown, upcoming) \in SUBSET Images
           /\ Cardinality(Wanted(shown, upcoming)) \in Nat
           /\ \A i \in Wanted(shown, upcoming) : NextRun(i, shown, upcoming) # NoRun
<1>1. /\ Wanted(shown, upcoming) \in SUBSET Images
      /\ \A i \in Wanted(shown, upcoming) : NextRun(i, shown, upcoming) # NoRun
  BY DEF Wanted, Planes
<1> QED
  BY <1>1, ReadAheadAssumption, FS_Subset, FS_CardinalityType

(* Served puts the frame's facts away.                                      *)
LEMMA Afterwards ==
    ASSUME frame \in Frame, NEW pc \in {"between", "playing", "join", "start", "threw", "cancel"}
    PROVE  /\ After(pc) \in Frame /\ After(pc).pc = pc
           /\ After(pc).began = 0
BY DEF After, Frame

-----------------------------------------------------------------------------
LEMMA AheadInit == Init => IInv
<1> SUFFICES ASSUME Init PROVE IInv
  OBVIOUS
<1>1. TypeOK
  <2>1. frame \in Frame
    BY DEF Init, Frame
  <2>2. /\ prefetching \in [Images -> Channel \cup {NoRun}]
        /\ requested \in [Images -> Channel \cup {NoRun}]
    BY DEF Init
  <2>3. now \in 0 .. MaxClock /\ started \in 0 .. now /\ finished \in 0 .. now
    BY ReadAheadAssumption DEF Init
  <2> QED
    BY <2>1, <2>2, <2>3 DEF Init, TypeOK
<1>2. OneThread /\ Handover /\ Flagged
  BY DEF Init, OneThread, Handover, Flagged
<1>3. Remembered
  BY DEF Init, Remembered
<1> QED
  BY <1>1, <1>2, <1>3 DEF IInv

(* The clock, the caller's frames, and the ends of Cancel and of the        *)
(* handle.                                                                  *)
LEMMA TickKeeps == IInv /\ Tick => IInv'
<1> SUFFICES ASSUME IInv, Tick PROVE IInv'
  OBVIOUS
<1>1. TypeOK'
  BY ReadAheadAssumption DEF IInv, Tick, TypeOK, guarded, thread
<1>2. OneThread' /\ Handover' /\ Flagged'
  BY DEF IInv, Tick, OneThread, Handover, Flagged, guarded, thread
<1>3. Remembered'
  BY ReadAheadAssumption DEF IInv, Tick, Remembered, TypeOK, Frame, guarded, thread
<1> QED
  BY <1>1, <1>2, <1>3 DEF IInv

LEMMA FrameBeginsKeeps == ASSUME NEW late \in BOOLEAN, IInv, FrameBegins(late) PROVE IInv'
<1> DEFINE next == [frame EXCEPT !.pc = "playing", !.count = @ + 1, !.began = now,
                                 !.late = late, !.beside = under_way]
<1>1. /\ frame' = next /\ frame.pc = "between" /\ owner = "held"
      /\ UNCHANGED <<now, canceller, owner, cancelled, guarded, thread, decoded>>
  BY DEF FrameBegins
<1>2. /\ next \in Frame /\ next.pc = "playing" /\ next.began = now /\ next.beside = under_way
  <2>1. frame \in Frame /\ now \in Nat /\ under_way \in BOOLEAN
    BY ReadAheadAssumption DEF IInv, TypeOK
  <2>2. next.pc = "playing" /\ next.began = now
    BY <2>1 DEF Frame
  <2>3. next.beside = under_way
    BY <2>1, Zenon DEF Frame
  <2>4. next \in Frame
    <3>1. \A f \in Frame, n \in Nat, m \in Nat, l \in BOOLEAN, b \in BOOLEAN :
            [f EXCEPT !.pc = "playing", !.count = n, !.began = m, !.late = l, !.beside = b] \in Frame
      BY DEF Frame
    <3>2. frame.count + 1 \in Nat
      BY <2>1 DEF Frame
    <3> QED
      BY <2>1, <3>1, <3>2, Zenon
  <2> QED
    BY <2>2, <2>3, <2>4
<1> HIDE DEF next
<1>3. TypeOK'
  BY <1>1, <1>2 DEF IInv, TypeOK, guarded, thread
<1>4. OneThread' /\ Handover' /\ Flagged'
  BY <1>1, <1>2 DEF IInv, OneThread, Handover, Flagged, guarded, thread
<1>5. Remembered'
  BY <1>1, <1>2, ReadAheadAssumption DEF IInv, TypeOK, Remembered, guarded, thread
<1> QED
  BY <1>3, <1>4, <1>5 DEF IInv

LEMMA CancelKeeps ==
    ASSUME IInv, CancelFlag \/ CancelStops \/ LetGo \/ LetGoStops \/ LetGoJoins
    PROVE  IInv'
<1> USE DEF IInv
<1>1. TypeOK'
  BY DEF TypeOK, CancelFlag, CancelStops, LetGo, LetGoStops, LetGoJoins, LetGoCancels, JoinThread,
         guarded, thread
<1>2. OneThread' /\ Handover'
  BY DEF TypeOK, OneThread, Handover, CancelFlag, CancelStops, LetGo, LetGoStops, LetGoJoins, JoinThread,
         guarded, thread
<1>3. Flagged'
  BY DEF Handover, Flagged, CancelFlag, CancelStops, LetGo, LetGoStops, LetGoJoins, LetGoCancels,
         guarded, thread
<1>4. Remembered'
  BY DEF Remembered, CancelFlag, CancelStops, LetGo, LetGoStops, LetGoJoins, guarded, thread
<1> QED
  BY <1>1, <1>2, <1>3, <1>4

(* The prefetch thread.                                                     *)
LEMMA WorkerKeeps ==
    ASSUME IInv, LoopEnds \/ PrefetchBegins \/ PrefetchEnds
                   \/ \E threw \in BOOLEAN : ThreadEnds(threw)
    PROVE  IInv'
<1> USE DEF IInv
<1>1. CASE LoopEnds \/ PrefetchBegins
  <2>1. TypeOK'
    BY <1>1 DEF TypeOK, LoopEnds, PrefetchBegins, guarded
  <2>2. OneThread' /\ Handover' /\ Flagged' /\ Remembered'
    BY <1>1 DEF OneThread, Handover, Flagged, Remembered, LoopEnds, PrefetchBegins, guarded
  <2> QED
    BY <2>1, <2>2
<1>2. CASE PrefetchEnds
  <2>1. work # {} => Min(work) \in Images
    BY LeastMember, ReadAheadAssumption DEF TypeOK
  <2>2. TypeOK'
    BY <1>2, <2>1 DEF TypeOK, Handover, PrefetchEnds, guarded
  <2>3. OneThread' /\ Handover' /\ Flagged' /\ Remembered'
    BY <1>2 DEF OneThread, Handover, Flagged, Remembered, PrefetchEnds, guarded
  <2> QED
    BY <2>2, <2>3
<1>3. ASSUME NEW threw \in BOOLEAN, ThreadEnds(threw) PROVE IInv'
  <2>1. TypeOK'
    <3>1. stopped' \in BOOLEAN /\ under_way' \in BOOLEAN
      BY <1>3 DEF TypeOK, ThreadEnds
    <3>2. finished' \in 0 .. now' /\ started' \in 0 .. now'
      BY <1>3, ReadAheadAssumption DEF TypeOK, ThreadEnds
    <3> QED
      BY <1>3, <3>1, <3>2 DEF TypeOK, ThreadEnds
  <2>2. OneThread' /\ Handover' /\ Flagged'
    BY <1>3 DEF TypeOK, OneThread, Handover, Flagged, ThreadEnds
  <2>3. Remembered'
    BY <1>3 DEF TypeOK, Frame, OneThread, Remembered, ThreadEnds
  <2> QED
    BY <2>1, <2>2, <2>3
<1> QED
  BY <1>1, <1>2, <1>3

(* Served, and what follows it in its thread.                               *)
LEMMA ServedOnlyKeeps ==
    ASSUME NEW shown \in Shown, NEW upcoming \in Ahead, IInv, ServedOnly(shown, upcoming)
    PROVE  IInv'
<1> USE DEF IInv
<1>1. /\ frame.pc = "playing" /\ frame' = After("between")
      /\ frame' \in Frame /\ frame'.pc = "between" /\ frame'.began = 0
  BY Afterwards DEF ServedOnly, TypeOK
<1>2. /\ UNCHANGED <<now, canceller, owner, cancelled, under_way, started, finished,
                     prefetching, requested, prefetches, thread, decoded>>
      /\ stopped' = (stopped \/ StopForLate)
      /\ counted_catch' = (counted_catch \/ CaughtNow(shown) # {})
  BY DEF ServedOnly, Late
<1>3. caught_up' \in Nat
  BY DEF ServedOnly, Catch, CountCatch, TypeOK
<1>4. TypeOK'
  BY <1>1, <1>2, <1>3 DEF TypeOK, thread
<1>5. OneThread' /\ Handover' /\ Flagged'
  BY <1>1, <1>2 DEF OneThread, Handover, Flagged, thread
<1>6. Remembered'
  BY <1>1, <1>2, ReadAheadAssumption DEF TypeOK, Remembered
<1> QED
  BY <1>4, <1>5, <1>6

LEMMA ServedStartsKeeps ==
    ASSUME NEW shown \in Shown, NEW upcoming \in Ahead, IInv, ServedStarts(shown, upcoming)
    PROVE  IInv'
<1> USE DEF IInv
<1> DEFINE wanted == Wanted(shown, upcoming)
<1>1. /\ frame.pc = "playing" /\ ~ under_way
      /\ frame' \in Frame /\ frame'.pc = "join" /\ frame'.began = 0
  BY Afterwards DEF ServedStarts, MayStart, TypeOK
<1>2. /\ UNCHANGED <<now, canceller, owner, cancelled, finished, worker>>
      /\ under_way' = TRUE /\ started' = now /\ counted_catch' = FALSE
      /\ stopped' = (stopped \/ StopForLate)
      /\ work' = wanted /\ decoded' = decoded \ wanted
      /\ prefetches' = prefetches + Cardinality(wanted)
      /\ wanted # {}
  BY DEF ServedStarts, Late
<1>3. wanted \in SUBSET Images /\ Cardinality(wanted) \in Nat /\ \A i \in wanted : NextRun(i, shown, upcoming) # NoRun
  BY WantedFacts
<1>4. /\ prefetching' \in [Images -> Channel \cup {NoRun}]
      /\ requested' \in [Images -> Channel \cup {NoRun}]
  BY NextRunType DEF ServedStarts, TypeOK
<1>5. \E i \in Images : prefetching'[i] # NoRun
  BY <1>2, <1>3 DEF ServedStarts
<1>6. caught_up' \in Nat
  BY DEF ServedStarts, Catch, CountCatch, TypeOK
<1> HIDE DEF wanted
<1>7. TypeOK'
  <2>1. now' \in 0 .. MaxClock /\ started' \in 0 .. now' /\ finished' \in 0 .. now'
    BY <1>2, ReadAheadAssumption DEF TypeOK
  <2>2. prefetches' \in Nat /\ work' \in SUBSET Images /\ decoded' \in SUBSET Images
    BY <1>2, <1>3 DEF TypeOK
  <2> QED
    BY <1>1, <1>2, <1>4, <1>6, <2>1, <2>2 DEF TypeOK
<1>8. OneThread' /\ Handover' /\ Flagged'
  BY <1>1, <1>2 DEF TypeOK, OneThread, Handover, Flagged
<1>9. Remembered'
  BY <1>1, <1>2, <1>5, ReadAheadAssumption DEF TypeOK, Remembered
<1> QED
  BY <1>7, <1>8, <1>9

LEMMA ServedThrowsKeeps ==
    ASSUME NEW shown \in Shown, NEW upcoming \in Ahead, IInv, ServedThrows(shown, upcoming)
    PROVE  IInv'
<1> USE DEF IInv
<1>1. /\ frame.pc = "playing"
      /\ frame' \in Frame /\ frame'.pc = "threw" /\ frame'.began = 0
  BY Afterwards DEF ServedThrows, TypeOK
<1>2. /\ UNCHANGED <<now, canceller, owner, cancelled, under_way, started, finished,
                     prefetching, prefetches, thread>>
      /\ stopped' = (stopped \/ StopForLate)
  BY DEF ServedThrows, Late
<1>3. /\ caught_up' \in Nat /\ counted_catch' \in BOOLEAN
      /\ requested' \in [Images -> Channel \cup {NoRun}]
      /\ decoded' \in SUBSET Images
  <2>1. CASE UNCHANGED <<counted_catch, requested, decoded, caught_up>>
    BY <2>1 DEF TypeOK
  <2>2. ASSUME NEW down \in SUBSET Wanted(shown, upcoming), Catch(shown),
               counted_catch' = (counted_catch \/ CaughtNow(shown) # {}),
               requested' = [i \in Images |-> IF i \in down THEN NextRun(i, shown, upcoming) ELSE requested[i]],
               decoded' = decoded \ down
        PROVE  <1>3!:
    <3>1. caught_up' \in Nat /\ decoded' \in SUBSET Images
      BY <2>2 DEF Catch, CountCatch, TypeOK
    <3>2. counted_catch' \in BOOLEAN
      BY <2>2
    <3>3. requested' \in [Images -> Channel \cup {NoRun}]
      BY <2>2, NextRunType DEF TypeOK
    <3> QED
      BY <3>1, <3>2, <3>3
  <2> QED
    BY <2>1, <2>2 DEF ServedThrows
<1>4. TypeOK'
  BY <1>1, <1>2, <1>3 DEF TypeOK, thread
<1>5. OneThread' /\ Handover' /\ Flagged'
  BY <1>1, <1>2 DEF OneThread, Handover, Flagged, thread
<1>6. Remembered'
  BY <1>1, <1>2, ReadAheadAssumption DEF TypeOK, Remembered
<1> QED
  BY <1>4, <1>5, <1>6

LEMMA ServeStepKeeps == IInv /\ ServeStep => IInv'
<1> SUFFICES ASSUME IInv, ServeStep PROVE IInv'
  OBVIOUS
<1> USE DEF IInv
<1>1. CASE JoinLast
  <2>1. frame' \in Frame /\ frame'.pc = "start" /\ frame'.began = frame.began
    BY <1>1 DEF JoinLast, TypeOK, Frame
  <2>2. frame.pc = "join" /\ worker' = "none"
        /\ UNCHANGED <<now, canceller, owner, cancelled, guarded, work, decoded>>
    BY <1>1 DEF JoinLast, JoinThread
  <2>3. TypeOK'
    BY <2>1, <2>2 DEF TypeOK, guarded
  <2>4. OneThread' /\ Handover' /\ Flagged' /\ Remembered'
    BY <2>1, <2>2 DEF OneThread, Handover, Flagged, Remembered, guarded
  <2> QED
    BY <2>3, <2>4
<1>2. CASE StartThread \/ StartFails \/ ServedCancels
  <2>1. frame' \in Frame /\ frame'.pc = "between" /\ frame'.began = 0
    BY <1>2, Afterwards DEF StartThread, StartFails, ServedCancels, TypeOK
  <2>2. TypeOK'
    <3>1. /\ {cancelled', under_way', counted_catch', stopped'} \subseteq BOOLEAN
          /\ worker' \in {"none", "loop", "decode", "end", "returned"}
          /\ work' \in SUBSET Images /\ decoded' \in SUBSET Images
      BY <1>2 DEF StartThread, StartFails, ServedCancels, TypeOK, ClearUnderWay, guarded, thread
    <3>2. now' \in 0 .. MaxClock /\ started' \in 0 .. now' /\ finished' \in 0 .. now'
      BY <1>2, ReadAheadAssumption DEF StartThread, StartFails, ServedCancels, TypeOK, guarded
    <3> QED
      BY <1>2, <2>1, <3>1, <3>2 DEF StartThread, StartFails, ServedCancels, TypeOK, guarded
  <2>3. OneThread'
    BY <1>2, <2>1 DEF StartThread, StartFails, ServedCancels, OneThread, Handover, ClearUnderWay,
                      guarded, thread
  <2>4. Handover' /\ Flagged'
    BY <1>2, <2>1 DEF StartThread, StartFails, ServedCancels, Handover, Flagged, guarded, thread
  <2>5. Remembered'
    BY <1>2, <2>1, ReadAheadAssumption DEF StartThread, StartFails, ServedCancels, TypeOK, Remembered,
       ClearUnderWay, guarded, thread
  <2> QED
    BY <2>2, <2>3, <2>4, <2>5
<1>3. CASE ServedFlags
  <2>1. /\ frame.pc = "threw" /\ cancelled' = TRUE
        /\ frame' \in Frame /\ frame'.pc = "cancel" /\ frame'.began = 0
        /\ UNCHANGED <<now, canceller, owner, guarded, thread, decoded>>
    BY <1>3, Afterwards DEF ServedFlags, TypeOK
  <2>2. TypeOK'
    BY <2>1 DEF TypeOK, guarded, thread
  <2>3. OneThread' /\ Handover' /\ Flagged'
    BY <2>1 DEF OneThread, Handover, Flagged, guarded, thread
  <2>4. UNCHANGED <<now, under_way, started, finished, prefetching>>
    BY <2>1 DEF guarded
  <2>5. Remembered'
    BY <2>1, <2>4, ReadAheadAssumption DEF TypeOK, Remembered
  <2> QED
    BY <2>2, <2>3, <2>5
<1> QED
  BY <1>1, <1>2, <1>3 DEF ServeStep

LEMMA AheadStep == IInv /\ [Next]_vars => IInv'
<1>1. ASSUME IInv, UNCHANGED vars PROVE IInv'
  BY <1>1 DEF vars, IInv, TypeOK, OneThread, Handover, Flagged, Remembered
<1>2. ASSUME IInv, ServedStep PROVE IInv'
  BY <1>2, ServedOnlyKeeps, ServedStartsKeeps, ServedThrowsKeeps DEF ServedStep
<1>3. ASSUME IInv, WorkerStep \/ DecodeEnds PROVE IInv'
  BY <1>3, WorkerKeeps DEF WorkerStep, DecodeEnds
<1> QED
  BY <1>1, <1>2, <1>3, TickKeeps, FrameBeginsKeeps, ServeStepKeeps, CancelKeeps
     DEF Next, LetGoStep, Terminated

(* What Served, the prefetch thread, Cancel and Join leave the object in    *)
(* between two sections under its mutex: who may assign the thread, what a  *)
(* started prefetch has flagged, and what was noted of the last one.        *)
THEOREM AheadInvariant == Spec => []IInv
BY AheadInit, AheadStep, PTL DEF Spec

(* Its variables stay in their types: no run is asked for past the last     *)
(* channel, whatever the depth of an image's chunks.                        *)
THEOREM AheadTypes == Spec => []TypeOK
<1>1. IInv => TypeOK
  BY DEF IInv
<1> QED
  BY <1>1, AheadInvariant, PTL

(* One prefetch at a time, on a thread assigned over none, and nothing that *)
(* outlives the handle.                                                     *)
THEOREM AlwaysOneThread == Spec => []OneThread
<1>1. IInv => OneThread
  BY DEF IInv
<1> QED
  BY <1>1, AheadInvariant, PTL

(* Once Cancel has returned no decode begins and no prefetch is decided on. *)
THEOREM NothingAfterCancel == Spec => CancelStartsNothingMore
<1>1. ASSUME IInv, [Next]_vars
      PROVE  /\ canceller = "done" => ~ (worker = "loop" /\ worker' = "decode")
             /\ canceller = "done" \/ stopped => prefetches' = prefetches
             /\ stopped => stopped'
  <2>1. canceller = "done" => cancelled /\ stopped
    BY <1>1 DEF IInv, Flagged
  <2>2. worker = "loop" /\ worker' = "decode" => ~ cancelled
    BY <1>1 DEF Next, ServedStep, ServedOnly, ServedStarts, ServedThrows, ServeStep, JoinLast,
       StartThread, StartFails, ServedFlags, ServedCancels, JoinThread, WorkerStep, LoopEnds, PrefetchBegins,
       CancelSeen, DecodeEnds, PrefetchEnds, ThreadEnds, Tick, FrameBegins, CancelFlag, CancelStops,
       LetGo, LetGoStep, LetGoStops, LetGoJoins, Terminated, vars, thread
  <2>3. prefetches' # prefetches => ~ stopped
    BY <1>1 DEF Next, ServedStep, ServedOnly, ServedStarts, ServedThrows, ServeStep, JoinLast,
       StartThread, StartFails, ServedFlags, ServedCancels, WorkerStep, LoopEnds, PrefetchBegins,
       MayStart, DecodeEnds, PrefetchEnds, ThreadEnds, Tick, FrameBegins, CancelFlag, CancelStops,
       LetGo, LetGoStep, LetGoStops, LetGoJoins, Terminated, vars, guarded
  <2>4. stopped => stopped'
    BY <1>1 DEF Next, ServedStep, ServedOnly, ServedStarts, ServedThrows, ServeStep, JoinLast,
       StartThread, StartFails, ServedFlags, ServedCancels, WorkerStep, LoopEnds, PrefetchBegins, Late,
       DecodeEnds, PrefetchEnds, ThreadEnds, Tick, FrameBegins, CancelFlag, CancelStops,
       LetGo, LetGoStep, LetGoStops, LetGoJoins, Terminated, vars, guarded
  <2> QED
    BY <2>1, <2>2, <2>3, <2>4
<1>2. IInv /\ [Next]_vars =>
         [/\ canceller = "done" => ~ (worker = "loop" /\ worker' = "decode")
          /\ canceller = "done" \/ stopped => prefetches' = prefetches
          /\ stopped => stopped']_vars
  BY <1>1
<1> QED
  BY <1>2, AheadInvariant, PTL DEF Spec, CancelStartsNothingMore

(* A late frame stops reading ahead just when a prefetch was under way as   *)
(* it began, though the code goes by three times noted at other moments.    *)
THEOREM LateBesideAPrefetchStops == Spec => LateFrameStops
<1> DEFINE Stops == FrameOver =>
             /\ frame.late /\ frame.beside /\ (under_way \/ finished > frame.began) => stopped'
             /\ stopped' /\ ~ stopped => frame.late /\ frame.beside
<1>1. ASSUME IInv, [Next]_vars, FrameOver PROVE Late
  <2>1. frame.pc = "playing" /\ frame'.pc # "playing" /\ frame \in Frame
    BY <1>1 DEF FrameOver, IInv, TypeOK
  <2> QED
    BY <1>1, <2>1 DEF Next, ServedStep, ServedOnly, ServedStarts, ServedThrows, ServeStep, JoinLast,
       StartThread, StartFails, ServedFlags, ServedCancels, WorkerStep, LoopEnds, PrefetchBegins, DecodeEnds,
       PrefetchEnds, ThreadEnds, Tick, FrameBegins, CancelFlag, CancelStops, LetGo, LetGoStep,
       LetGoStops, LetGoJoins, Terminated, vars
<1>2. ASSUME IInv, frame.pc = "playing"
      PROVE  Overlapped <=> frame.beside /\ (under_way \/ finished > frame.began)
  <2>1. /\ started \in Int /\ finished \in Int /\ frame.began \in Int
        /\ frame.beside \in BOOLEAN /\ under_way \in BOOLEAN
    BY <1>2, ReadAheadAssumption DEF IInv, TypeOK, Frame
  <2> QED
    BY <1>2, <2>1 DEF IInv, Remembered, Overlapped
<1>3. ASSUME IInv, [Next]_vars, FrameOver PROVE Stops
  BY <1>1, <1>2, <1>3 DEF FrameOver, Late, StopForLate
<1>4. IInv /\ [Next]_vars => [Stops]_vars
  BY <1>3
<1> QED
  BY <1>4, AheadInvariant, PTL DEF Spec, LateFrameStops
=============================================================================
