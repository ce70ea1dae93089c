----------------------------- MODULE ReadAhead -----------------------------
(***************************************************************************)
(* Reading ahead of a playing animation: src/src/read_ahead.cc and the     *)
(* facade in src/src/carta_zarr.cc.                                        *)
(*                                                                         *)
(* One thread serves frames and calls Served after each; another may call  *)
(* Cancel at any time; a prefetch runs on a thread Served starts.  The     *)
(* handle's last owner destroys it, which cancels and joins.               *)
(*                                                                         *)
(* A plane is its channel; the run it lies in is the chunk of Depth        *)
(* channels around it, which differs from image to image.  What a frame    *)
(* shows is a plane of each of some images, in any order of play.  Time is *)
(* a bounded count of ticks: two events may share one, as two readings of  *)
(* a steady clock may.                                                     *)
(***************************************************************************)
EXTENDS Integers, Sequences, FiniteSets, FiniteSetsExt

CONSTANTS Images,      \* positions in the vector given to For
          Depth,       \* channels in a chunk, by image
          Channels,    \* bound: channels of the animation
          Upcoming,    \* kUpcomingFrames
          Shown,       \* what a frame may show
          Ahead,       \* the frames after it, as many as the caller says
          MaxClock,    \* bound: ticks
          MaxFrames    \* bound: frames served

ASSUME ReadAheadAssumption ==
    /\ Images # {} /\ IsFiniteSet(Images) /\ Images \subseteq Nat
    /\ Depth \in [Images -> Nat \ {0}]
    /\ {Channels, Upcoming, MaxClock, MaxFrames} \subseteq Nat

Channel == 0 .. Channels - 1
NoPlane == -1

ASSUME FramesAssumption ==
    /\ Shown \subseteq [Images -> Channel \cup {NoPlane}]
    /\ Ahead \subseteq Seq([Images -> Channel \cup {NoPlane}])

(* RunOf, along the spectrum. *)
RunOf(image, channel) == channel \div Depth[image]
NoRun == -1

VARIABLES
    now,            \* Clock::now()
    frame,          \* the serving thread: what it does, and the frame's facts
    canceller,      \* a thread calling Cancel: "idle", "lock" or "done"
    owner,          \* the handle: "held", "cancelling", "joining", "gone"
    cancelled,      \* _cancelled, an atomic outside the mutex
    \* guarded by _mutex
    under_way, started, finished, prefetching, counted_catch, requested,
    prefetches, caught_up, stopped,
    \* the prefetch thread
    worker,         \* "none", "loop", "decode", "end" or "returned"
    work,           \* images still to decode, in order of Served's list
    \* what happened, for the properties
    decoded         \* images whose requested run was decoded

guarded == <<under_way, started, finished, prefetching, counted_catch,
             requested, prefetches, caught_up, stopped>>
thread == <<worker, work>>
vars == <<now, frame, canceller, owner, cancelled, under_way, started, finished,
          prefetching, counted_catch, requested, prefetches, caught_up, stopped,
          worker, work, decoded>>

(* pc: "between" frames, "playing" one, then in Served: "join" and "start",  *)
(* or, when Served threw, "threw" and "cancel" in the facade's handler.     *)
Frame == [pc : {"between", "playing", "join", "start", "threw", "cancel"}, count : Nat,
          began : Nat, late : BOOLEAN, beside : BOOLEAN]
After(pc) == [frame EXCEPT !.pc = pc, !.began = 0, !.late = FALSE, !.beside = FALSE]

Tick ==
    /\ now < MaxClock
    /\ now' = now + 1
    /\ UNCHANGED <<frame, canceller, owner, cancelled, guarded, thread, decoded>>

-----------------------------------------------------------------------------
(* The serving thread. *)

(* A frame begins.  Whether it will be late is its caller's to say; beside  *)
(* remembers whether a prefetch was under way.                              *)
FrameBegins(late) ==
    /\ owner = "held" /\ frame.pc = "between" /\ frame.count < MaxFrames
    /\ frame' = [frame EXCEPT !.pc = "playing", !.count = @ + 1, !.began = now,
                              !.late = late, !.beside = under_way]
    /\ UNCHANGED <<now, canceller, owner, cancelled, guarded, thread, decoded>>

(* Faults, for checking that the properties notice them. *)
OverlappedWhileUnderWay == under_way

(* Whether the frame shared the machine with a prefetch, from the times.    *)
Overlapped ==
    /\ \E i \in Images : prefetching[i] # NoRun
    /\ started <= frame.began
    /\ under_way \/ finished > frame.began

(* Images a frame shows whose run the prefetch is decoding.                 *)
Planes(shown) == {i \in Images : shown[i] # NoPlane}
Catching(shown) ==
    {i \in Planes(shown) : prefetching[i] # NoRun /\ RunOf(i, shown[i]) = prefetching[i]}

(* The first run of an image, among the frames looked at that show it, that *)
(* is not the one it is in, or NoRun.                                       *)
NextRun(i, shown, upcoming) ==
    LET ahead == {k \in 1 .. Upcoming :
                    /\ k <= Len(upcoming)
                    /\ i \in Planes(upcoming[k])
                    /\ RunOf(i, upcoming[k][i]) # RunOf(i, shown[i])}
    IN  IF ahead = {} THEN NoRun ELSE RunOf(i, upcoming[Min(ahead)][i])

(* The images Served would start a prefetch for. *)
Wanted(shown, upcoming) ==
    {i \in Planes(shown) : NextRun(i, shown, upcoming) \notin {NoRun, requested[i]}}

(* More faults, for checking that the properties notice them. *)
MayStartIgnoringUnderWay == ~ stopped /\ ~ cancelled
CancelSeenByNobody == FALSE
LetGoUncancelled == UNCHANGED cancelled

StopForLate == frame.late /\ Overlapped
MayStart == ~ (stopped \/ StopForLate) /\ ~ cancelled /\ ~ under_way

(* A frame that reached a run still being decoded is counted, once a        *)
(* prefetch.                                                                *)
CaughtNow(shown) == IF Overlapped THEN Catching(shown) ELSE {}
CountCatch == caught_up' = IF counted_catch THEN caught_up ELSE caught_up + 1
Catch(shown) ==
    IF CaughtNow(shown) = {} THEN UNCHANGED caught_up ELSE CountCatch

Late == stopped' = (stopped \/ StopForLate)

(* Served with no prefetch to start: late beside a prefetch stops reading   *)
(* ahead.                                                                   *)
ServedOnly(shown, upcoming) ==
    /\ frame.pc = "playing"
    /\ ~ MayStart \/ Wanted(shown, upcoming) = {}
    /\ Late
    /\ Catch(shown)
    /\ counted_catch' = (counted_catch \/ CaughtNow(shown) # {})
    /\ frame' = After("between")
    /\ UNCHANGED <<now, canceller, owner, cancelled, under_way, started, finished,
                   prefetching, requested, prefetches, thread, decoded>>

(* Served with nothing under way, asking for the next runs.                 *)
ServedStarts(shown, upcoming) ==
    LET wanted == Wanted(shown, upcoming) IN
    /\ frame.pc = "playing"
    /\ MayStart /\ wanted # {}
    /\ Late
    /\ Catch(shown)
    /\ decoded' = decoded \ wanted
    /\ under_way' = TRUE
    /\ started' = now
    /\ prefetching' = [i \in Images |-> IF i \in wanted THEN NextRun(i, shown, upcoming) ELSE NoRun]
    /\ requested' = [i \in Images |-> IF i \in wanted THEN NextRun(i, shown, upcoming) ELSE requested[i]]
    /\ counted_catch' = FALSE
    /\ prefetches' = prefetches + Cardinality(wanted)
    /\ work' = wanted
    /\ frame' = After("join")
    /\ UNCHANGED <<now, canceller, owner, cancelled, finished, worker>>

Served(shown, upcoming) ==
    ServedOnly(shown, upcoming) \/ ServedStarts(shown, upcoming)

(* An exception under the lock, which only finding out runs and listing     *)
(* them can throw: some may be down as requested already, and none was      *)
(* started.  The facade catches it, and then cancels.                       *)
ServedThrows(shown, upcoming) ==
    /\ frame.pc = "playing"
    /\ Late
    /\ \/ UNCHANGED <<counted_catch, requested, decoded, caught_up>>
       \/ /\ MayStart
          /\ Catch(shown)
          /\ counted_catch' = (counted_catch \/ CaughtNow(shown) # {})
          /\ \E down \in SUBSET Wanted(shown, upcoming) :
               /\ requested' = [i \in Images |-> IF i \in down THEN NextRun(i, shown, upcoming)
                                                 ELSE requested[i]]
               /\ decoded' = decoded \ down
    /\ frame' = After("threw")
    /\ UNCHANGED <<now, canceller, owner, cancelled, under_way, started, finished, prefetching,
                   prefetches, thread>>

ServedFlags ==
    /\ frame.pc = "threw"
    /\ cancelled' = TRUE
    /\ frame' = After("cancel")
    /\ UNCHANGED <<now, canceller, owner, guarded, thread, decoded>>

ServedCancels ==
    /\ frame.pc = "cancel"
    /\ stopped' = TRUE
    /\ frame' = After("between")
    /\ UNCHANGED <<now, canceller, owner, cancelled, under_way, started, finished, prefetching,
                   counted_catch, requested, prefetches, caught_up, thread, decoded>>

(* The previous prefetch is not under way, but its thread may not have      *)
(* returned; assigning over a thread that is joinable ends the process.     *)
JoinThread == worker \in {"none", "returned"} /\ worker' = "none"

JoinLast ==
    /\ frame.pc = "join"
    /\ JoinThread
    /\ frame' = [frame EXCEPT !.pc = "start"]
    /\ UNCHANGED <<now, canceller, owner, cancelled, guarded, work, decoded>>

StartThread ==
    /\ frame.pc = "start"
    /\ worker' = "loop"
    /\ frame' = After("between")
    /\ UNCHANGED <<now, canceller, owner, cancelled, guarded, work, decoded>>

(* No thread, or no memory for one. *)
ClearUnderWay == under_way' = FALSE

StartFails ==
    /\ frame.pc = "start"
    /\ ClearUnderWay
    /\ finished' = now
    /\ stopped' = TRUE
    /\ work' = {}
    /\ frame' = After("between")
    /\ UNCHANGED <<now, canceller, owner, cancelled, started, prefetching, counted_catch,
                   requested, prefetches, caught_up, worker, decoded>>

-----------------------------------------------------------------------------
(* The prefetch thread. *)

CancelSeen == cancelled

LoopEnds ==
    /\ worker = "loop"
    /\ work = {} \/ CancelSeen
    /\ worker' = "end"
    /\ work' = {}
    /\ UNCHANGED <<now, frame, canceller, owner, cancelled, guarded, decoded>>

PrefetchBegins ==
    /\ worker = "loop"
    /\ work # {} /\ ~ CancelSeen
    /\ worker' = "decode"
    /\ UNCHANGED <<now, frame, canceller, owner, cancelled, guarded, work, decoded>>

(* RunSource::Prefetch of the first image left: it finished, or it failed   *)
(* or saw a cancellation and says so, which nobody looks at.                *)
PrefetchEnds ==
    /\ worker = "decode"
    /\ worker' = "loop"
    /\ LET i == Min(work) IN
       /\ work' = work \ {i}
       /\ \/ decoded' = decoded \cup {i}
          \/ UNCHANGED decoded
    /\ UNCHANGED <<now, frame, canceller, owner, cancelled, guarded>>

(* The last section of the thread, after its loop or after a throw. *)
ThreadEnds(threw) ==
    /\ \/ worker = "end" /\ ~ threw /\ UNCHANGED stopped
       \/ worker = "decode" /\ threw /\ stopped' = TRUE
    /\ worker' = "returned"
    /\ work' = {}
    /\ under_way' = FALSE
    /\ finished' = now
    /\ UNCHANGED <<now, frame, canceller, owner, cancelled, started, prefetching,
                   counted_catch, requested, prefetches, caught_up, decoded>>

-----------------------------------------------------------------------------
(* Cancel from another thread: the flag first, so that a prefetch sees it   *)
(* while the lock is still to be had, then stopped.                         *)
CancelFlag ==
    /\ owner = "held" /\ canceller = "idle"
    /\ canceller' = "lock"
    /\ cancelled' = TRUE
    /\ UNCHANGED <<now, frame, owner, guarded, thread, decoded>>

CancelStops ==
    /\ canceller = "lock"
    /\ canceller' = "done"
    /\ stopped' = TRUE
    /\ UNCHANGED <<now, frame, owner, cancelled, under_way, started, finished, prefetching,
                   counted_catch, requested, prefetches, caught_up, thread, decoded>>

LetGoCancels == cancelled' = TRUE

(* ~ReadingAhead, in the last owner's thread: nobody else holds the handle. *)
LetGo ==
    /\ owner = "held" /\ frame.pc = "between" /\ canceller # "lock"
    /\ owner' = "cancelling"
    /\ LetGoCancels
    /\ UNCHANGED <<now, frame, canceller, guarded, thread, decoded>>

LetGoStops ==
    /\ owner = "cancelling"
    /\ owner' = "joining"
    /\ stopped' = TRUE
    /\ UNCHANGED <<now, frame, canceller, cancelled, under_way, started, finished, prefetching,
                   counted_catch, requested, prefetches, caught_up, thread, decoded>>

LetGoJoins ==
    /\ owner = "joining"
    /\ JoinThread
    /\ owner' = "gone"
    /\ UNCHANGED <<now, frame, canceller, cancelled, guarded, work, decoded>>

-----------------------------------------------------------------------------
Init ==
    /\ now = 0
    /\ frame = [pc |-> "between", count |-> 0, began |-> 0, late |-> FALSE, beside |-> FALSE]
    /\ canceller = "idle" /\ owner = "held" /\ cancelled = FALSE
    /\ under_way = FALSE /\ started = 0 /\ finished = 0
    /\ prefetching = [i \in Images |-> NoRun]
    /\ counted_catch = FALSE
    /\ requested = [i \in Images |-> NoRun]
    /\ prefetches = 0 /\ caught_up = 0 /\ stopped = FALSE
    /\ worker = "none" /\ work = {}
    /\ decoded = {}

ServeStep == JoinLast \/ StartThread \/ StartFails \/ ServedFlags \/ ServedCancels
DecodeEnds == PrefetchEnds \/ ThreadEnds(TRUE)
WorkerStep == LoopEnds \/ PrefetchBegins \/ ThreadEnds(FALSE)
LetGoStep == LetGoStops \/ LetGoJoins

ServedStep ==
    \E shown \in Shown, upcoming \in Ahead :
        ServedOnly(shown, upcoming) \/ ServedStarts(shown, upcoming)
            \/ ServedThrows(shown, upcoming)

Terminated == owner = "gone" /\ UNCHANGED vars

Next ==
    \/ Tick \/ (\E late \in BOOLEAN : FrameBegins(late)) \/ ServedStep \/ ServeStep
    \/ WorkerStep \/ DecodeEnds
    \/ CancelFlag \/ CancelStops
    \/ LetGo \/ LetGoStep
    \/ Terminated

Spec == Init /\ [][Next]_vars

(* A thread that can go on does.  A decode may take as long as the storage  *)
(* likes; told to stop, it ends.                                            *)
Fairness ==
    /\ WF_vars(ServeStep) /\ WF_vars(WorkerStep)
    /\ WF_vars(cancelled /\ DecodeEnds)
    /\ WF_vars(LetGoStep)

FairSpec == Spec /\ Fairness

-----------------------------------------------------------------------------
TypeOK ==
    /\ now \in 0 .. MaxClock
    /\ frame \in Frame
    /\ canceller \in {"idle", "lock", "done"}
    /\ owner \in {"held", "cancelling", "joining", "gone"}
    /\ {cancelled, under_way, counted_catch, stopped} \subseteq BOOLEAN
    /\ started \in 0 .. now /\ finished \in 0 .. now
    /\ prefetching \in [Images -> Channel \cup {NoRun}]
    /\ requested \in [Images -> Channel \cup {NoRun}]
    /\ prefetches \in Nat /\ caught_up \in Nat
    /\ worker \in {"none", "loop", "decode", "end", "returned"}
    /\ work \in SUBSET Images
    /\ decoded \in SUBSET Images

(* "One prefetch is under way at a time": the thread a prefetch starts on   *)
(* is never assigned over one that is still there, which would end the      *)
(* process, and none is at work that stats does not call under way.         *)
(* "Nothing it starts outlives it": once the handle is gone no thread of it *)
(* is running, nor one left to be joined.                                   *)
OneThread ==
    /\ frame.pc = "start" => worker = "none"
    /\ worker \in {"loop", "decode", "end"} => under_way
    /\ under_way => frame.pc \in {"join", "start"} \/ worker \in {"loop", "decode", "end"}
    /\ owner = "gone" => worker = "none" /\ ~ under_way

(* Cancel "starts nothing more": once it has returned no decode begins and  *)
(* no prefetch is decided on, not even by a Served, or on a thread, that    *)
(* was on its way when it was called.  Nor is one decided on, whatever is   *)
(* served after, once reading ahead has stopped.                            *)
CancelStartsNothingMore ==
    [][/\ canceller = "done" => ~ (worker = "loop" /\ worker' = "decode")
       /\ canceller = "done" \/ stopped => prefetches' = prefetches
       /\ stopped => stopped']_vars

(* A frame is over: a step out of Served, or out of it by a throw.          *)
FrameOver == frame.pc = "playing" /\ frame'.pc # "playing"

(* "A late frame that began while a prefetch was under way stops all        *)
(* reading ahead", though what the code goes by is three times it noted:    *)
(* beside such a frame the next step out of Served finds it stopped.  The   *)
(* clock cannot tell a prefetch that ended in the tick the frame began in.  *)
(* And only such a frame does: one that was in time, or began with nothing  *)
(* under way, is no reason to stop.                                         *)
LateFrameStops ==
    [][FrameOver =>
         /\ frame.late /\ frame.beside /\ (under_way \/ finished > frame.began) => stopped'
         /\ stopped' /\ ~ stopped => frame.late /\ frame.beside]_vars

(* "The last of them to go cancels the prefetch under way and waits for     *)
(* it": the wait is not for the storage, whether the prefetch stopped,      *)
(* failed or threw, or its thread never came to be; and Cancel "stops the   *)
(* prefetch under way" just so.                                             *)
LetGoEnds ==
    /\ owner = "cancelling" ~> owner = "gone"
    /\ under_way /\ cancelled ~> ~ under_way

(* "... unless that run has been decoded ahead already": a run Served       *)
(* passes over, free to start, has been decoded.                            *)
PassedOverWasDecoded ==
    [][\A shown \in Shown, upcoming \in Ahead :
         Served(shown, upcoming) /\ MayStart =>
           \A i \in Planes(shown) :
             \/ NextRun(i, shown, upcoming) = NoRun
             \/ NextRun(i, shown, upcoming) = requested[i] /\ i \in decoded
             \/ prefetching'[i] = NextRun(i, shown, upcoming)]_vars
=============================================================================
