---------------------------- MODULE SegmentStore ----------------------------
(***************************************************************************)
(* The ring buffer of the recorder: encoded samples in segments, of which  *)
(* the old ones are evicted, and the choice of the samples a saved replay  *)
(* holds (recorder/src/replay/SegmentStore.cpp).  Every operation holds    *)
(* mutex_, so each is one action.  A segment is its first_pts and the set  *)
(* of its samples (their times tell their order); every sample lasts one   *)
(* unit of time.                                                           *)
(***************************************************************************)
EXTENDS Integers, Sequences, FiniteSets, FiniteSetsExt

CONSTANTS
  Retention,     \* retention_hns_, which is also what a save asks for
  SegmentLength, \* segment_hns_
  MaxPts,        \* bound: the last presentation time
  MaxCuts        \* bound: the saves since the store was cleared

ASSUME StoreAssumption ==
  Retention \in Nat \ {0} /\ SegmentLength \in Nat \ {0} /\ MaxPts \in Nat /\ MaxCuts \in Nat

VARIABLES
  sealed,   \* sealed_: the closed segments, oldest first
  active,   \* active_: the segment being written, empty when there is none
  recorded, \* history: every sample appended since the store was cleared
  cuts      \* history: the times at which a snapshot closed the active segment

storeVars == <<sealed, active, recorded, cuts>>

Pts == 0..MaxPts
Sample == [kind: {"key", "delta", "audio"}, pts: Pts]
Segment == [first: Pts, samples: SUBSET Sample]
NoSegment == [first |-> 0, samples |-> {}]

LastPts(segment) == Max({s.pts + 1 : s \in segment.samples})

\* A new store is empty: initialize() removes the segments an earlier run left on disk.
StoreInit == sealed = <<>> /\ active = NoSegment /\ recorded = {} /\ cuts = {}

-----------------------------------------------------------------------------
(* append, snapshot, clear *)

\* Variant: a segment may begin at any frame.
StartsSegmentAnywhere(sample) ==
  /\ active # NoSegment /\ sample.kind # "audio"
  /\ sample.pts - active.first >= SegmentLength

\* Variant: the length is measured from the end of the segment.
StartsSegmentFromEnd(sample) ==
  /\ active # NoSegment /\ sample.kind = "key"
  /\ sample.pts - LastPts(active) >= SegmentLength

\* A keyframe closes a segment that is long enough and begins the next one.
StartsSegment(sample) ==
  /\ active # NoSegment /\ sample.kind = "key"
  /\ sample.pts - active.first >= SegmentLength

\* Variant: a segment goes as soon as it begins before the retention.
EvictByFirst(segments, newest) ==
  LET recent == {i \in DOMAIN segments : segments[i].first >= newest - Retention}
  IN IF recent = {} THEN <<>> ELSE SubSeq(segments, Min(recent), Len(segments))

\* The segments from the first on that ends within the retention.
Evict(segments, newest) ==
  LET recent == {i \in DOMAIN segments : LastPts(segments[i]) >= newest - Retention}
  IN IF recent = {} THEN <<>> ELSE SubSeq(segments, Min(recent), Len(segments))

StoreAppend(sample) ==
  /\ active' = IF active = NoSegment \/ StartsSegment(sample)
               THEN [first |-> sample.pts, samples |-> {sample}]
               ELSE [active EXCEPT !.samples = @ \cup {sample}]
  /\ sealed' = Evict(IF StartsSegment(sample) THEN Append(sealed, active) ELSE sealed,
                     LastPts(active'))
  /\ recorded' = recorded \cup {sample}
  /\ UNCHANGED cuts

\* A save closes the active segment wherever it is, and takes all closed ones.
StoreSnapshot ==
  /\ active # NoSegment /\ Cardinality(cuts) < MaxCuts
  /\ sealed' = Append(sealed, active)
  /\ active' = NoSegment
  /\ cuts' = cuts \cup {LastPts(active)}
  /\ UNCHANGED recorded

Clear ==
  /\ sealed' = <<>> /\ active' = NoSegment
  /\ recorded' = {} /\ cuts' = {}

-----------------------------------------------------------------------------
(* select_replay_samples: the samples of a snapshot, as a set.  The source   *)
(* orders them by time and shifts them to begin at 0.                        *)

\* What read() gives back of all segments, wherever they are kept.
Stored == (UNION {sealed[i].samples : i \in DOMAIN sealed}) \cup active.samples

Newest(samples) == Max({s.pts : s \in samples})
Desired(samples) == Newest(samples) - Retention

\* Variant: the replay begins at the first keyframe within the desired time.
StartWithin(samples) ==
  LET keys == {s.pts : s \in {x \in samples : x.kind = "key"}}
      after == {p \in keys : p >= Desired(samples)}
  IN IF after # {} THEN Min(after) ELSE Max(keys)

\* The last keyframe not after the desired start, else the first one.
Start(samples) ==
  LET keys == {s.pts : s \in {x \in samples : x.kind = "key"}}
      before == {p \in keys : p <= Desired(samples)}
  IN IF before # {} THEN Max(before) ELSE Min(keys)

SelectReplaySamples(samples) ==
  IF \E s \in samples : s.kind = "key"
  THEN {s \in samples : s.pts >= Start(samples)}
  ELSE {}

-----------------------------------------------------------------------------
(* What is appended: the samples of each track in order (encoder_loop makes  *)
(* the times of frames grow), with any gaps and any keyframes; one track may *)
(* be a unit behind the other.  Times count from the first sample.           *)

TimesOf(kinds) == {s.pts : s \in {x \in recorded : x.kind \in kinds}}

Appendable(sample) ==
  LET track == IF sample.kind = "audio" THEN {"audio"} ELSE {"key", "delta"}
  IN /\ \A p \in TimesOf(track) : p < sample.pts
     /\ IF recorded = {} THEN sample.pts = 1 ELSE sample.pts >= Newest(recorded) - 1

StoreNext ==
  \/ \E sample \in Sample : Appendable(sample) /\ StoreAppend(sample)
  \/ StoreSnapshot
  \/ Clear

StoreSpec == StoreInit /\ [][StoreNext]_storeVars

-----------------------------------------------------------------------------
(* Properties *)

\* The store is well formed, and holds nothing from before it was cleared.
TypeOK ==
  /\ sealed \in Seq(Segment)
  /\ active \in Segment
  /\ recorded \subseteq Sample
  /\ cuts \subseteq 0..(MaxPts + 1)
  /\ Stored \subseteq recorded

\* The longest time without a keyframe, up to the newest sample.
KeyframeGap ==
  LET times == TimesOf({"key"}) \cup {Min({s.pts : s \in recorded}), Newest(recorded) + 1}
  IN Max({q - Max({p \in times : p < q} \cup {Min(times)}) : q \in times})

\* A replay saved now holds every frame of the desired time that it can: each one that
\* was recorded after some keyframe, without an earlier save having closed the segment
\* between the two (SegmentStore.cpp:58-84, 88, 106-121).
WindowKept ==
  \A s \in recorded :
    /\ s.kind # "audio" /\ s.pts >= Desired(recorded)
    /\ \E k \in recorded : /\ k.kind = "key" /\ k.pts <= s.pts
                           /\ \A c \in cuts : ~(k.pts < c /\ c <= s.pts)
    => s \in SelectReplaySamples(Stored)

\* The buffer does not grow: what it holds spans no more than the retention, a segment
\* and the longest time without a keyframe (and the unit a track may lag), however
\* often saves close segments: ReplayTests.cpp:12 says that it "evicts data older than
\* 600 seconds", which without keyframes, as when the game is minimised, it does not (SegmentStore.cpp:62, 83).
SpanBounded ==
  Stored # {} =>
    Newest(Stored) - Min({s.pts : s \in Stored}) <= Retention + SegmentLength + KeyframeGap + 1
=============================================================================
