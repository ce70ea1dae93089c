-------------------------- MODULE StoreWalkProofs ---------------------------
(* Proofs about StoreWalk, for every filesystem, timeout and clock: no walk *)
(* comes through a link twice on one way; a listing has every node by every *)
(* way there is through links that can be resolved; a size that is measured *)
(* is all there is by those ways; and no measuring is cut before its time.  *)
EXTENDS StoreWalk, ChunkBlocksProofs, FiniteSetTheorems, TLAPS

-----------------------------------------------------------------------------
(* The iterator goes on in a directory it is inside, or is at its end.      *)
Dirs == DOMAIN tree.dirs
Entries == UNION {Dir(d).entries : d \in Dirs}
Frames == [dir : Dirs, name : Seq(STRING), left : SUBSET Entries]
InOwn(frames) == \A k \in 1 .. Len(frames) : frames[k].left \subseteq Dir(frames[k].dir).entries

LEMMA IncrementedCuts ==
    ASSUME NEW frames \in Seq(Frames)
    PROVE  \E n \in 0 .. Len(frames) :
             Incremented(frames) = SubSeq(frames, 1, n) /\ \A k \in n + 1 .. Len(frames) : frames[k].left = {}
<1>0. Len(frames) \in Nat /\ DOMAIN frames = 1 .. Len(frames)
  OBVIOUS
<1>1. CASE Left(frames) = {}
  <2>1. 0 \in 0 .. Len(frames) /\ Incremented(frames) = SubSeq(frames, 1, 0)
    BY <1>0, <1>1 DEF Incremented
  <2>2. \A k \in 0 + 1 .. Len(frames) : frames[k].left = {}
    BY <1>0, <1>1 DEF Left
  <2> QED
    BY <2>1, <2>2
<1>2. CASE Left(frames) # {}
  <2>1. Left(frames) \subseteq 1 .. Len(frames)
    BY <1>0 DEF Left
  <2>2. PICK x \in Left(frames) : \A y \in Left(frames) : y <= x
    <3>1. Left(frames) \subseteq Nat /\ \A y \in Left(frames) : y <= Len(frames)
      BY <1>0, <2>1
    <3> QED
      BY <1>0, <1>2, <3>1, LargestExists
  <2>3. \E z \in Left(frames) : \A y \in Left(frames) : z >= y
    BY <2>2
  <2>4. PICK n : n = Max(Left(frames))
    OBVIOUS
  <2>5. n \in Left(frames) /\ \A y \in Left(frames) : n >= y
    BY <2>3, <2>4 DEF Max
  <2>6. n \in 0 .. Len(frames) /\ Incremented(frames) = SubSeq(frames, 1, n)
    BY <1>0, <1>2, <2>1, <2>4, <2>5 DEF Incremented
  <2>7. ASSUME NEW k \in n + 1 .. Len(frames), frames[k].left # {}
        PROVE  FALSE
    <3>1. k \in 1 .. Len(frames) /\ ~ (n >= k)
      BY <1>0, <2>6
    <3>2. k \in Left(frames)
      BY <1>0, <2>7, <3>1 DEF Left
    <3> QED
      BY <2>5, <3>1, <3>2
  <2> QED
    BY <2>6, <2>7
<1> QED
  BY <1>1, <1>2

LEMMA IncrementedIs ==
    ASSUME NEW frames \in Seq(Frames), InOwn(frames)
    PROVE  /\ Incremented(frames) \in Seq(Frames) /\ Len(Incremented(frames)) <= Len(frames)
           /\ InOwn(Incremented(frames))
<1>0. Len(frames) \in Nat
  OBVIOUS
<1>1. PICK n \in 0 .. Len(frames) : Incremented(frames) = SubSeq(frames, 1, n)
  BY IncrementedCuts
<1>2. /\ SubSeq(frames, 1, n) \in Seq(Frames) /\ Len(SubSeq(frames, 1, n)) = n
      /\ \A k \in 1 .. n : SubSeq(frames, 1, n)[k] = frames[k]
  BY <1>0
<1>3. n \in Nat /\ n <= Len(frames) /\ \A k \in 1 .. n : k \in 1 .. Len(frames)
  BY <1>0
<1>4. InOwn(SubSeq(frames, 1, n))
  BY <1>2, <1>3 DEF InOwn
<1> QED
  BY <1>1, <1>2, <1>3, <1>4

-----------------------------------------------------------------------------
(* The walk.  A link is known by its directory and its name; every one the  *)
(* walk came through leads to the ancestor after it, which is why it cannot *)
(* be come through again.                                                   *)
LeadsTo(l, d) ==
    \E s \in Dirs : \E e \in Dir(s).entries : l = <<s, e.name>> /\ e.to = d
WalkTypes ==
    /\ tree \in Trees
    /\ stack \in Seq(Frames) /\ InOwn(stack)
    /\ ancestors \in Seq(Dirs) /\ links \in Seq((Dirs \X STRING) \cup {None})
    /\ Len(stack) <= Len(ancestors) /\ Len(stack) <= Len(links) + 1
Followed ==
    \A j \in 1 .. Len(links) : j < Len(ancestors) /\ links[j] # None => LeadsTo(links[j], ancestors[j + 1])
WalkInv == WalkTypes /\ Followed /\ NoLinkTwice

LEMMA TreeFacts ==
    ASSUME tree \in Trees
    PROVE  /\ tree.root \in Dirs
           /\ \A d \in Dirs : \A e \in Dir(d).entries : e.name \in STRING /\ e.to \in Dirs
           /\ \A d \in Dirs : \A e \in Dir(d).entries : e.kind \in {"dir", "link", "unresolved", "file", "dangling", "other"}
           /\ \A d \in Dirs : Dir(d).entries \subseteq Entries
           /\ \A d \in Dirs : \A e, f \in Dir(d).entries : e.name = f.name => e = f
BY TreesAssumption DEF Dirs, Dir, Entries

(* Two links of one name in one directory are one link.                     *)
LEMMA OneTarget ==
    ASSUME tree \in Trees, NEW l, NEW c, NEW d, LeadsTo(l, c), LeadsTo(l, d)
    PROVE  c = d
<1>1. PICK s \in Dirs : \E e \in Dir(s).entries : l = <<s, e.name>> /\ e.to = c
  BY DEF LeadsTo
<1>2. PICK e \in Dir(s).entries : l = <<s, e.name>> /\ e.to = c
  BY <1>1
<1>3. PICK t \in Dirs : \E f \in Dir(t).entries : l = <<t, f.name>> /\ f.to = d
  BY DEF LeadsTo
<1>4. PICK f \in Dir(t).entries : l = <<t, f.name>> /\ f.to = d
  BY <1>3
<1>5. s = t /\ e.name = f.name
  BY <1>2, <1>4
<1>6. e = f
  BY <1>5, TreeFacts
<1> QED
  BY <1>2, <1>4, <1>6

LEMMA NoWalk ==
    ASSUME tree' \in Trees, stack' = <<>>, ancestors' = <<>>, links' = <<>>
    PROVE  WalkInv'
<1>1. /\ stack' \in Seq(Frames') /\ ancestors' \in Seq(Dirs') /\ links' \in Seq((Dirs' \X STRING) \cup {None})
      /\ Len(stack') = 0 /\ Len(ancestors') = 0 /\ Len(links') = 0 /\ DOMAIN links' = 1 .. 0
  OBVIOUS
<1>2. WalkTypes'
  BY <1>1 DEF WalkTypes, InOwn
<1>3. Followed' /\ NoLinkTwice'
  BY <1>1 DEF Followed, NoLinkTwice
<1> QED
  BY <1>2, <1>3 DEF WalkInv

LEMMA WalkBegins ==
    ASSUME tree \in Trees, tree' = tree, BeginWalk(tree.root)
    PROVE  WalkInv'
<1>1. PICK frame : frame = Inside(tree.root, <<>>)
  OBVIOUS
<1>2. frame \in Frames /\ frame.left \subseteq Dir(frame.dir).entries
  <2>1. tree.root \in Dirs /\ Dir(tree.root).entries \in SUBSET Entries
    BY TreeFacts
  <2>2. <<>> \in Seq(STRING)
    OBVIOUS
  <2> QED
    BY <1>1, <2>1, <2>2 DEF Inside, Frames
<1>3. <<frame>> \in Seq(Frames) /\ Len(<<frame>>) = 1 /\ InOwn(<<frame>>)
  BY <1>2 DEF InOwn
<1>4. stack' \in Seq(Frames) /\ Len(stack') <= 1 /\ InOwn(stack')
  BY <1>1, <1>3, IncrementedIs DEF BeginWalk
<1>5. ancestors' = <<tree.root>> /\ links' = <<>>
  BY DEF BeginWalk
<1>6. /\ ancestors' \in Seq(Dirs) /\ Len(ancestors') = 1 /\ links' \in Seq((Dirs \X STRING) \cup {None})
      /\ Len(links') = 0 /\ DOMAIN links' = 1 .. 0
  BY <1>5, TreeFacts
<1>7. Frames' = Frames /\ Dirs' = Dirs /\ InOwn(stack)' = InOwn(stack')
  BY DEF Frames, Dirs, Entries, Dir, InOwn
<1>8. WalkTypes'
  BY <1>4, <1>6, <1>7 DEF WalkTypes
<1>9. Followed' /\ NoLinkTwice'
  BY <1>6 DEF Followed, NoLinkTwice
<1> QED
  BY <1>8, <1>9 DEF WalkInv

-----------------------------------------------------------------------------
(* An entry of the directory the iterator is in.  Entered through a link,   *)
(* it is none of the ancestors: a link come through before led to one.      *)
LastFrame == stack[Len(stack)]
LinkOf(e) == IF e.kind = "link" THEN <<Last(stack).dir, e.name>> ELSE None

LEMMA AtEntry ==
    ASSUME WalkInv, NEW e \in Here
    PROVE  /\ Len(stack) \in Nat \ {0} /\ Depth \in Nat /\ Depth + 1 = Len(stack) /\ Last(stack) = LastFrame
           /\ LastFrame \in Frames /\ LastFrame.dir \in Dirs /\ e \in Dir(LastFrame.dir).entries
           /\ e.name \in STRING /\ e.to \in Dirs
           /\ Len(ancestors) \in Nat /\ Depth + 1 <= Len(ancestors) /\ Len(links) \in Nat /\ Depth <= Len(links)
<1>1. stack # <<>> /\ e \in Last(stack).left
  BY DEF Here
<1>2. stack \in Seq(Frames) /\ InOwn(stack) /\ tree \in Trees
  BY DEF WalkInv, WalkTypes
<1>3. Len(stack) \in Nat \ {0}
  BY <1>1, <1>2
<1>4. Depth \in Nat /\ Depth + 1 = Len(stack)
  BY <1>3 DEF Depth
<1>5. Last(stack) = LastFrame
  BY DEF Last, LastFrame
<1>6. Len(stack) \in 1 .. Len(stack)
  BY <1>3
<1>7. LastFrame \in Frames /\ LastFrame.left \subseteq Dir(LastFrame.dir).entries
  BY <1>2, <1>6 DEF LastFrame, InOwn
<1>8. LastFrame.dir \in Dirs
  BY <1>7 DEF Frames
<1>9. e \in Dir(LastFrame.dir).entries
  BY <1>1, <1>5, <1>7
<1>10. e.name \in STRING /\ e.to \in Dirs
  BY <1>2, <1>8, <1>9, TreeFacts
<1>11. Len(ancestors) \in Nat /\ Len(links) \in Nat
  BY DEF WalkInv, WalkTypes
<1>12. Depth + 1 <= Len(ancestors) /\ Depth <= Len(links)
  BY <1>3, <1>4, <1>11 DEF WalkInv, WalkTypes
<1> QED
  BY <1>3, <1>4, <1>5, <1>7, <1>8, <1>9, <1>10, <1>11, <1>12

(* What a walk keeps beside its stack. *)
TrailInv ==
    /\ ancestors \in Seq(Dirs) /\ links \in Seq((Dirs \X STRING) \cup {None})
    /\ Followed /\ NoLinkTwice

LEMMA Cut ==
    ASSUME NEW S, NEW seq \in Seq(S), NEW n \in Nat, n <= Len(seq)
    PROVE  /\ SubSeq(seq, 1, n) \in Seq(S) /\ Len(SubSeq(seq, 1, n)) = n
           /\ \A k \in 1 .. n : SubSeq(seq, 1, n)[k] = seq[k]
OBVIOUS

LEMMA Added ==
    ASSUME NEW S, NEW seq \in Seq(S), NEW x \in S
    PROVE  /\ Append(seq, x) \in Seq(S) /\ Len(Append(seq, x)) = Len(seq) + 1
           /\ \A k \in 1 .. Len(seq) : Append(seq, x)[k] = seq[k]
           /\ Append(seq, x)[Len(seq) + 1] = x
OBVIOUS

LEMMA TrailEntered ==
    ASSUME WalkInv, tree' = tree, NEW e \in Here, EnteredFrom(e), Enter(e)
    PROVE  TrailInv' /\ Len(ancestors') = Depth + 2 /\ Len(links') = Depth + 1
<1> DEFINE L == (Dirs \X STRING) \cup {None}
           cut == SubSeq(links, 1, Depth)
<1>1. /\ Len(stack) \in Nat \ {0} /\ Depth \in Nat /\ Depth + 1 = Len(stack) /\ Last(stack) = LastFrame
      /\ LastFrame \in Frames /\ LastFrame.dir \in Dirs /\ e \in Dir(LastFrame.dir).entries
      /\ e.name \in STRING /\ e.to \in Dirs
      /\ Len(ancestors) \in Nat /\ Depth + 1 <= Len(ancestors) /\ Len(links) \in Nat /\ Depth <= Len(links)
  BY AtEntry
<1>2. PICK d \in Nat : d = Depth
  BY <1>1
<1>3. tree \in Trees /\ ancestors \in Seq(Dirs) /\ links \in Seq(L) /\ Followed /\ NoLinkTwice
  BY DEF WalkInv, WalkTypes
<1>4. /\ Ancestors \in Seq(Dirs) /\ Len(Ancestors) = d + 1
      /\ \A k \in 1 .. d + 1 : Ancestors[k] = ancestors[k]
  <2>1. d + 1 \in Nat /\ d + 1 <= Len(ancestors)
    BY <1>1, <1>2
  <2> QED
    BY <1>2, <1>3, <2>1, Cut DEF Ancestors
<1>5. cut \in Seq(L) /\ Len(cut) = d /\ \A k \in 1 .. d : cut[k] = links[k]
  BY <1>1, <1>2, <1>3, Cut
<1>6. PICK l : l = LinkOf(e)
  OBVIOUS
<1>7. l \in L
  BY <1>1, <1>6 DEF LinkOf
<1>8. ancestors' = Append(Ancestors, e.to) /\ links' = Append(cut, l)
  BY <1>6 DEF EnteredFrom, LinkOf
<1>9. /\ ancestors' \in Seq(Dirs) /\ Len(ancestors') = d + 2
      /\ \A k \in 1 .. d + 1 : ancestors'[k] = ancestors[k]
      /\ ancestors'[d + 2] = e.to
  BY <1>1, <1>4, <1>8, Added
<1>10. /\ links' \in Seq(L) /\ Len(links') = d + 1 /\ links'[d + 1] = l
       /\ \A k \in 1 .. d : links'[k] = links[k]
  <2> HIDE DEF cut, L
  <2>1. /\ Append(cut, l) \in Seq(L) /\ Len(Append(cut, l)) = Len(cut) + 1
        /\ \A k \in 1 .. Len(cut) : Append(cut, l)[k] = cut[k]
        /\ Append(cut, l)[Len(cut) + 1] = l
    BY <1>5, <1>7, Added
  <2> QED
    BY <1>5, <1>8, <2>1
<1>11. l # None => LeadsTo(l, e.to)
  BY <1>1, <1>6 DEF LinkOf, LeadsTo
<1>12. \A j \in 1 .. d : links[j] # None => LeadsTo(links[j], ancestors[j + 1])
  BY <1>1, <1>2, <1>3 DEF Followed
<1>13. ASSUME l # None, NEW j \in 1 .. d, links[j] = l
       PROVE  FALSE
  <2>1. e.kind = "link"
    BY <1>6, <1>13 DEF LinkOf
  <2>2. ancestors[j + 1] = e.to
    BY <1>3, <1>11, <1>12, <1>13, OneTarget
  <2>3. j + 1 \in 1 .. d + 1
    OBVIOUS
  <2>4. Ancestors[j + 1] = e.to /\ j + 1 \in DOMAIN Ancestors
    BY <1>4, <2>2, <2>3
  <2>5. e.to \in ToSet(Ancestors)
    BY <2>4 DEF ToSet
  <2> QED
    BY <2>1, <2>5 DEF Enter
<1>14. Dirs' = Dirs
  BY DEF Dirs
<1>15. Followed'
  <2>1. SUFFICES ASSUME NEW j \in 1 .. d + 1, links'[j] # None
                 PROVE  LeadsTo(links[j], ancestors[j + 1])'
    BY <1>10 DEF Followed
  <2>2. CASE j = d + 1
    <3>1. links'[j] = l /\ ancestors'[j + 1] = e.to
      BY <1>9, <1>10, <2>2
    <3>2. LeadsTo(l, e.to)
      BY <1>11, <2>1, <3>1
    <3> QED
      BY <3>1, <3>2 DEF LeadsTo, Dirs, Dir
  <2>3. CASE j # d + 1
    <3>1. j \in 1 .. d /\ j + 1 \in 1 .. d + 1
      BY <2>3
    <3>2. links'[j] = links[j] /\ ancestors'[j + 1] = ancestors[j + 1]
      BY <1>9, <1>10, <3>1
    <3>3. LeadsTo(links[j], ancestors[j + 1])
      BY <1>12, <2>1, <3>1, <3>2
    <3> QED
      BY <3>2, <3>3 DEF LeadsTo, Dirs, Dir
  <2> QED
    BY <2>2, <2>3
<1>16. NoLinkTwice'
  <2>1. SUFFICES ASSUME NEW j \in 1 .. d + 1, NEW k \in 1 .. d + 1, j # k, links'[j] # None, links'[j] = links'[k]
                 PROVE  FALSE
    <3>1. DOMAIN links' = 1 .. d + 1
      BY <1>10
    <3> QED
      BY <3>1 DEF NoLinkTwice
  <2>2. CASE j = d + 1
    BY <1>10, <1>13, <2>1, <2>2
  <2>3. CASE k = d + 1
    BY <1>10, <1>13, <2>1, <2>3
  <2>4. CASE j # d + 1 /\ k # d + 1
    <3>1. j \in 1 .. d /\ k \in 1 .. d
      BY <2>4
    <3>2. links[j] # None /\ links[j] = links[k]
      BY <1>10, <2>1, <3>1
    <3>3. j \in DOMAIN links /\ k \in DOMAIN links
      BY <1>1, <1>2, <1>3, <3>1
    <3> QED
      BY <1>3, <2>1, <3>2, <3>3 DEF NoLinkTwice
  <2> QED
    BY <2>2, <2>3, <2>4
<1> QED
  BY <1>2, <1>9, <1>10, <1>14, <1>15, <1>16 DEF TrailInv

LEMMA TrailCut ==
    ASSUME WalkInv, tree' = tree, NEW e \in Here, EnteredFrom(e), ~ Enter(e)
    PROVE  TrailInv' /\ Len(ancestors') = Depth + 1 /\ links' = links
<1>1. /\ Depth \in Nat /\ Len(ancestors) \in Nat /\ Depth + 1 <= Len(ancestors)
  BY AtEntry
<1>2. PICK n \in Nat : n = Depth + 1
  BY <1>1
<1>3. ancestors \in Seq(Dirs) /\ links \in Seq((Dirs \X STRING) \cup {None}) /\ Followed /\ NoLinkTwice
  BY DEF WalkInv, WalkTypes
<1>4. ancestors' = SubSeq(ancestors, 1, n) /\ links' = links
  BY <1>2 DEF EnteredFrom, Ancestors
<1>5. /\ ancestors' \in Seq(Dirs) /\ Len(ancestors') = n
      /\ \A k \in 1 .. n : ancestors'[k] = ancestors[k]
  BY <1>1, <1>2, <1>3, <1>4, Cut
<1>6. Dirs' = Dirs /\ NoLinkTwice'
  BY <1>3, <1>4 DEF Dirs, NoLinkTwice
<1>7. Followed'
  <2>1. SUFFICES ASSUME NEW j \in 1 .. Len(links), j < n, links[j] # None
                 PROVE  LeadsTo(links[j], ancestors[j + 1])'
    BY <1>4, <1>5 DEF Followed
  <2>2. j + 1 \in 1 .. n /\ j < Len(ancestors)
    BY <1>1, <1>2, <2>1
  <2>3. LeadsTo(links[j], ancestors[j + 1]) /\ ancestors'[j + 1] = ancestors[j + 1]
    BY <1>3, <1>5, <2>1, <2>2 DEF Followed
  <2> QED
    BY <2>3, <1>4 DEF LeadsTo, Dirs, Dir
<1> QED
  BY <1>2, <1>3, <1>4, <1>5, <1>6, <1>7 DEF TrailInv

(* The frames the iterator may go on with: without the entry, or inside it. *)
NameOf(e) == Append(Last(stack).name, e.name)

LEMMA TakenIs ==
    ASSUME WalkInv, NEW e \in Here
    PROVE  Taken(e) \in Seq(Frames) /\ Len(Taken(e)) = Depth + 1 /\ InOwn(Taken(e))
<1>1. /\ Len(stack) \in Nat \ {0} /\ Depth + 1 = Len(stack)
      /\ LastFrame \in Frames
  BY AtEntry
<1>2. stack \in Seq(Frames) /\ InOwn(stack)
  BY DEF WalkInv, WalkTypes
<1>3. PICK frame : frame = [LastFrame EXCEPT !.left = @ \ {e}]
  OBVIOUS
<1>4. frame \in Frames /\ frame.left \subseteq LastFrame.left /\ frame.dir = LastFrame.dir
  BY <1>1, <1>3 DEF Frames
<1>5. Taken(e) = [stack EXCEPT ![Len(stack)] = frame]
  BY <1>3 DEF Taken, LastFrame
<1>6. /\ Taken(e) \in Seq(Frames) /\ Len(Taken(e)) = Len(stack)
      /\ \A k \in 1 .. Len(stack) : Taken(e)[k] = IF k = Len(stack) THEN frame ELSE stack[k]
  BY <1>1, <1>2, <1>4, <1>5
<1>7. ASSUME NEW k \in 1 .. Len(stack)
      PROVE  Taken(e)[k].left \subseteq Dir(Taken(e)[k].dir).entries
  <2>1. stack[k].left \subseteq Dir(stack[k].dir).entries
    BY <1>2 DEF InOwn
  <2>2. CASE k = Len(stack)
    BY <1>4, <1>6, <2>1, <2>2 DEF LastFrame
  <2>3. CASE k # Len(stack)
    BY <1>6, <2>1, <2>3
  <2> QED
    BY <2>2, <2>3
<1>8. InOwn(Taken(e))
  BY <1>6, <1>7 DEF InOwn
<1> QED
  BY <1>1, <1>6, <1>8

LEMMA InsideIs ==
    ASSUME WalkInv, NEW e \in Here
    PROVE  LET frames == Append(Taken(e), Inside(e.to, NameOf(e)))
           IN  frames \in Seq(Frames) /\ Len(frames) = Depth + 2 /\ InOwn(frames)
<1>1. /\ Depth \in Nat /\ Last(stack) = LastFrame /\ LastFrame \in Frames /\ e.name \in STRING /\ e.to \in Dirs
  BY AtEntry
<1>2. Taken(e) \in Seq(Frames) /\ Len(Taken(e)) = Depth + 1 /\ InOwn(Taken(e))
  BY TakenIs
<1>3. NameOf(e) \in Seq(STRING)
  <2>1. LastFrame.name \in Seq(STRING)
    BY <1>1 DEF Frames
  <2> QED
    BY <1>1, <2>1 DEF NameOf
<1>4. PICK frame : frame = Inside(e.to, NameOf(e))
  OBVIOUS
<1>5. frame \in Frames /\ frame.left \subseteq Dir(frame.dir).entries
  <2>1. Dir(e.to).entries \in SUBSET Entries
    BY <1>1, TreeFacts DEF WalkInv, WalkTypes
  <2> QED
    BY <1>1, <1>3, <1>4, <2>1 DEF Inside, Frames
<1>6. PICK frames : frames = Append(Taken(e), frame)
  OBVIOUS
<1>7. PICK n \in Nat : n = Depth + 1
  BY <1>1
<1>8. /\ frames \in Seq(Frames) /\ Len(frames) = n + 1 /\ frames[n + 1] = frame
      /\ \A k \in 1 .. n : frames[k] = Taken(e)[k]
  BY <1>2, <1>5, <1>6, <1>7, Added
<1>9. InOwn(frames)
  <2>1. SUFFICES ASSUME NEW k \in 1 .. n + 1
                 PROVE  frames[k].left \subseteq Dir(frames[k].dir).entries
    BY <1>8 DEF InOwn
  <2>2. CASE k = n + 1
    BY <1>5, <1>8, <2>2
  <2>3. CASE k # n + 1
    <3>1. k \in 1 .. n
      BY <2>3
    <3> QED
      BY <1>2, <1>7, <1>8, <3>1 DEF InOwn
  <2> QED
    BY <2>2, <2>3
<1>10. n + 1 = Depth + 2
  BY <1>1, <1>7
<1> QED
  BY <1>4, <1>6, <1>8, <1>9, <1>10

-----------------------------------------------------------------------------
(* The steps of a walk. *)
LEMMA WalkFrom ==
    ASSUME tree \in Trees, tree' = tree, TrailInv', NEW frames \in Seq(Frames), InOwn(frames),
           stack' = Incremented(frames) \/ stack' = <<>>,
           Len(frames) <= Len(ancestors'), Len(frames) <= Len(links') + 1
    PROVE  WalkInv'
<1>1. stack' \in Seq(Frames) /\ Len(stack') <= Len(frames) /\ InOwn(stack')
  <2>1. CASE stack' = Incremented(frames)
    BY <2>1, IncrementedIs
  <2>2. CASE stack' = <<>>
    <3>1. stack' \in Seq(Frames) /\ Len(stack') = 0 /\ Len(frames) \in Nat
      BY <2>2
    <3> QED
      BY <3>1 DEF InOwn
  <2> QED
    BY <2>1, <2>2
<1>2. Frames' = Frames /\ Dirs' = Dirs /\ InOwn(stack)' = InOwn(stack')
  BY DEF Frames, Dirs, Entries, Dir, InOwn
<1>3. ancestors' \in Seq(Dirs) /\ links' \in Seq((Dirs \X STRING) \cup {None})
  BY <1>2 DEF TrailInv
<1>4. Len(stack') <= Len(ancestors') /\ Len(stack') <= Len(links') + 1
  <2>1. Len(stack') \in Nat /\ Len(frames) \in Nat /\ Len(ancestors') \in Nat /\ Len(links') \in Nat
    BY <1>1, <1>3
  <2> QED
    BY <1>1, <2>1
<1>5. WalkTypes'
  BY <1>1, <1>2, <1>3, <1>4 DEF WalkTypes
<1> QED
  BY <1>5 DEF WalkInv, TrailInv

LEMMA WalkStays ==
    ASSUME WalkInv, UNCHANGED <<tree, stack, ancestors, links>>
    PROVE  WalkInv'
BY DEF WalkInv, WalkTypes, Followed, NoLinkTwice, Frames, Dirs, Entries, Dir, InOwn, LeadsTo

LEMMA PassedOver ==
    ASSUME WalkInv, UNCHANGED <<tree, ancestors, links>>, NEW e \in Here, stack' = Incremented(Taken(e))
    PROVE  WalkInv'
<1>1. /\ Depth \in Nat /\ Len(ancestors) \in Nat /\ Depth + 1 <= Len(ancestors)
      /\ Len(links) \in Nat /\ Depth <= Len(links)
  BY AtEntry
<1>2. Taken(e) \in Seq(Frames) /\ Len(Taken(e)) = Depth + 1 /\ InOwn(Taken(e))
  BY TakenIs
<1>3. TrailInv'
  BY DEF WalkInv, WalkTypes, TrailInv, Followed, NoLinkTwice, Dirs, Dir, LeadsTo
<1>4. Len(Taken(e)) <= Len(ancestors') /\ Len(Taken(e)) <= Len(links') + 1 /\ tree \in Trees
  BY <1>1, <1>2 DEF WalkInv, WalkTypes
<1> QED
  BY <1>2, <1>3, <1>4, WalkFrom

LEMMA WalkGoesOn ==
    ASSUME WalkInv, tree' = tree, NEW e \in Here, EnteredFrom(e),
           \/ stack' = <<>>
           \/ stack' = Incremented(Taken(e))
           \/ Enter(e) /\ stack' = Incremented(Append(Taken(e), Inside(e.to, NameOf(e))))
    PROVE  WalkInv'
<1>1. Depth \in Nat /\ Len(links) \in Nat /\ Depth <= Len(links) /\ tree \in Trees
  BY AtEntry DEF WalkInv, WalkTypes
<1>2. Taken(e) \in Seq(Frames) /\ Len(Taken(e)) = Depth + 1 /\ InOwn(Taken(e))
  BY TakenIs
<1>3. TrailInv' /\ Depth + 1 <= Len(ancestors') /\ Depth <= Len(links')
  <2>1. CASE Enter(e)
    BY <1>1, <2>1, TrailEntered
  <2>2. CASE ~ Enter(e)
    BY <1>1, <2>2, TrailCut
  <2> QED
    BY <2>1, <2>2
<1>4. CASE stack' = <<>> \/ stack' = Incremented(Taken(e))
  <2>1. Len(links') \in Nat
    BY <1>3 DEF TrailInv
  <2>2. Len(Taken(e)) <= Len(ancestors') /\ Len(Taken(e)) <= Len(links') + 1
    BY <1>1, <1>2, <1>3, <2>1
  <2> QED
    BY <1>1, <1>2, <1>3, <1>4, <2>2, WalkFrom
<1>5. CASE Enter(e) /\ stack' = Incremented(Append(Taken(e), Inside(e.to, NameOf(e))))
  <2>1. PICK frames : frames = Append(Taken(e), Inside(e.to, NameOf(e)))
    OBVIOUS
  <2>2. frames \in Seq(Frames) /\ Len(frames) = Depth + 2 /\ InOwn(frames)
    BY <2>1, InsideIs
  <2>3. Len(ancestors') = Depth + 2 /\ Len(links') = Depth + 1
    BY <1>5, TrailEntered
  <2>4. Len(frames) <= Len(ancestors') /\ Len(frames) <= Len(links') + 1
    BY <1>1, <2>2, <2>3
  <2> QED
    BY <1>1, <1>3, <1>5, <2>1, <2>2, <2>4, WalkFrom
<1> QED
  BY <1>4, <1>5

LEMMA WalkAtOpen ==
    ASSUME WalkInv, Open
    PROVE  WalkInv'
<1>1. tree' = tree /\ tree \in Trees
  BY DEF Open, WalkInv, WalkTypes
<1>2. BeginWalk(tree.root) \/ UNCHANGED <<stack, ancestors, links>>
  BY DEF Open, walk
<1> QED
  BY <1>1, <1>2, WalkBegins, WalkStays

LEMMA WalkAtListEntry ==
    ASSUME WalkInv, NEW e \in Here, ListEntry(e)
    PROVE  WalkInv'
<1>1. tree' = tree
  BY DEF ListEntry
<1>2. CASE IsDirectory(e)
  <2>1. EnteredFrom(e)
    BY <1>2 DEF ListEntry
  <2>2. \/ stack' = <<>>
        \/ stack' = Incremented(Taken(e))
        \/ Enter(e) /\ stack' = Incremented(Append(Taken(e), Inside(e.to, NameOf(e))))
    BY DEF ListEntry, NameOf, WayTo
  <2> QED
    BY <1>1, <2>1, <2>2, WalkGoesOn
<1>3. CASE ~ IsDirectory(e)
  <2>1. stack' = Incremented(Taken(e)) /\ UNCHANGED <<tree, ancestors, links>>
    BY <1>3 DEF ListEntry
  <2> QED
    BY <2>1, PassedOver
<1> QED
  BY <1>2, <1>3

(* What measuring does at an entry, case by case. *)
LookedIn(e) ==
    /\ IsDirectory(e) /\ Enter(e) /\ Dir(e.to).access = "open" /\ EnteredFrom(e)
    /\ stack' = Incremented(Append(Taken(e), Inside(e.to, NameOf(e))))
    /\ counted' = counted \cup {WayTo(e)} /\ UNCHANGED <<total, given, pc>>
TurnedBack(e) ==
    /\ IsDirectory(e) /\ ~ Enter(e) /\ EnteredFrom(e)
    /\ stack' = Incremented(Taken(e)) /\ UNCHANGED <<total, given, pc, counted>>
CountedFile(e) ==
    /\ e.kind = "file" /\ e.bytes # None /\ total' = total + e.bytes
    /\ stack' = Incremented(Taken(e)) /\ UNCHANGED <<ancestors, links, given, pc, counted>>
Ignored(e) ==
    /\ e.kind = "other"
    /\ stack' = Incremented(Taken(e)) /\ UNCHANGED <<ancestors, links, total, given, pc, counted>>

LEMMA MeasureCases ==
    ASSUME WalkInv, NEW e \in Here, MeasureEntry(e)
    PROVE  /\ pc = "measuring" /\ UNCHANGED <<tree, inventory, clock, asked, deadline, sizes, named>>
           /\ FallBack("unreadable") \/ LookedIn(e) \/ TurnedBack(e) \/ CountedFile(e) \/ Ignored(e)
<1>1. pc = "measuring" /\ UNCHANGED <<tree, inventory, clock, asked, deadline, sizes, named>>
  BY DEF MeasureEntry
<1>2. e.kind \in {"dir", "link", "unresolved", "file", "dangling", "other"}
  BY AtEntry, TreeFacts DEF WalkInv, WalkTypes
<1>3. CASE IsDirectory(e)
  <2>1. MeasureDirectory(e)
    BY <1>3 DEF MeasureEntry, IsDirectory
  <2>2. Enter(e) => Recursed(e) = IF Dir(e.to).access = "open" THEN "entered" ELSE "failed"
    BY <1>1 DEF Recursed
  <2>3. CASE Enter(e) /\ Dir(e.to).access = "open"
    <3>1. (IF Enter(e) THEN Recursed(e) ELSE "skipped") = "entered"
      BY <2>2, <2>3
    <3> QED
      BY <1>1, <1>3, <2>1, <2>3, <3>1 DEF MeasureDirectory, LookedIn, NameOf, WayTo
  <2>4. CASE ~ Enter(e)
    BY <1>1, <1>3, <2>1, <2>4 DEF MeasureDirectory, TurnedBack
  <2>5. CASE Enter(e) /\ Dir(e.to).access # "open"
    BY <1>1, <2>1, <2>2, <2>5 DEF MeasureDirectory
  <2> QED
    BY <2>3, <2>4, <2>5
<1>4. CASE e.kind = "file"
  <2>1. MeasureFile(e)
    BY <1>4 DEF MeasureEntry, IsDirectory
  <2> QED
    BY <1>1, <1>4, <2>1 DEF MeasureFile, CountedFile
<1>5. CASE e.kind = "dangling"
  BY <1>5 DEF MeasureEntry, IsDirectory
<1>6. CASE e.kind = "other"
  BY <1>6 DEF MeasureEntry, IsDirectory, Ignored
<1> QED
  BY <1>1, <1>2, <1>3, <1>4, <1>5, <1>6 DEF IsDirectory

LEMMA WalkAtMeasureEntry ==
    ASSUME WalkInv, NEW e \in Here, MeasureEntry(e)
    PROVE  WalkInv'
<1>1. tree' = tree /\ tree' \in Trees
  BY DEF MeasureEntry, WalkInv, WalkTypes
<1>2. CASE FallBack("unreadable")
  BY <1>1, <1>2, NoWalk DEF FallBack, EndWalk
<1>3. CASE LookedIn(e) \/ TurnedBack(e)
  BY <1>1, <1>3, WalkGoesOn DEF LookedIn, TurnedBack
<1>4. CASE CountedFile(e) \/ Ignored(e)
  BY <1>1, <1>4, PassedOver DEF CountedFile, Ignored
<1> QED
  BY <1>2, <1>3, <1>4, MeasureCases

(* The walk's invariant, at every step. *)
THEOREM WalkInvariant == Spec => []WalkInv
<1>1. Init => WalkInv
  <2> SUFFICES ASSUME Init PROVE WalkInv
    OBVIOUS
  <2>1. /\ stack \in Seq(Frames) /\ ancestors \in Seq(Dirs) /\ links \in Seq((Dirs \X STRING) \cup {None})
        /\ Len(stack) = 0 /\ Len(ancestors) = 0 /\ Len(links) = 0 /\ DOMAIN links = 1 .. 0 /\ tree \in Trees
    BY DEF Init
  <2>2. WalkTypes
    BY <2>1 DEF WalkTypes, InOwn
  <2>3. Followed /\ NoLinkTwice
    BY <2>1 DEF Followed, NoLinkTwice
  <2> QED
    BY <2>2, <2>3 DEF WalkInv
<1>2. WalkInv /\ [Next]_vars => WalkInv'
  <2> SUFFICES ASSUME WalkInv, [Next]_vars PROVE WalkInv'
    OBVIOUS
  <2>1. CASE Open
    BY <2>1, WalkAtOpen
  <2>2. CASE \E e \in Here : ListEntry(e)
    BY <2>2, WalkAtListEntry
  <2>3. CASE Listed \/ Expired \/ SizeMeasured
    <3>1. tree' \in Trees /\ EndWalk
      BY <2>3 DEF Listed, Expired, SizeMeasured, FallBack, WalkInv, WalkTypes
    <3> QED
      BY <3>1, NoWalk DEF EndWalk
  <2>4. ASSUME NEW timeout \in Timeouts, Size(timeout)
        PROVE  WalkInv'
    <3>1. tree' = tree /\ tree \in Trees
      BY <2>4 DEF Size, WalkInv, WalkTypes
    <3>2. EndWalk \/ BeginWalk(tree.root)
      BY <2>4 DEF Size, FallBack
    <3> QED
      BY <3>1, <3>2, NoWalk, WalkBegins DEF EndWalk
  <2>5. CASE \E e \in Here : MeasureEntry(e)
    BY <2>5, WalkAtMeasureEntry
  <2>6. CASE Tick \/ Ended \/ UNCHANGED vars
    BY <2>6, WalkStays DEF Tick, Ended, vars, walk
  <2> QED
    BY <2>1, <2>2, <2>3, <2>4, <2>5, <2>6 DEF Next
<1> QED
  BY <1>1, <1>2, PTL DEF Spec

(* However the links of a filesystem are laid, no walk of LinkedWalk comes  *)
(* through one twice on the way to where it is.                             *)
THEOREM NoLinkTwiceEver == Spec => []NoLinkTwice
<1>1. WalkInv => NoLinkTwice
  BY DEF WalkInv
<1> QED
  BY <1>1, WalkInvariant, PTL

-----------------------------------------------------------------------------
(* The time a size is given.  The deadline is a time the clock can show,    *)
(* and coming to it takes the whole timeout or all the time there is.       *)
LEMMA DeadlineFits ==
    ASSUME NEW now \in 0 .. MaxClock, NEW timeout \in Timeouts
    PROVE  /\ DeadlineFor(now, timeout) \in now .. MaxClock
           /\ \A then \in 0 .. MaxClock : then >= DeadlineFor(now, timeout) =>
                then - now >= Least(timeout * TicksPerMs, MaxClock - now)
<1>1. MaxClock \in Nat /\ now \in Nat /\ timeout \in Nat /\ TicksPerMs \in Positive /\ TicksPerMs \in Nat
  BY StoreWalkAssumption DEF Positive
<1>2. PICK ticks \in Nat : ticks = timeout * TicksPerMs
  BY <1>1
<1>3. PICK rest \in Nat : rest = MaxClock - now
  BY <1>1
<1>4. PICK q \in Nat : q = rest \div TicksPerMs
  BY <1>1, <1>3, Division
<1>5. q * TicksPerMs <= rest
  <2>1. PICK r \in Nat : r = rest % TicksPerMs
    BY <1>1, <1>3, Division
  <2>2. q * TicksPerMs \in Nat
    BY <1>1, <1>4
  <2>3. rest = q * TicksPerMs + r
    BY <1>1, <1>3, <1>4, <2>1, Division
  <2> QED
    BY <2>1, <2>2, <2>3
<1>6. timeout < q => ticks <= rest
  <2>1. SUFFICES ASSUME timeout < q PROVE ticks <= rest
    OBVIOUS
  <2>2. PICK more \in Nat : q = timeout + more
    BY <1>1, <1>4, <2>1
  <2>3. more * TicksPerMs \in Nat
    BY <1>1, <2>2
  <2>4. q * TicksPerMs = timeout * TicksPerMs + more * TicksPerMs
    BY <1>1, <2>2
  <2> QED
    BY <1>2, <1>3, <1>5, <2>3, <2>4
<1>7. DeadlineFor(now, timeout) = IF timeout >= q THEN MaxClock ELSE now + ticks
  BY <1>2, <1>3, <1>4 DEF DeadlineFor
<1>8. CASE timeout >= q
  BY <1>1, <1>2, <1>3, <1>7, <1>8 DEF Least
<1>9. CASE ~ (timeout >= q)
  <2>1. ticks <= rest
    BY <1>1, <1>4, <1>6, <1>9
  <2> QED
    BY <1>1, <1>2, <1>3, <1>7, <1>9, <2>1 DEF Least
<1> QED
  BY <1>8, <1>9

TimeInv ==
    /\ clock \in 0 .. MaxClock
    /\ pc = "measuring" =>
         /\ given = None /\ asked.at \in 0 .. clock /\ asked.timeout \in Timeouts
         /\ deadline = DeadlineFor(asked.at, asked.timeout)
    /\ TimeoutHonoured

LEMMA NotCancelled ==
    ASSUME TimeInv, UNCHANGED clock, pc' # "measuring",
           given' = Declared("unreadable") \/ given' = Measured(total)
    PROVE  TimeInv'
<1>1. given'.cut # "cancelled"
  BY StoreWalkAssumption DEF Declared, Measured
<1>2. clock' \in 0 .. MaxClock
  BY DEF TimeInv
<1> QED
  BY <1>1, <1>2 DEF TimeInv, TimeoutHonoured

LEMMA TimeStays ==
    ASSUME TimeInv, UNCHANGED <<clock, asked, deadline, given>>, pc' = pc \/ pc' # "measuring"
    PROVE  TimeInv'
BY DEF TimeInv, TimeoutHonoured, DeadlineFor, Least

LEMMA TimeAtSize ==
    ASSUME TimeInv, NEW timeout \in Timeouts, Size(timeout)
    PROVE  TimeInv'
<1>1. clock \in 0 .. MaxClock /\ clock' = clock
  BY DEF TimeInv, Size
<1>2. CASE Dir(tree.root).access # "open"
  <2>1. FallBack("unreadable")
    BY <1>2 DEF Size
  <2> QED
    BY <1>1, <2>1, NotCancelled DEF FallBack
<1>3. CASE ~ (Dir(tree.root).access # "open")
  <2>1. /\ given' = None /\ asked' = [at |-> clock, timeout |-> timeout] /\ deadline' = DeadlineFor(clock, timeout)
    BY <1>3 DEF Size
  <2>2. asked'.at = clock /\ asked'.timeout = timeout /\ clock \in 0 .. clock
    BY <1>1, <2>1, StoreWalkAssumption
  <2>3. deadline' = DeadlineFor(asked.at, asked.timeout)'
    BY <2>1, <2>2 DEF DeadlineFor
  <2>4. TimeoutHonoured'
    BY <2>1 DEF TimeoutHonoured
  <2> QED
    BY <1>1, <2>1, <2>2, <2>3, <2>4 DEF TimeInv
<1> QED
  BY <1>2, <1>3

LEMMA TimeAtExpired ==
    ASSUME TimeInv, Expired
    PROVE  TimeInv'
<1>1. /\ clock \in 0 .. MaxClock /\ asked.at \in 0 .. clock /\ asked.timeout \in Timeouts
      /\ clock >= DeadlineFor(asked.at, asked.timeout)
  BY DEF TimeInv, Expired
<1>2. asked.at \in 0 .. MaxClock
  BY <1>1, StoreWalkAssumption
<1>3. clock - asked.at >= Least(asked.timeout * TicksPerMs, MaxClock - asked.at)
  BY <1>1, <1>2, DeadlineFits
<1>4. UNCHANGED <<clock, asked>> /\ pc' = "open"
  BY DEF Expired, FallBack
<1>5. TimeoutHonoured'
  BY <1>3, <1>4 DEF TimeoutHonoured, Least
<1> QED
  BY <1>1, <1>4, <1>5 DEF TimeInv

LEMMA TimeAtMeasureEntry ==
    ASSUME TimeInv, WalkInv, NEW e \in Here, MeasureEntry(e)
    PROVE  TimeInv'
<1>1. UNCHANGED <<clock, asked, deadline>>
  BY DEF MeasureEntry
<1>3. FallBack("unreadable") \/ UNCHANGED <<given, pc>>
  BY MeasureCases DEF LookedIn, TurnedBack, CountedFile, Ignored
<1>4. CASE FallBack("unreadable")
  BY <1>1, <1>4, NotCancelled DEF FallBack
<1>5. CASE UNCHANGED <<given, pc>>
  BY <1>1, <1>5, TimeStays
<1> QED
  BY <1>3, <1>4, <1>5

LEMMA TimeAtTick ==
    ASSUME TimeInv, Tick
    PROVE  TimeInv'
<1>1. /\ clock \in Nat /\ clock' = clock + 1 /\ clock' \in 0 .. MaxClock
      /\ given = None /\ given' = None /\ asked.at \in 0 .. clock /\ UNCHANGED <<asked, deadline>>
  BY StoreWalkAssumption DEF TimeInv, Tick
<1>2. asked'.at \in 0 .. clock' /\ asked'.timeout \in Timeouts
  BY <1>1 DEF TimeInv, Tick
<1>3. deadline' = DeadlineFor(asked.at, asked.timeout)'
  BY <1>1 DEF TimeInv, Tick, DeadlineFor
<1>4. TimeoutHonoured'
  BY <1>1 DEF TimeoutHonoured
<1> QED
  BY <1>1, <1>2, <1>3, <1>4 DEF TimeInv

(* What is kept of the time while a store is measured. *)
THEOREM TimeInvariant == Spec => []TimeInv
<1>1. Init => TimeInv
  BY StoreWalkAssumption DEF Init, TimeInv, TimeoutHonoured
<1>2. TimeInv /\ WalkInv /\ [Next]_vars => TimeInv'
  <2> SUFFICES ASSUME TimeInv, WalkInv, [Next]_vars PROVE TimeInv'
    OBVIOUS
  <2>1. CASE Open \/ Listed \/ \E e \in Here : ListEntry(e)
    <3>1. UNCHANGED <<clock, asked, deadline, given>> /\ (pc' = pc \/ pc' # "measuring")
      BY <2>1 DEF Open, Listed, ListEntry
    <3> QED
      BY <3>1, TimeStays
  <2>2. CASE \E timeout \in Timeouts : Size(timeout)
    BY <2>2, TimeAtSize
  <2>3. CASE Expired
    BY <2>3, TimeAtExpired
  <2>4. CASE \E e \in Here : MeasureEntry(e)
    BY <2>4, TimeAtMeasureEntry
  <2>5. CASE SizeMeasured
    BY <2>5, NotCancelled DEF SizeMeasured
  <2>6. CASE Tick
    BY <2>6, TimeAtTick
  <2>7. CASE Ended \/ UNCHANGED vars
    BY <2>7, TimeStays DEF Ended, vars
  <2> QED
    BY <2>1, <2>2, <2>3, <2>4, <2>5, <2>6, <2>7 DEF Next
<1> QED
  BY <1>1, <1>2, WalkInvariant, PTL DEF Spec

(* No measuring is given up before the caller's timeout has passed or the   *)
(* clock has run out, for any clock and any timeout (Dataset::Size).        *)
THEOREM TimeoutHonouredEver == Spec => []TimeoutHonoured
<1>1. TimeInv => TimeoutHonoured
  BY DEF TimeInv
<1> QED
  BY <1>1, TimeInvariant, PTL

-----------------------------------------------------------------------------
(* The ways a walk has come by, and the ones it has still to come by: those *)
(* by an entry that is left of a directory it is inside.                    *)
WayAt(frames, trail, k) == [name |-> frames[k].name, dirs |-> SubSeq(trail, 1, k)]
LeftIn(frames, trail, w, e) ==
    \E k \in 1 .. Len(frames) : WayAt(frames, trail, k) = w /\ e \in frames[k].left
FramedIn(frames, trail, looked) ==
    \A k \in 1 .. Len(frames) : WayAt(frames, trail, k) \in looked /\ trail[k] = frames[k].dir

LEMMA WayAtIs ==
    ASSUME NEW frames, NEW S, NEW trail \in Seq(S), NEW k \in 1 .. Len(trail)
    PROVE  /\ WayAt(frames, trail, k).name = frames[k].name /\ WayAt(frames, trail, k).dirs = SubSeq(trail, 1, k)
           /\ WayAt(frames, trail, k).dirs \in Seq(S) /\ Len(WayAt(frames, trail, k).dirs) = k
           /\ At(WayAt(frames, trail, k)) = trail[k]
<1>1. k \in Nat /\ k <= Len(trail) /\ k \in 1 .. k
  OBVIOUS
<1>2. /\ SubSeq(trail, 1, k) \in Seq(S) /\ Len(SubSeq(trail, 1, k)) = k
      /\ SubSeq(trail, 1, k)[k] = trail[k]
  BY <1>1, Cut
<1>3. WayAt(frames, trail, k).name = frames[k].name /\ WayAt(frames, trail, k).dirs = SubSeq(trail, 1, k)
  BY DEF WayAt
<1> QED
  BY <1>2, <1>3 DEF At, Last

LEMMA WaysApart ==
    ASSUME NEW f, NEW g, NEW S, NEW trail \in Seq(S), NEW other \in Seq(S),
           NEW j \in 1 .. Len(trail), NEW k \in 1 .. Len(other), j # k
    PROVE  WayAt(f, trail, j) # WayAt(g, other, k)
<1>1. Len(WayAt(f, trail, j).dirs) = j /\ Len(WayAt(g, other, k).dirs) = k
  BY WayAtIs
<1> QED
  BY <1>1

(* Ways agree where names and trails do. *)
LEMMA SameWay ==
    ASSUME NEW f, NEW g, NEW S, NEW trail \in Seq(S), NEW other \in Seq(S), NEW k \in Nat,
           k <= Len(trail), k <= Len(other), \A j \in 1 .. k : trail[j] = other[j], f[k].name = g[k].name
    PROVE  WayAt(f, trail, k) = WayAt(g, other, k)
<1>1. SubSeq(trail, 1, k) = SubSeq(other, 1, k)
  OBVIOUS
<1> QED
  BY <1>1 DEF WayAt

LEMMA LeftIncremented ==
    ASSUME NEW frames \in Seq(Frames), NEW trail \in Seq(Dirs), Len(frames) <= Len(trail)
    PROVE  /\ \A looked : FramedIn(frames, trail, looked) => FramedIn(Incremented(frames), trail, looked)
           /\ \A w, e : LeftIn(Incremented(frames), trail, w, e) <=> LeftIn(frames, trail, w, e)
<1>1. PICK n \in 0 .. Len(frames) :
        Incremented(frames) = SubSeq(frames, 1, n) /\ \A k \in n + 1 .. Len(frames) : frames[k].left = {}
  BY IncrementedCuts
<1>2. PICK cut : cut = SubSeq(frames, 1, n)
  OBVIOUS
<1>3. Len(frames) \in Nat /\ n \in Nat /\ n <= Len(frames)
  OBVIOUS
<1>4. Len(cut) = n /\ \A k \in 1 .. n : cut[k] = frames[k]
  BY <1>2, <1>3, Cut
<1>5. \A k \in 1 .. n : k \in 1 .. Len(frames) /\ WayAt(cut, trail, k) = WayAt(frames, trail, k)
  <2>1. \A k \in 1 .. n : k \in 1 .. Len(frames)
    BY <1>3
  <2>2. \A k \in 1 .. n : WayAt(cut, trail, k) = WayAt(frames, trail, k)
    BY <1>4 DEF WayAt
  <2> QED
    BY <2>1, <2>2
<1>6. \A looked : FramedIn(frames, trail, looked) => FramedIn(cut, trail, looked)
  BY <1>4, <1>5 DEF FramedIn
<1>7. \A w, e : LeftIn(cut, trail, w, e) => LeftIn(frames, trail, w, e)
  BY <1>4, <1>5 DEF LeftIn
<1>8. ASSUME NEW w, NEW e, LeftIn(frames, trail, w, e)
      PROVE  LeftIn(cut, trail, w, e)
  <2>1. PICK k \in 1 .. Len(frames) : WayAt(frames, trail, k) = w /\ e \in frames[k].left
    BY <1>8 DEF LeftIn
  <2>2. k \notin n + 1 .. Len(frames)
    BY <1>1, <2>1
  <2>3. k \in 1 .. n
    BY <1>3, <2>2
  <2> QED
    BY <1>4, <1>5, <2>1, <2>3 DEF LeftIn
<1> QED
  BY <1>1, <1>2, <1>6, <1>7, <1>8

(* The directory the iterator is in, by the way it came. *)
Current == WayAt(stack, ancestors, Len(stack))

LEMMA LeftTaken ==
    ASSUME WalkInv, NEW e \in Here, NEW trail \in Seq(Dirs), Len(stack) <= Len(trail),
           \A k \in 1 .. Len(stack) : trail[k] = ancestors[k]
    PROVE  /\ \A looked : FramedIn(stack, ancestors, looked) => FramedIn(Taken(e), trail, looked)
           /\ \A w, x : LeftIn(Taken(e), trail, w, x) <=> LeftIn(stack, ancestors, w, x) /\ ~ (w = Current /\ x = e)
<1>1. PICK n \in Nat \ {0} : n = Len(stack)
  BY AtEntry
<1>2. stack \in Seq(Frames) /\ ancestors \in Seq(Dirs) /\ n <= Len(ancestors) /\ n <= Len(trail)
      /\ Len(ancestors) \in Nat /\ Len(trail) \in Nat
  BY <1>1 DEF WalkInv, WalkTypes
<1>3. PICK frames : frames = Taken(e)
  OBVIOUS
<1>4. /\ Len(frames) = n
      /\ \A k \in 1 .. n : frames[k].name = stack[k].name /\ frames[k].dir = stack[k].dir
      /\ \A k \in 1 .. n : frames[k].left = IF k = n THEN stack[k].left \ {e} ELSE stack[k].left
  <2>1. PICK frame : frame = [stack[n] EXCEPT !.left = @ \ {e}]
    OBVIOUS
  <2>2. stack[n] \in Frames
    BY <1>1, <1>2
  <2>3. /\ frame.name = stack[n].name /\ frame.dir = stack[n].dir /\ frame.left = stack[n].left \ {e}
        /\ frame \in Frames
    BY <2>1, <2>2 DEF Frames
  <2>4. frames = [stack EXCEPT ![n] = frame]
    BY <1>1, <1>3, <2>1 DEF Taken
  <2>5. Len(frames) = n /\ \A k \in 1 .. n : frames[k] = IF k = n THEN frame ELSE stack[k]
    BY <1>1, <1>2, <2>3, <2>4
  <2> QED
    BY <2>3, <2>5
<1>5. ASSUME NEW k \in 1 .. n
      PROVE  WayAt(frames, trail, k) = WayAt(stack, ancestors, k)
  <2>1. k \in Nat /\ k <= Len(trail) /\ k <= Len(ancestors) /\ \A j \in 1 .. k : j \in 1 .. n
    BY <1>1, <1>2
  <2> QED
    BY <1>1, <1>2, <1>4, <2>1, SameWay
<1>6. \A k \in 1 .. n : WayAt(stack, ancestors, k) = Current <=> k = n
  <2>1. ASSUME NEW k \in 1 .. n, k # n
        PROVE  WayAt(stack, ancestors, k) # Current
    <3>1. k \in 1 .. Len(ancestors) /\ n \in 1 .. Len(ancestors)
      BY <1>1, <1>2
    <3> QED
      BY <1>1, <1>2, <2>1, <3>1, WaysApart DEF Current
  <2> QED
    BY <1>1, <2>1 DEF Current
<1>7. \A looked : FramedIn(stack, ancestors, looked) => FramedIn(frames, trail, looked)
  BY <1>1, <1>4, <1>5 DEF FramedIn
<1>8. ASSUME NEW w, NEW x
      PROVE  LeftIn(frames, trail, w, x) <=> LeftIn(stack, ancestors, w, x) /\ ~ (w = Current /\ x = e)
  <2>1. LeftIn(frames, trail, w, x) <=> \E k \in 1 .. n : WayAt(stack, ancestors, k) = w /\ x \in frames[k].left
    BY <1>4, <1>5 DEF LeftIn
  <2>2. LeftIn(stack, ancestors, w, x) <=> \E k \in 1 .. n : WayAt(stack, ancestors, k) = w /\ x \in stack[k].left
    BY <1>1 DEF LeftIn
  <2> QED
    <3>1. ASSUME LeftIn(frames, trail, w, x)
          PROVE  LeftIn(stack, ancestors, w, x) /\ ~ (w = Current /\ x = e)
      <4>1. PICK k \in 1 .. n : WayAt(stack, ancestors, k) = w /\ x \in frames[k].left
        BY <2>1, <3>1
      <4>2. x \in stack[k].left /\ ~ (k = n /\ x = e)
        BY <1>4, <4>1
      <4> QED
        BY <1>6, <2>2, <4>1, <4>2
    <3>2. ASSUME LeftIn(stack, ancestors, w, x), ~ (w = Current /\ x = e)
          PROVE  LeftIn(frames, trail, w, x)
      <4>1. PICK k \in 1 .. n : WayAt(stack, ancestors, k) = w /\ x \in stack[k].left
        BY <2>2, <3>2
      <4>2. x \in frames[k].left
        BY <1>4, <1>6, <3>2, <4>1
      <4> QED
        BY <2>1, <4>1, <4>2
    <3> QED
      BY <3>1, <3>2
<1> QED
  BY <1>3, <1>7, <1>8

LEMMA LeftInside ==
    ASSUME NEW frames \in Seq(Frames), NEW trail \in Seq(Dirs), Len(trail) = Len(frames) + 1,
           NEW frame \in Frames, frame.dir = trail[Len(trail)]
    PROVE  LET in  == Append(frames, frame)
               new == WayAt(in, trail, Len(trail))
           IN  /\ \A looked : FramedIn(frames, trail, looked) /\ new \in looked => FramedIn(in, trail, looked)
               /\ \A w, x : LeftIn(in, trail, w, x) <=> LeftIn(frames, trail, w, x) \/ (w = new /\ x \in frame.left)
<1>1. PICK n \in Nat : n = Len(frames)
  OBVIOUS
<1>2. PICK in : in = Append(frames, frame)
  OBVIOUS
<1>3. Len(in) = n + 1 /\ in[n + 1] = frame /\ \A k \in 1 .. n : in[k] = frames[k]
  BY <1>1, <1>2, Added
<1>4. \A k \in 1 .. n : WayAt(in, trail, k) = WayAt(frames, trail, k)
  BY <1>3 DEF WayAt
<1>5. PICK new : new = WayAt(in, trail, n + 1)
  OBVIOUS
<1>6. \A k : k \in 1 .. n + 1 <=> k \in 1 .. n \/ k = n + 1
  BY <1>1
<1>7. \A looked : FramedIn(frames, trail, looked) /\ new \in looked => FramedIn(in, trail, looked)
  BY <1>1, <1>3, <1>4, <1>5, <1>6 DEF FramedIn
<1>8. \A w, x : LeftIn(in, trail, w, x) <=> LeftIn(frames, trail, w, x) \/ (w = new /\ x \in frame.left)
  BY <1>1, <1>3, <1>4, <1>5, <1>6 DEF LeftIn
<1> QED
  BY <1>1, <1>2, <1>5, <1>7, <1>8

(* Every way come by is the root's or one on from a way looked into; and of *)
(* the ways on from those, just the ones still left are not come by.        *)
AllWays == {w \in [name : Seq(STRING), dirs : Seq(Dirs)] : w.dirs # <<>>}
Grown(ways, looked) ==
    /\ ways \subseteq AllWays /\ looked \subseteq ways /\ RootWay \in ways
    /\ \A w \in ways : w = RootWay \/ \E v \in looked : \E e \in Ons(v) : w = By(v, e)
    /\ \A w \in ways : \A d \in ToSet(w.dirs) : d = At(w) \/ \E v \in looked : At(v) = d
Pending(frames, trail, ways, looked) ==
    \A w \in looked : \A e \in Ons(w) : By(w, e) \in ways <=> ~ LeftIn(frames, trail, w, e)

LEMMA AppendOne ==
    ASSUME NEW S, NEW s \in Seq(S), NEW t \in Seq(S), NEW x \in S, NEW y \in S, Append(s, x) = Append(t, y)
    PROVE  s = t /\ x = y
<1>1. /\ Len(Append(s, x)) = Len(s) + 1 /\ Append(s, x)[Len(s) + 1] = x
      /\ \A k \in 1 .. Len(s) : Append(s, x)[k] = s[k]
  BY Added
<1>2. /\ Len(Append(t, y)) = Len(t) + 1 /\ Append(t, y)[Len(t) + 1] = y
      /\ \A k \in 1 .. Len(t) : Append(t, y)[k] = t[k]
  BY Added
<1>3. Len(s) \in Nat /\ Len(t) \in Nat
  OBVIOUS
<1>4. Len(s) = Len(t)
  BY <1>1, <1>2, <1>3
<1>5. x = y /\ \A k \in 1 .. Len(s) : s[k] = t[k]
  BY <1>1, <1>2, <1>4
<1> QED
  BY <1>4, <1>5

LEMMA ByIs ==
    ASSUME tree \in Trees, NEW w \in AllWays, NEW e \in Ons(w)
    PROVE  /\ At(w) \in Dirs /\ e \in Dir(At(w)).entries /\ e.to \in Dirs /\ e.name \in STRING
           /\ By(w, e) \in AllWays /\ At(By(w, e)) = e.to /\ By(w, e) # RootWay /\ By(w, e) # w
           /\ ToSet(By(w, e).dirs) = ToSet(w.dirs) \cup {e.to}
           /\ By(w, e).dirs = Append(w.dirs, e.to) /\ By(w, e).name = Append(w.name, e.name)
<1>1. w.name \in Seq(STRING) /\ w.dirs \in Seq(Dirs) /\ w.dirs # <<>>
  BY DEF AllWays
<1>2. PICK n \in Nat \ {0} : n = Len(w.dirs)
  BY <1>1
<1>3. At(w) \in Dirs
  BY <1>1, <1>2 DEF At, Last
<1>4. e \in Dir(At(w)).entries
  BY DEF Ons, Ways
<1>5. e.to \in Dirs /\ e.name \in STRING
  BY <1>3, <1>4, TreeFacts
<1>6. By(w, e).dirs = Append(w.dirs, e.to) /\ By(w, e).name = Append(w.name, e.name)
  BY DEF By
<1>7. PICK dirs : dirs = Append(w.dirs, e.to)
  OBVIOUS
<1>8. dirs \in Seq(Dirs) /\ Len(dirs) = n + 1 /\ dirs[n + 1] = e.to /\ \A k \in 1 .. n : dirs[k] = w.dirs[k]
  BY <1>1, <1>2, <1>5, <1>7, Added
<1>9. Append(w.name, e.name) \in Seq(STRING)
  BY <1>1, <1>5
<1>10. By(w, e) \in AllWays
  <2>1. dirs # <<>>
    BY <1>8
  <2> QED
    BY <1>7, <1>8, <1>9, <2>1 DEF By, AllWays
<1>11. At(By(w, e)) = e.to
  BY <1>6, <1>7, <1>8 DEF At, Last
<1>12. By(w, e) # RootWay /\ By(w, e) # w
  <2>1. Len(By(w, e).dirs) = n + 1 /\ n + 1 # n /\ n + 1 # 1
    BY <1>2, <1>6, <1>7, <1>8
  <2>2. Len(RootWay.dirs) = 1
    BY DEF RootWay
  <2> QED
    BY <1>2, <2>1, <2>2
<1>13. ToSet(By(w, e).dirs) = ToSet(w.dirs) \cup {e.to}
  <2>1. DOMAIN dirs = 1 .. n + 1 /\ DOMAIN w.dirs = 1 .. n
    BY <1>1, <1>2, <1>8
  <2>2. \A k : k \in 1 .. n + 1 <=> k \in 1 .. n \/ k = n + 1
    BY <1>2
  <2>3. ToSet(dirs) = ToSet(w.dirs) \cup {e.to}
    BY <1>8, <2>1, <2>2 DEF ToSet
  <2> QED
    BY <1>6, <1>7, <2>3
<1> QED
  BY <1>3, <1>4, <1>5, <1>6, <1>10, <1>11, <1>12, <1>13

(* A way on is by one way and one entry. *)
LEMMA ByOne ==
    ASSUME tree \in Trees, NEW w \in AllWays, NEW v \in AllWays, NEW e \in Ons(w), NEW x \in Ons(v), By(w, e) = By(v, x)
    PROVE  w = v /\ e = x
<1>1. /\ At(w) \in Dirs /\ e \in Dir(At(w)).entries /\ e.to \in Dirs /\ e.name \in STRING
      /\ By(w, e).dirs = Append(w.dirs, e.to) /\ By(w, e).name = Append(w.name, e.name)
  BY ByIs
<1>2. /\ At(v) \in Dirs /\ x \in Dir(At(v)).entries /\ x.to \in Dirs /\ x.name \in STRING
      /\ By(v, x).dirs = Append(v.dirs, x.to) /\ By(v, x).name = Append(v.name, x.name)
  BY ByIs
<1>3. w.name \in Seq(STRING) /\ w.dirs \in Seq(Dirs) /\ v.name \in Seq(STRING) /\ v.dirs \in Seq(Dirs)
  BY DEF AllWays
<1>0. Append(w.dirs, e.to) = Append(v.dirs, x.to) /\ Append(w.name, e.name) = Append(v.name, x.name)
  BY <1>1, <1>2
<1>4. w.dirs = v.dirs
  <2>0. PICK S : S = Dirs
    OBVIOUS
  <2>1. PICK s \in Seq(S), t \in Seq(S), a \in S, b \in S :
          s = w.dirs /\ t = v.dirs /\ a = e.to /\ b = x.to
    BY <1>1, <1>2, <1>3, <2>0
  <2>2. Append(s, a) = Append(t, b)
    BY <1>0, <2>1
  <2>3. s = t /\ a = b
    BY <2>2, AppendOne
  <2> QED
    BY <2>1, <2>3
<1>5. w.name = v.name /\ e.name = x.name
  <2>1. PICK s \in Seq(STRING), t \in Seq(STRING), a \in STRING, b \in STRING :
          s = w.name /\ t = v.name /\ a = e.name /\ b = x.name
    BY <1>1, <1>2, <1>3
  <2>2. s = t /\ a = b
    BY <1>0, <2>1, AppendOne
  <2> QED
    BY <2>1, <2>2
<1>6. w = v
  BY <1>4, <1>5 DEF AllWays
<1> QED
  BY <1>1, <1>2, <1>5, <1>6, TreeFacts

LEMMA CurrentIs ==
    ASSUME WalkInv, NEW e \in Here, NEW looked, FramedIn(stack, ancestors, looked)
    PROVE  /\ Current \in looked /\ e \in Dir(At(Current)).entries /\ LeftIn(stack, ancestors, Current, e)
           /\ Current.dirs = Ancestors /\ WayTo(e) = By(Current, e)
           /\ e \in Ons(Current) <=> IsDirectory(e) /\ Enter(e)
<1>1. /\ Len(stack) \in Nat \ {0} /\ Depth + 1 = Len(stack) /\ Last(stack) = LastFrame
      /\ e \in Dir(LastFrame.dir).entries /\ Len(ancestors) \in Nat /\ Depth + 1 <= Len(ancestors)
  BY AtEntry
<1>2. Len(stack) \in 1 .. Len(stack) /\ Len(stack) \in 1 .. Len(ancestors)
  BY <1>1
<1>3. Current \in looked /\ ancestors[Len(stack)] = LastFrame.dir
  BY <1>2 DEF FramedIn, Current, LastFrame
<1>4. ancestors \in Seq(Dirs)
  BY DEF WalkInv, WalkTypes
<1>5. /\ Current.name = LastFrame.name /\ Current.dirs = SubSeq(ancestors, 1, Len(stack))
      /\ At(Current) = ancestors[Len(stack)]
  <2>1. PICK n \in Nat : n = Len(stack) /\ n <= Len(ancestors) /\ n \in 1 .. n
    BY <1>1
  <2>2. Len(SubSeq(ancestors, 1, n)) = n /\ SubSeq(ancestors, 1, n)[n] = ancestors[n]
    BY <1>4, <2>1, Cut
  <2>3. Current.name = LastFrame.name /\ Current.dirs = SubSeq(ancestors, 1, n)
    BY <2>1 DEF Current, LastFrame, WayAt
  <2>4. At(Current) = ancestors[n]
    BY <2>2, <2>3 DEF At, Last
  <2> QED
    BY <2>1, <2>3, <2>4
<1>6. Current.dirs = Ancestors
  BY <1>1, <1>5 DEF Ancestors
<1>7. e \in Dir(At(Current)).entries
  BY <1>1, <1>3, <1>5
<1>8. LeftIn(stack, ancestors, Current, e)
  <2>1. e \in LastFrame.left
    BY <1>1 DEF Here
  <2> QED
    BY <1>2, <2>1 DEF LeftIn, Current, LastFrame
<1>9. WayTo(e) = By(Current, e)
  BY <1>1, <1>5, <1>6 DEF WayTo, By
<1>10. e \in Ons(Current) <=> IsDirectory(e) /\ Enter(e)
  BY <1>6, <1>7 DEF Ons, Ways, Enter
<1> QED
  BY <1>3, <1>6, <1>7, <1>8, <1>9, <1>10

LEMMA GrownMore ==
    ASSUME tree \in Trees, NEW ways, NEW looked, Grown(ways, looked), NEW w \in looked, NEW e \in Ons(w),
           NEW more, looked \subseteq more, more \subseteq looked \cup {By(w, e)}
    PROVE  Grown(ways \cup {By(w, e)}, more)
<1>1. PICK new : new = By(w, e)
  OBVIOUS
<1>2. ways \subseteq AllWays /\ looked \subseteq ways /\ RootWay \in ways /\ w \in AllWays /\ w \in ways
  BY DEF Grown
<1>3. new \in AllWays /\ At(new) = e.to /\ ToSet(new.dirs) = ToSet(w.dirs) \cup {e.to}
  BY <1>1, <1>2, ByIs
<1>4. \A v \in ways \cup {new} : v = RootWay \/ \E u \in more : \E x \in Ons(u) : v = By(u, x)
  BY <1>1 DEF Grown
<1>5. ASSUME NEW v \in ways \cup {new}, NEW d \in ToSet(v.dirs)
      PROVE  d = At(v) \/ \E u \in more : At(u) = d
  <2>1. CASE v \in ways
    BY <2>1 DEF Grown
  <2>2. CASE v = new /\ d # e.to
    <3>1. d \in ToSet(w.dirs)
      BY <1>3, <1>5, <2>2
    <3>2. d = At(w) \/ \E u \in looked : At(u) = d
      BY <1>2, <3>1 DEF Grown
    <3> QED
      BY <3>2
  <2>3. CASE v = new /\ d = e.to
    BY <1>3, <2>3
  <2> QED
    BY <1>5, <2>1, <2>2, <2>3
<1>6. ways \cup {new} \subseteq AllWays /\ more \subseteq ways \cup {new} /\ RootWay \in ways \cup {new}
  BY <1>1, <1>2, <1>3
<1> QED
  BY <1>1, <1>4, <1>5, <1>6 DEF Grown

(* An entry is taken, the way by it come by if there is one, and either not *)
(* looked into or looked into with all its entries left.                    *)
LEMMA PendingOver ==
    ASSUME WalkInv, NEW e \in Here, NEW ways, NEW looked, Grown(ways, looked), FramedIn(stack, ancestors, looked),
           Pending(stack, ancestors, ways, looked), NEW frames, NEW trail,
           \A w, x : LeftIn(frames, trail, w, x) <=> LeftIn(stack, ancestors, w, x) /\ ~ (w = Current /\ x = e)
    PROVE  Pending(frames, trail, IF e \in Ons(Current) THEN ways \cup {By(Current, e)} ELSE ways, looked)
<1>1. PICK more : more = IF e \in Ons(Current) THEN ways \cup {By(Current, e)} ELSE ways
  OBVIOUS
<1>2. tree \in Trees /\ looked \subseteq AllWays /\ Current \in looked
  BY CurrentIs DEF WalkInv, WalkTypes, Grown
<1>3. ASSUME NEW w \in looked, NEW x \in Ons(w)
      PROVE  By(w, x) \in more <=> ~ LeftIn(frames, trail, w, x)
  <2>1. CASE w = Current /\ x = e
    BY <1>1, <1>3, <2>1
  <2>2. CASE ~ (w = Current /\ x = e)
    <3>1. e \in Ons(Current) => By(w, x) # By(Current, e)
      BY <1>2, <2>2, ByOne
    <3>2. By(w, x) \in more <=> By(w, x) \in ways
      BY <1>1, <3>1
    <3>3. By(w, x) \in ways <=> ~ LeftIn(stack, ancestors, w, x)
      BY DEF Pending
    <3> QED
      BY <2>2, <3>2, <3>3
  <2> QED
    BY <2>1, <2>2
<1> QED
  BY <1>1, <1>3 DEF Pending

LEMMA PendingInside ==
    ASSUME WalkInv, NEW e \in Here, NEW ways, NEW looked, Grown(ways, looked), FramedIn(stack, ancestors, looked),
           Pending(stack, ancestors, ways, looked), e \in Ons(Current), NEW frames, NEW trail,
           \A w, x : LeftIn(frames, trail, w, x) <=>
             \/ LeftIn(stack, ancestors, w, x) /\ ~ (w = Current /\ x = e)
             \/ w = By(Current, e) /\ x \in Dir(e.to).entries
    PROVE  /\ By(Current, e) \notin ways
           /\ Pending(frames, trail, ways \cup {By(Current, e)}, looked \cup {By(Current, e)})
<1>1. PICK new : new = By(Current, e)
  OBVIOUS
<1>2. tree \in Trees /\ looked \subseteq AllWays /\ looked \subseteq ways /\ Current \in looked
      /\ LeftIn(stack, ancestors, Current, e)
  BY CurrentIs DEF WalkInv, WalkTypes, Grown
<1>3. new \notin ways
  BY <1>1, <1>2 DEF Pending
<1>4. new \in AllWays /\ At(new) = e.to
  BY <1>1, <1>2, ByIs
<1>5. ASSUME NEW w \in looked, NEW x \in Ons(w)
      PROVE  By(w, x) \in ways \cup {new} <=> ~ LeftIn(frames, trail, w, x)
  <2>0. w # new
    BY <1>2, <1>3
  <2>1. CASE w = Current /\ x = e
    BY <1>1, <2>0, <2>1
  <2>2. CASE ~ (w = Current /\ x = e)
    <3>1. By(w, x) # new
      BY <1>1, <1>2, <2>2, ByOne
    <3>2. By(w, x) \in ways <=> ~ LeftIn(stack, ancestors, w, x)
      BY DEF Pending
    <3> QED
      BY <1>1, <2>0, <2>2, <3>1, <3>2
  <2> QED
    BY <2>1, <2>2
<1>6. ASSUME NEW x \in Ons(new)
      PROVE  By(new, x) \notin ways \cup {new} /\ LeftIn(frames, trail, new, x)
  <2>1. By(new, x) # new /\ By(new, x) # RootWay /\ x \in Dir(e.to).entries
    BY <1>2, <1>4, ByIs
  <2>2. ASSUME By(new, x) \in ways
        PROVE  FALSE
    <3>1. PICK v \in looked : \E y \in Ons(v) : By(new, x) = By(v, y)
      BY <2>1, <2>2 DEF Grown
    <3>2. PICK y \in Ons(v) : By(new, x) = By(v, y)
      BY <3>1
    <3>3. new = v
      BY <1>2, <1>4, <3>2, ByOne
    <3> QED
      BY <1>2, <1>3, <3>3
  <2> QED
    BY <1>1, <2>1, <2>2
<1> QED
  BY <1>1, <1>3, <1>5, <1>6 DEF Pending

(* The steps of a walk, as to what is left of it. *)
LEMMA TrailOn ==
    ASSUME WalkInv, NEW e \in Here, EnteredFrom(e)
    PROVE  /\ ancestors' \in Seq(Dirs) /\ Len(stack) <= Len(ancestors')
           /\ \A k \in 1 .. Len(stack) : ancestors'[k] = ancestors[k]
           /\ Enter(e) => Len(ancestors') = Len(stack) + 1 /\ ancestors'[Len(stack) + 1] = e.to
<1>1. /\ Len(stack) \in Nat \ {0} /\ Depth + 1 = Len(stack) /\ e.to \in Dirs
      /\ Len(ancestors) \in Nat /\ Depth + 1 <= Len(ancestors)
  BY AtEntry
<1>2. PICK n \in Nat : n = Len(stack) /\ n <= Len(ancestors)
  BY <1>1
<1>3. ancestors \in Seq(Dirs)
  BY DEF WalkInv, WalkTypes
<1>4. PICK cut : cut = Ancestors
  OBVIOUS
<1>5. cut \in Seq(Dirs) /\ Len(cut) = n /\ \A k \in 1 .. n : cut[k] = ancestors[k]
  <2>1. cut = SubSeq(ancestors, 1, n)
    BY <1>1, <1>2, <1>4 DEF Ancestors
  <2> QED
    BY <1>2, <1>3, <2>1, Cut
<1>6. CASE Enter(e)
  <2>1. ancestors' = Append(cut, e.to)
    BY <1>4, <1>6 DEF EnteredFrom
  <2>2. /\ ancestors' \in Seq(Dirs) /\ Len(ancestors') = n + 1 /\ ancestors'[n + 1] = e.to
        /\ \A k \in 1 .. n : ancestors'[k] = cut[k]
    BY <1>1, <1>5, <2>1, Added
  <2> QED
    BY <1>2, <1>5, <2>2
<1>7. CASE ~ Enter(e)
  <2>1. ancestors' = cut
    BY <1>4, <1>7 DEF EnteredFrom
  <2> QED
    BY <1>2, <1>5, <1>7, <2>1
<1> QED
  BY <1>6, <1>7

LEMMA LeftOver ==
    ASSUME WalkInv, NEW e \in Here, stack' = Incremented(Taken(e)),
           ancestors' \in Seq(Dirs), Len(stack) <= Len(ancestors'),
           \A k \in 1 .. Len(stack) : ancestors'[k] = ancestors[k]
    PROVE  /\ \A looked : FramedIn(stack, ancestors, looked) => FramedIn(stack', ancestors', looked)
           /\ \A w, x : LeftIn(stack', ancestors', w, x) <=>
                          LeftIn(stack, ancestors, w, x) /\ ~ (w = Current /\ x = e)
<1>1. PICK frames, trail : frames = Taken(e) /\ trail = ancestors'
  OBVIOUS
<1>2. frames \in Seq(Frames) /\ Len(frames) = Len(stack)
  BY <1>1, TakenIs, AtEntry
<1>3. trail \in Seq(Dirs) /\ Len(frames) <= Len(trail) /\ Len(stack) <= Len(trail)
      /\ \A k \in 1 .. Len(stack) : trail[k] = ancestors[k]
  BY <1>1, <1>2
<1>4. /\ \A looked : FramedIn(stack, ancestors, looked) => FramedIn(frames, trail, looked)
      /\ \A w, x : LeftIn(frames, trail, w, x) <=> LeftIn(stack, ancestors, w, x) /\ ~ (w = Current /\ x = e)
  BY <1>1, <1>3, LeftTaken
<1>5. /\ \A looked : FramedIn(frames, trail, looked) => FramedIn(Incremented(frames), trail, looked)
      /\ \A w, x : LeftIn(Incremented(frames), trail, w, x) <=> LeftIn(frames, trail, w, x)
  BY <1>2, <1>3, LeftIncremented
<1> QED
  BY <1>1, <1>4, <1>5

LEMMA LeftWithin ==
    ASSUME WalkInv, NEW e \in Here, EnteredFrom(e), Enter(e),
           stack' = Incremented(Append(Taken(e), Inside(e.to, NameOf(e))))
    PROVE  /\ \A looked : FramedIn(stack, ancestors, looked) /\ WayTo(e) \in looked
                            => FramedIn(stack', ancestors', looked)
           /\ \A w, x : LeftIn(stack', ancestors', w, x) <=>
                          \/ LeftIn(stack, ancestors, w, x) /\ ~ (w = Current /\ x = e)
                          \/ w = WayTo(e) /\ x \in Dir(e.to).entries
<1>1. PICK frames, trail, frame, in :
        frames = Taken(e) /\ trail = ancestors' /\ frame = Inside(e.to, NameOf(e)) /\ in = Append(frames, frame)
  OBVIOUS
<1>2. PICK n \in Nat : n = Len(stack)
  BY AtEntry
<1>3. frames \in Seq(Frames) /\ Len(frames) = n
  BY <1>1, <1>2, TakenIs, AtEntry
<1>4. /\ trail \in Seq(Dirs) /\ Len(trail) = n + 1 /\ trail[n + 1] = e.to /\ n <= Len(trail)
      /\ \A k \in 1 .. n : trail[k] = ancestors[k]
  BY <1>1, <1>2, TrailOn
<1>5. in \in Seq(Frames) /\ Len(in) = n + 1
  <2>1. in \in Seq(Frames) /\ Len(in) = Depth + 2
    BY <1>1, InsideIs
  <2> QED
    BY <1>2, <2>1, AtEntry
<1>6. frame.name = NameOf(e) /\ frame.dir = e.to /\ frame.left = Dir(e.to).entries
  BY <1>1 DEF Inside
<1>7. frame \in Frames /\ in[n + 1] = frame
  <2>1. in[n + 1] = frame
    BY <1>1, <1>3
  <2>2. n + 1 \in 1 .. Len(in)
    BY <1>2, <1>5
  <2> QED
    BY <1>5, <2>1, <2>2
<1>8. WayAt(in, trail, n + 1) = WayTo(e)
  <2>1. SubSeq(trail, 1, n + 1) = trail
    BY <1>2, <1>4
  <2>2. trail = Append(Ancestors, e.to)
    BY <1>1 DEF EnteredFrom
  <2> QED
    BY <1>6, <1>7, <2>1, <2>2 DEF WayAt, WayTo, NameOf
<1>9. /\ \A looked : FramedIn(stack, ancestors, looked) => FramedIn(frames, trail, looked)
      /\ \A w, x : LeftIn(frames, trail, w, x) <=> LeftIn(stack, ancestors, w, x) /\ ~ (w = Current /\ x = e)
  BY <1>1, <1>2, <1>4, LeftTaken
<1>10. /\ \A looked : FramedIn(frames, trail, looked) /\ WayTo(e) \in looked => FramedIn(in, trail, looked)
       /\ \A w, x : LeftIn(in, trail, w, x) <=>
                      LeftIn(frames, trail, w, x) \/ (w = WayTo(e) /\ x \in Dir(e.to).entries)
  <2>1. Len(trail) = Len(frames) + 1 /\ frame.dir = trail[Len(trail)] /\ Len(trail) = n + 1
    BY <1>3, <1>4, <1>6
  <2> QED
    BY <1>1, <1>3, <1>4, <1>6, <1>7, <1>8, <2>1, LeftInside
<1>11. /\ \A looked : FramedIn(in, trail, looked) => FramedIn(Incremented(in), trail, looked)
       /\ \A w, x : LeftIn(Incremented(in), trail, w, x) <=> LeftIn(in, trail, w, x)
  BY <1>4, <1>5, LeftIncremented
<1>12. stack' = Incremented(in) /\ ancestors' = trail
  BY <1>1
<1>13. \A looked : FramedIn(stack, ancestors, looked) /\ WayTo(e) \in looked => FramedIn(stack', ancestors', looked)
  BY <1>9, <1>10, <1>11, <1>12
<1>14. \A w, x : LeftIn(stack', ancestors', w, x) <=>
                   \/ LeftIn(stack, ancestors, w, x) /\ ~ (w = Current /\ x = e)
                   \/ w = WayTo(e) /\ x \in Dir(e.to).entries
  BY <1>9, <1>10, <1>11, <1>12
<1> QED
  BY <1>13, <1>14

LEMMA LeftAtFirst ==
    ASSUME tree \in Trees, BeginWalk(tree.root)
    PROVE  /\ \A looked : RootWay \in looked => FramedIn(stack', ancestors', looked)
           /\ \A w, x : LeftIn(stack', ancestors', w, x) <=> w = RootWay /\ x \in Dir(tree.root).entries
<1>1. PICK frame, frames, trail : frame = Inside(tree.root, <<>>) /\ frames = <<frame>> /\ trail = <<tree.root>>
  OBVIOUS
<1>2. tree.root \in Dirs /\ Dir(tree.root).entries \in SUBSET Entries /\ <<>> \in Seq(STRING)
  BY TreeFacts
<1>3. frame \in Frames /\ frame.dir = tree.root /\ frame.name = <<>> /\ frame.left = Dir(tree.root).entries
  BY <1>1, <1>2 DEF Inside, Frames
<1>4. frames \in Seq(Frames) /\ Len(frames) = 1 /\ frames[1] = frame
  BY <1>1, <1>3
<1>5. trail \in Seq(Dirs) /\ Len(trail) = 1 /\ trail[1] = tree.root
  BY <1>1, <1>2
<1>6. WayAt(frames, trail, 1) = RootWay
  <2>1. SubSeq(trail, 1, 1) = trail
    BY <1>5
  <2> QED
    BY <1>1, <1>3, <1>4, <2>1 DEF WayAt, RootWay
<1>7. \A k : k \in 1 .. 1 <=> k = 1
  OBVIOUS
<1>8. \A looked : RootWay \in looked => FramedIn(frames, trail, looked)
  BY <1>3, <1>4, <1>5, <1>6, <1>7 DEF FramedIn
<1>9. \A w, x : LeftIn(frames, trail, w, x) <=> w = RootWay /\ x \in Dir(tree.root).entries
  BY <1>3, <1>4, <1>6, <1>7 DEF LeftIn
<1>10. /\ \A looked : FramedIn(frames, trail, looked) => FramedIn(Incremented(frames), trail, looked)
       /\ \A w, x : LeftIn(Incremented(frames), trail, w, x) <=> LeftIn(frames, trail, w, x)
  BY <1>4, <1>5, LeftIncremented
<1>11. stack' = Incremented(frames) /\ ancestors' = trail
  BY <1>1 DEF BeginWalk
<1> QED
  BY <1>8, <1>9, <1>10, <1>11

-----------------------------------------------------------------------------
(* A walk that has nothing left has come by every way there is, and so to   *)
(* every directory.                                                         *)
LEMMA RootAlone ==
    ASSUME tree \in Trees, NEW looked, looked \subseteq {RootWay}
    PROVE  RootWay \in AllWays /\ At(RootWay) = tree.root /\ Grown({RootWay}, looked)
<1>1. PICK dirs : dirs = <<tree.root>>
  OBVIOUS
<1>2. dirs \in Seq(Dirs) /\ Len(dirs) = 1 /\ dirs[1] = tree.root /\ dirs # <<>> /\ DOMAIN dirs = 1 .. 1
  BY <1>1, TreeFacts
<1>3. RootWay = [name |-> <<>>, dirs |-> dirs] /\ <<>> \in Seq(STRING)
  BY <1>1 DEF RootWay
<1>4. RootWay \in AllWays
  BY <1>2, <1>3 DEF AllWays
<1>5. RootWay.dirs = dirs
  BY <1>3
<1>6. At(RootWay) = tree.root
  BY <1>2, <1>5 DEF At, Last
<1>7. \A d \in ToSet(RootWay.dirs) : d = At(RootWay)
  BY <1>2, <1>5, <1>6 DEF ToSet
<1> QED
  BY <1>4, <1>6, <1>7 DEF Grown

LEMMA AllComeBy ==
    ASSUME NEW ways, NEW looked, Grown(ways, looked), \A w \in looked : \A e \in Ons(w) : By(w, e) \in ways
    PROVE  AreAll(ways, looked)
<1>1. RootWay \in ways /\ \A w \in ways : w = RootWay \/ \E v \in looked : \E e \in Ons(v) : w = By(v, e)
  BY DEF Grown
<1> QED
  BY <1>1 DEF AreAll

LEMMA AllReached ==
    ASSUME tree \in Trees, NEW ways, NEW looked, Grown(ways, looked),
           \A w \in looked : \A e \in Ons(w) : By(w, e) \in ways,
           NEW into, \A w \in ways : At(w) \in into => \E v \in looked : At(v) = At(w)
    PROVE  \A d \in Reachable(into) : \E w \in ways : At(w) = d
<1>1. PICK ds : ds = {At(w) : w \in ways}
  OBVIOUS
<1>2. ways \subseteq AllWays /\ looked \subseteq ways /\ RootWay \in ways
  BY DEF Grown
<1>3. ds \in SUBSET DOMAIN tree.dirs
  <2>1. ASSUME NEW w \in ways
        PROVE  At(w) \in Dirs
    <3>1. w.dirs \in Seq(Dirs) /\ w.dirs # <<>>
      BY <1>2 DEF AllWays
    <3> QED
      BY <3>1 DEF At, Last
  <2> QED
    BY <1>1, <2>1 DEF Dirs
<1>4. tree.root \in ds
  <2>1. At(RootWay) = tree.root
    BY RootAlone
  <2> QED
    BY <1>1, <1>2, <2>1
<1>5. ASSUME NEW d \in ds \cap into, NEW e \in Ways(d)
      PROVE  e.to \in ds
  <2>1. PICK w \in looked : At(w) = d
    BY <1>1, <1>5
  <2>2. CASE e \in Ons(w)
    <3>1. By(w, e) \in ways /\ At(By(w, e)) = e.to
      BY <1>2, <2>2, ByIs
    <3> QED
      BY <1>1, <3>1
  <2>3. CASE e \notin Ons(w)
    <3>1. e.to \in ToSet(w.dirs)
      BY <1>5, <2>1, <2>3 DEF Ons
    <3>2. e.to = At(w) \/ \E v \in looked : At(v) = e.to
      BY <1>2, <3>1 DEF Grown
    <3> QED
      BY <1>1, <1>2, <3>2
  <2> QED
    BY <2>2, <2>3
<1>6. Closed(ds, into)
  BY <1>5 DEF Closed
<1>7. \A d \in Reachable(into) : d \in ds
  BY <1>3, <1>4, <1>6 DEF Reachable
<1> QED
  BY <1>1, <1>7

(* What a listing has come by, and what it has found when it is done. *)
LookedAt(ways) == {w \in ways : LookedInto(w)}
ListState ==
    /\ Grown(named, LookedAt(named)) /\ FramedIn(stack, ancestors, LookedAt(named))
    /\ Pending(stack, ancestors, named, LookedAt(named))
    /\ inventory = NodesBy(named)
FoundBy(ways) == AreAll(ways, LookedAt(ways)) /\ \A d \in Reachable(Enumerated) : \E w \in ways : At(w) = d
AllFound == FoundBy(named) /\ inventory = NodesBy(named)
ListInv ==
    /\ pc = "listing" => ListState
    /\ pc \in {"open", "measuring"} /\ tree.copy = None => AllFound

LEMMA ListMoves ==
    ASSUME tree' = tree, NEW ways, named' = ways, Grown(ways, LookedAt(ways)),
           FramedIn(stack', ancestors', LookedAt(ways)), Pending(stack', ancestors', ways, LookedAt(ways)),
           inventory' = NodesBy(ways)
    PROVE  ListState'
<1>1. LookedAt(named)' = LookedAt(ways) /\ NodesBy(named)' = NodesBy(ways)
  BY DEF LookedAt, LookedInto, NodesBy, InArray, At, Dir, RootWay
<1>2. Grown(named, LookedAt(named))'
  <2>1. AllWays' = AllWays /\ RootWay' = RootWay
    BY DEF AllWays, Dirs, RootWay
  <2>2. ways \subseteq AllWays /\ LookedAt(ways) \subseteq ways /\ RootWay \in ways
    BY DEF Grown
  <2>3. \A w \in ways : w = RootWay \/ \E v \in LookedAt(ways) : \E e \in Ons(v)' : w = By(v, e)
    <3>1. \A v : Ons(v)' = Ons(v)
      BY DEF Ons, Ways, At, Dir
    <3> QED
      BY <3>1 DEF Grown
  <2>4. \A w \in ways : \A d \in ToSet(w.dirs) : d = At(w) \/ \E v \in LookedAt(ways) : At(v) = d
    BY DEF Grown
  <2> QED
    BY <1>1, <2>1, <2>2, <2>3, <2>4 DEF Grown
<1>3. FramedIn(stack, ancestors, LookedAt(named))'
  BY <1>1 DEF FramedIn, WayAt
<1>4. Pending(stack, ancestors, named, LookedAt(named))'
  BY <1>1, ZenonT(40) DEF Pending, LeftIn, WayAt, Ons, Ways, By, At, Dir
<1> QED
  BY <1>1, <1>2, <1>3, <1>4 DEF ListState

LEMMA FoundMoves ==
    ASSUME tree' = tree, NEW ways, named' = ways, FoundBy(ways), inventory' = NodesBy(ways)
    PROVE  AllFound'
<1>1. LookedAt(named)' = LookedAt(ways) /\ NodesBy(named)' = NodesBy(ways) /\ RootWay' = RootWay
  BY DEF LookedAt, LookedInto, NodesBy, InArray, At, Dir, RootWay
<1>2. AreAll(named, LookedAt(named))'
  <2>1. \A v : Ons(v)' = Ons(v)
    BY DEF Ons, Ways, At, Dir
  <2> QED
    BY <1>1, <2>1 DEF FoundBy, AreAll
<1>3. Reachable(Enumerated)' = Reachable(Enumerated)
  <2>1. Enumerated' = Enumerated
    BY DEF Enumerated, InArray, Dir
  <2> QED
    BY <2>1 DEF Reachable, Closed, Ways, Dir
<1> QED
  BY <1>1, <1>2, <1>3 DEF AllFound, FoundBy, At

LEMMA NothingLeft ==
    ASSUME tree \in Trees, NEW ways, Grown(ways, LookedAt(ways)),
           \A w \in LookedAt(ways) : \A e \in Ons(w) : By(w, e) \in ways
    PROVE  FoundBy(ways)
<1>1. RootWay \in ways /\ At(RootWay) = tree.root
  BY RootAlone DEF Grown
<1>2. ASSUME NEW w \in ways, At(w) \in Enumerated
      PROVE  \E v \in LookedAt(ways) : At(v) = At(w)
  <2>1. CASE At(w) = tree.root
    <3>1. LookedInto(RootWay)
      BY <1>1, <1>2, <2>1 DEF LookedInto, Enumerated
    <3> QED
      BY <1>1, <2>1, <3>1 DEF LookedAt
  <2>2. CASE At(w) # tree.root
    <3>1. LookedInto(w)
      BY <1>2, <2>2 DEF LookedInto, Enumerated
    <3> QED
      BY <1>2, <3>1 DEF LookedAt
  <2> QED
    BY <2>1, <2>2
<1>3. \A d \in Reachable(Enumerated) : \E w \in ways : At(w) = d
  BY <1>2, AllReached
<1> QED
  BY <1>3, AllComeBy DEF FoundBy

(* What listing does at an entry, case by case. *)
Unlisted(e) ==
    /\ ~ (IsDirectory(e) /\ Enter(e))
    /\ EnteredFrom(e) \/ UNCHANGED ancestors
    /\ stack' = Incremented(Taken(e)) /\ UNCHANGED <<named, inventory, pc>>
NodeOf(e) == IF Dir(e.to).doc # None THEN {[name |-> WayTo(e).name, doc |-> Dir(e.to).doc]} ELSE {}
Noted(e) ==
    /\ IsDirectory(e) /\ Enter(e) /\ EnteredFrom(e)
    /\ named' = named \cup {WayTo(e)} /\ inventory' = inventory \cup NodeOf(e)
ListedOnly(e) ==
    /\ Noted(e) /\ (InArray(e.to) \/ Dir(e.to).access # "open")
    /\ stack' = Incremented(Taken(e)) /\ UNCHANGED pc
ListedWithin(e) ==
    /\ Noted(e) /\ ~ InArray(e.to) /\ Dir(e.to).access = "open"
    /\ stack' = Incremented(Append(Taken(e), Inside(e.to, NameOf(e)))) /\ UNCHANGED pc

LEMMA ListCases ==
    ASSUME NEW e \in Here, ListEntry(e)
    PROVE  /\ pc = "listing" /\ UNCHANGED <<tree, total, clock, asked, deadline, given, sizes, counted>>
           /\ pc' = "refused" \/ Unlisted(e) \/ ListedOnly(e) \/ ListedWithin(e)
<1>1. pc = "listing" /\ UNCHANGED <<tree, total, clock, asked, deadline, given, sizes, counted>>
  BY DEF ListEntry
<1>2. CASE ~ IsDirectory(e)
  <2>1. stack' = Incremented(Taken(e)) /\ UNCHANGED <<ancestors, named, inventory, pc>>
    BY <1>2 DEF ListEntry
  <2> QED
    BY <1>1, <1>2, <2>1 DEF Unlisted
<1>3. CASE IsDirectory(e) /\ ~ Enter(e)
  <2>1. EnteredFrom(e) /\ stack' = Incremented(Taken(e)) /\ UNCHANGED <<named, inventory, pc>>
    BY <1>3 DEF ListEntry
  <2> QED
    BY <1>1, <1>3, <2>1 DEF Unlisted
<1>4. CASE IsDirectory(e) /\ Enter(e)
  <2>1. Noted(e)
    BY <1>4 DEF ListEntry, Noted, NodeOf
  <2>2. CASE InArray(e.to)
    <3>1. stack' = Incremented(Taken(e)) /\ UNCHANGED pc
      BY <1>4, <2>2 DEF ListEntry, InArray
    <3> QED
      BY <1>1, <2>1, <2>2, <3>1 DEF ListedOnly
  <2>3. CASE ~ InArray(e.to) /\ Recursed(e) = "failed"
    <3>1. pc' = "refused"
      BY <1>4, <2>3 DEF ListEntry, InArray
    <3> QED
      BY <1>1, <3>1
  <2>4. CASE ~ InArray(e.to) /\ Recursed(e) = "skipped"
    <3>1. stack' = Incremented(Taken(e)) /\ UNCHANGED pc
      BY <1>4, <2>4 DEF ListEntry, InArray
    <3>2. Dir(e.to).access # "open"
      BY <2>4 DEF Recursed
    <3> QED
      BY <1>1, <2>1, <3>1, <3>2 DEF ListedOnly
  <2>5. CASE ~ InArray(e.to) /\ Recursed(e) = "entered"
    <3>1. stack' = Incremented(Append(Taken(e), Inside(e.to, NameOf(e)))) /\ UNCHANGED pc
      BY <1>4, <2>5 DEF ListEntry, InArray, NameOf, WayTo
    <3>2. Dir(e.to).access = "open"
      BY <2>5 DEF Recursed
    <3> QED
      BY <1>1, <2>1, <2>5, <3>1, <3>2 DEF ListedWithin
  <2>6. Recursed(e) \in {"entered", "skipped", "failed"}
    BY DEF Recursed
  <2> QED
    BY <2>2, <2>3, <2>4, <2>5, <2>6
<1> QED
  BY <1>2, <1>3, <1>4

LEMMA NotedIs ==
    ASSUME WalkInv, ListState, NEW e \in Here, Noted(e)
    PROVE  /\ e \in Ons(Current) /\ Current \in LookedAt(named) /\ WayTo(e) = By(Current, e)
           /\ WayTo(e) \in AllWays /\ At(WayTo(e)) = e.to
           /\ LookedInto(WayTo(e)) <=> Dir(e.to).access = "open" /\ ~ InArray(e.to)
           /\ LookedAt(named') = LookedAt(named) \cup {w \in {WayTo(e)} : LookedInto(w)}
           /\ inventory' = NodesBy(named')
           /\ Grown(named', LookedAt(named'))
<1>1. e \in Ons(Current) /\ Current \in LookedAt(named) /\ WayTo(e) = By(Current, e) /\ tree \in Trees
  BY CurrentIs DEF ListState, Noted, WalkInv, WalkTypes
<1>2. Current \in AllWays
  BY <1>1 DEF ListState, Grown
<1>3. WayTo(e) \in AllWays /\ At(WayTo(e)) = e.to /\ WayTo(e) # RootWay
  BY <1>1, <1>2, ByIs
<1>4. LookedInto(WayTo(e)) <=> Dir(e.to).access = "open" /\ ~ InArray(e.to)
  BY <1>3 DEF LookedInto
<1>5. PICK new : new = WayTo(e)
  OBVIOUS
<1>6. LookedAt(named') = LookedAt(named) \cup {w \in {new} : LookedInto(w)}
  BY <1>5 DEF Noted, LookedAt
<1>7. inventory' = NodesBy(named')
  <2>1. named' = named \cup {new} /\ inventory' = NodesBy(named) \cup NodeOf(e)
    BY <1>5 DEF Noted, ListState
  <2>2. NodesBy(named \cup {new}) = NodesBy(named) \cup NodesBy({new})
    BY DEF NodesBy
  <2>3. NodesBy({new}) = NodeOf(e)
    BY <1>3, <1>5 DEF NodesBy, NodeOf
  <2> QED
    BY <2>1, <2>2, <2>3
<1>8. Grown(named', LookedAt(named'))
  <2>1. named' = named \cup {By(Current, e)}
    BY <1>1 DEF Noted
  <2>2. LookedAt(named) \subseteq LookedAt(named') /\ LookedAt(named') \subseteq LookedAt(named) \cup {By(Current, e)}
    BY <1>1, <1>5, <1>6
  <2> QED
    BY <1>1, <2>1, <2>2, GrownMore DEF ListState
<1> QED
  BY <1>1, <1>3, <1>4, <1>5, <1>6, <1>7, <1>8

LEMMA TrailKept ==
    ASSUME WalkInv, NEW e \in Here, EnteredFrom(e) \/ UNCHANGED ancestors
    PROVE  /\ ancestors' \in Seq(Dirs) /\ Len(stack) <= Len(ancestors')
           /\ \A k \in 1 .. Len(stack) : ancestors'[k] = ancestors[k]
<1>1. CASE EnteredFrom(e)
  BY <1>1, TrailOn
<1>2. CASE UNCHANGED ancestors
  BY <1>2 DEF WalkInv, WalkTypes
<1> QED
  BY <1>1, <1>2

LEMMA ListAtUnlisted ==
    ASSUME WalkInv, ListState, tree' = tree, NEW e \in Here, Unlisted(e)
    PROVE  ListState'
<1>1. PICK ways, looked : ways = named /\ looked = LookedAt(named)
  OBVIOUS
<1>2. Grown(ways, looked) /\ FramedIn(stack, ancestors, looked) /\ Pending(stack, ancestors, ways, looked)
  BY <1>1 DEF ListState
<1>3. e \notin Ons(Current)
  BY <1>2, CurrentIs DEF Unlisted
<1>4. /\ \A l : FramedIn(stack, ancestors, l) => FramedIn(stack', ancestors', l)
      /\ \A w, x : LeftIn(stack', ancestors', w, x) <=>
                     LeftIn(stack, ancestors, w, x) /\ ~ (w = Current /\ x = e)
  BY TrailKept, LeftOver DEF Unlisted
<1>5. Pending(stack', ancestors', ways, looked)
  BY <1>2, <1>3, <1>4, PendingOver
<1>6. FramedIn(stack', ancestors', looked)
  BY <1>2, <1>4
<1>7. named' = ways /\ inventory' = NodesBy(ways)
  BY <1>1 DEF Unlisted, ListState
<1> QED
  BY <1>1, <1>2, <1>5, <1>6, <1>7, ListMoves

LEMMA ListAtListedOnly ==
    ASSUME WalkInv, ListState, tree' = tree, NEW e \in Here, ListedOnly(e)
    PROVE  ListState'
<1>1. PICK ways, looked, more : ways = named /\ looked = LookedAt(named) /\ more = named'
  OBVIOUS
<1>2. Grown(ways, looked) /\ FramedIn(stack, ancestors, looked) /\ Pending(stack, ancestors, ways, looked)
  BY <1>1 DEF ListState
<1>3. /\ e \in Ons(Current) /\ WayTo(e) = By(Current, e) /\ ~ LookedInto(WayTo(e))
      /\ LookedAt(named') = LookedAt(named) \cup {w \in {WayTo(e)} : LookedInto(w)}
      /\ inventory' = NodesBy(named') /\ Grown(named', LookedAt(named'))
  BY NotedIs DEF ListedOnly
<1>4. LookedAt(more) = looked /\ more = ways \cup {By(Current, e)}
  BY <1>1, <1>3 DEF ListedOnly, Noted
<1>5. /\ \A l : FramedIn(stack, ancestors, l) => FramedIn(stack', ancestors', l)
      /\ \A w, x : LeftIn(stack', ancestors', w, x) <=>
                     LeftIn(stack, ancestors, w, x) /\ ~ (w = Current /\ x = e)
  BY TrailKept, LeftOver DEF ListedOnly, Noted
<1>6. Pending(stack', ancestors', more, looked)
  BY <1>2, <1>3, <1>4, <1>5, PendingOver
<1>7. FramedIn(stack', ancestors', looked)
  BY <1>2, <1>5
<1> QED
  BY <1>1, <1>3, <1>4, <1>6, <1>7, ListMoves

LEMMA ListAtListedWithin ==
    ASSUME WalkInv, ListState, tree' = tree, NEW e \in Here, ListedWithin(e)
    PROVE  ListState'
<1>1. PICK ways, looked, more : ways = named /\ looked = LookedAt(named) /\ more = named'
  OBVIOUS
<1>2. Grown(ways, looked) /\ FramedIn(stack, ancestors, looked) /\ Pending(stack, ancestors, ways, looked)
  BY <1>1 DEF ListState
<1>3. /\ e \in Ons(Current) /\ WayTo(e) = By(Current, e) /\ LookedInto(WayTo(e))
      /\ LookedAt(named') = LookedAt(named) \cup {w \in {WayTo(e)} : LookedInto(w)}
      /\ inventory' = NodesBy(named') /\ Grown(named', LookedAt(named'))
  BY NotedIs DEF ListedWithin
<1>4. LookedAt(more) = looked \cup {By(Current, e)} /\ more = ways \cup {By(Current, e)}
  BY <1>1, <1>3 DEF ListedWithin, Noted
<1>5. /\ \A l : FramedIn(stack, ancestors, l) /\ WayTo(e) \in l => FramedIn(stack', ancestors', l)
      /\ \A w, x : LeftIn(stack', ancestors', w, x) <=>
                     \/ LeftIn(stack, ancestors, w, x) /\ ~ (w = Current /\ x = e)
                     \/ w = WayTo(e) /\ x \in Dir(e.to).entries
  BY LeftWithin DEF ListedWithin, Noted
<1>6. Pending(stack', ancestors', ways \cup {By(Current, e)}, looked \cup {By(Current, e)})
  BY <1>2, <1>3, <1>5, PendingInside
<1>7. FramedIn(stack', ancestors', looked \cup {By(Current, e)})
  <2>1. FramedIn(stack, ancestors, looked \cup {By(Current, e)})
    BY <1>2 DEF FramedIn
  <2> QED
    BY <1>3, <1>5, <2>1
<1> QED
  BY <1>1, <1>3, <1>4, <1>6, <1>7, ListMoves

LEMMA ListAtOpen ==
    ASSUME WalkInv, Open
    PROVE  ListInv'
<1>1. tree' = tree /\ tree \in Trees
  BY DEF Open, WalkInv, WalkTypes
<1>2. CASE pc' = "listing"
  <2>1. BeginWalk(tree.root) /\ Dir(tree.root).access = "open" /\ named' = {RootWay} /\ inventory' = {}
    BY <1>2 DEF Open
  <2>2. At(RootWay) = tree.root /\ LookedAt({RootWay}) \subseteq {RootWay}
    BY <1>1, RootAlone DEF LookedAt
  <2>3. RootWay \in LookedAt({RootWay})
    BY <2>1, <2>2 DEF LookedAt, LookedInto
  <2>4. Grown({RootWay}, LookedAt({RootWay}))
    BY <1>1, <2>2, RootAlone
  <2>5. /\ FramedIn(stack', ancestors', LookedAt({RootWay}))
        /\ \A w, x : LeftIn(stack', ancestors', w, x) <=> w = RootWay /\ x \in Dir(tree.root).entries
    BY <1>1, <2>1, <2>3, LeftAtFirst
  <2>6. Pending(stack', ancestors', {RootWay}, LookedAt({RootWay}))
    <3>1. ASSUME NEW e \in Ons(RootWay)
          PROVE  By(RootWay, e) # RootWay /\ e \in Dir(tree.root).entries
      BY <1>1, <2>2, RootAlone, ByIs
    <3> QED
      BY <2>2, <2>5, <3>1 DEF Pending
  <2>7. inventory' = NodesBy({RootWay})
    BY <2>1 DEF NodesBy
  <2>8. ListState'
    BY <1>1, <2>1, <2>4, <2>5, <2>6, <2>7, ListMoves
  <2> QED
    BY <1>2, <2>8 DEF ListInv
<1>3. CASE pc' = "open" /\ tree.copy = None
  <2>1. Dir(tree.root).access = "denied" /\ named' = {RootWay} /\ inventory' = {}
    BY <1>3 DEF Open
  <2>2. At(RootWay) = tree.root
    BY <1>1, RootAlone
  <2>3. LookedAt({RootWay}) = {}
    BY <2>1, <2>2 DEF LookedAt, LookedInto
  <2>4. FoundBy({RootWay})
    BY <1>1, <2>3, RootAlone, NothingLeft
  <2>5. inventory' = NodesBy({RootWay})
    BY <2>1 DEF NodesBy
  <2>6. AllFound'
    BY <1>1, <2>1, <2>4, <2>5, FoundMoves
  <2> QED
    BY <1>3, <2>6 DEF ListInv
<1>4. CASE pc' = "open" /\ tree.copy # None
  BY <1>1, <1>4 DEF ListInv
<1>5. CASE pc' = "refused"
  BY <1>5 DEF ListInv
<1>6. pc' \in {"listing", "open", "refused"}
  BY DEF Open
<1> QED
  BY <1>2, <1>3, <1>4, <1>5, <1>6

(* What is kept of a listing, and then of what it found. *)
THEOREM ListInvariant == Spec => []ListInv
<1>1. Init => ListInv
  BY DEF Init, ListInv
<1>2. ListInv /\ WalkInv /\ [Next]_vars => ListInv'
  <2> SUFFICES ASSUME ListInv, WalkInv, [Next]_vars PROVE ListInv'
    OBVIOUS
  <2>0. tree \in Trees
    BY DEF WalkInv, WalkTypes
  <2>1. CASE Open
    BY <2>1, ListAtOpen
  <2>2. ASSUME NEW e \in Here, ListEntry(e)
        PROVE  ListInv'
    <3>1. /\ pc = "listing" /\ tree' = tree
          /\ pc' = "refused" \/ Unlisted(e) \/ ListedOnly(e) \/ ListedWithin(e)
      BY <2>2, ListCases
    <3>2. ListState
      BY <3>1 DEF ListInv
    <3>3. CASE pc' = "refused"
      BY <3>3 DEF ListInv
    <3>4. CASE Unlisted(e) \/ ListedOnly(e) \/ ListedWithin(e)
      <4>1. ListState'
        BY <3>1, <3>2, <3>4, ListAtUnlisted, ListAtListedOnly, ListAtListedWithin
      <4>2. pc' = "listing"
        BY <3>1, <3>4 DEF Unlisted, ListedOnly, ListedWithin
      <4> QED
        BY <4>1, <4>2 DEF ListInv
    <3> QED
      BY <3>1, <3>3, <3>4
  <2>3. CASE Listed
    <3>1. ListState /\ stack = <<>> /\ pc' = "open" /\ UNCHANGED <<tree, named, inventory>>
      BY <2>3 DEF Listed, ListInv
    <3>2. \A w, e : ~ LeftIn(stack, ancestors, w, e)
      BY <3>1 DEF LeftIn
    <3>3. Grown(named, LookedAt(named)) /\ \A w \in LookedAt(named) : \A e \in Ons(w) : By(w, e) \in named
      BY <3>1, <3>2 DEF ListState, Pending
    <3>4. FoundBy(named)
      BY <2>0, <3>3, NothingLeft
    <3>5. AllFound'
      <4>1. PICK ways : ways = named
        OBVIOUS
      <4>2. named' = ways /\ FoundBy(ways) /\ inventory' = NodesBy(ways) /\ tree' = tree
        BY <3>1, <3>4, <4>1 DEF ListState
      <4> QED
        BY <4>2, FoundMoves
    <3> QED
      BY <3>1, <3>5 DEF ListInv
  <2>4. CASE (\E timeout \in Timeouts : Size(timeout)) \/ Expired \/ (\E e \in Here : MeasureEntry(e))
             \/ SizeMeasured \/ Tick \/ Ended \/ UNCHANGED vars
    <3>1. UNCHANGED <<tree, named, inventory>>
      BY <2>4 DEF Size, Expired, MeasureEntry, SizeMeasured, Tick, Ended, vars
    <3>2. CASE UNCHANGED vars
      <4>1. UNCHANGED <<stack, ancestors, pc>>
        BY <3>2 DEF vars, walk
      <4>2. PICK ways : ways = named
        OBVIOUS
      <4>3. ListState => ListState'
        BY <3>1, <4>1, <4>2, ListMoves DEF ListState
      <4>4. AllFound => AllFound'
        BY <3>1, <4>2, FoundMoves DEF AllFound
      <4> QED
        BY <3>1, <4>1, <4>3, <4>4 DEF ListInv
    <3>3. CASE ~ UNCHANGED vars
      <4>1. pc \in {"open", "measuring", "refused"} /\ pc' # "listing" /\ (pc = "refused" => pc' = "refused")
        <5>1. CASE \E timeout \in Timeouts : Size(timeout)
          BY <5>1 DEF Size, FallBack
        <5>2. CASE Expired \/ SizeMeasured \/ Tick \/ Ended
          BY <3>3, <5>2 DEF Expired, SizeMeasured, Tick, Ended, FallBack
        <5>3. CASE \E e \in Here : MeasureEntry(e)
          <6>1. PICK e \in Here : MeasureEntry(e)
            BY <5>3
          <6>2. pc = "measuring" /\ (FallBack("unreadable") \/ UNCHANGED pc)
            BY <6>1, MeasureCases DEF LookedIn, TurnedBack, CountedFile, Ignored
          <6> QED
            BY <6>2 DEF FallBack
        <5> QED
          BY <2>4, <3>3, <5>1, <5>2, <5>3
      <4>2. AllFound => AllFound'
        <5>1. PICK ways : ways = named
          OBVIOUS
        <5> QED
          BY <3>1, <5>1, FoundMoves DEF AllFound
      <4> QED
        BY <3>1, <4>1, <4>2 DEF ListInv
    <3> QED
      BY <3>2, <3>3
  <2> QED
    BY <2>1, <2>2, <2>3, <2>4 DEF Next
<1> QED
  BY <1>1, <1>2, WalkInvariant, PTL DEF Spec

(* Whatever links a store has, a listing that is done has each node by      *)
(* every way there is to it, and has been everywhere there is, through      *)
(* links that can be resolved (ListNodes).                                  *)
THEOREM AllListedEver == Spec => []AllListed
<1>1. ListInv => AllListed
  BY DEF ListInv, AllListed, AllFound, FoundBy, LookedAt
<1> QED
  BY <1>1, ListInvariant, PTL

(* However its links are laid, a walk of a store comes through none twice   *)
(* and a listing that is done has all that can be come to by links that can *)
(* be resolved (ListNodes, LinkedWalk).                                     *)
THEOREM EveryNodeListedEver == Spec => []EveryNodeListed
<1>1. NoLinkTwice /\ AllListed => EveryNodeListed
  BY DEF EveryNodeListed
<1> QED
  BY <1>1, NoLinkTwiceEver, AllListedEver, PTL

-----------------------------------------------------------------------------
(* What measuring has counted: of the files by the ways it came by, those   *)
(* that are not left, each byte of each once.                               *)
FilesBy(ways) == UNION {{<<w, e>> : e \in FilesIn(At(w))} : w \in ways}
Done(frames, trail, ways) == {f \in FilesBy(ways) : ~ LeftIn(frames, trail, f[1], f[2])}
Known(e) == e.kind # "dangling" /\ (e.kind = "file" => e.bytes # None)
Opened(ways) == \A w \in ways : Dir(At(w)).access = "open"
Understood(frames, trail, ways) ==
    \A w \in ways : \A e \in Dir(At(w)).entries : LeftIn(frames, trail, w, e) \/ Known(e)
Totals(bytes, files) == IsFiniteSet(BytesBy(files)) /\ bytes = Cardinality(BytesBy(files))
Counting(frames, trail, ways) ==
    /\ Grown(ways, ways) /\ FramedIn(frames, trail, ways) /\ Pending(frames, trail, ways, ways)
    /\ Opened(ways) /\ Understood(frames, trail, ways)
MeasureState == Counting(stack, ancestors, counted) /\ Totals(total, Done(stack, ancestors, counted))
MeasureInv == (pc = "measuring" => MeasureState) /\ SizeWhole

LEMMA InFilesBy ==
    ASSUME NEW ways, NEW f
    PROVE  f \in FilesBy(ways) <=> \E w \in ways : \E e \in FilesIn(At(w)) : f = <<w, e>>
BY DEF FilesBy

LEMMA InDone ==
    ASSUME NEW ways, NEW frames, NEW trail, NEW f
    PROVE  f \in Done(frames, trail, ways) <=>
             \E w \in ways : \E e \in FilesIn(At(w)) : f = <<w, e>> /\ ~ LeftIn(frames, trail, w, e)
<1>1. ASSUME NEW w, NEW e, f = <<w, e>>
      PROVE  f[1] = w /\ f[2] = e
  BY <1>1
<1> QED
  BY <1>1, InFilesBy DEF Done

LEMMA NoBytes == Totals(0, {})
<1>1. BytesBy({}) = {}
  BY DEF BytesBy
<1> QED
  BY <1>1, FS_EmptySet DEF Totals

(* One more file is as many bytes more. *)
LEMMA OneMoreFile ==
    ASSUME NEW bytes, NEW files, Totals(bytes, files), NEW w, NEW e, e.bytes \in Nat, <<w, e>> \notin files
    PROVE  Totals(bytes + e.bytes, files \cup {<<w, e>>})
<1>1. PICK f : f = <<w, e>>
  OBVIOUS
<1>2. PICK n \in Nat : n = e.bytes
  OBVIOUS
<1>3. f[2].bytes = n
  BY <1>1, <1>2
<1>4. PICK new : new = {<<f, k>> : k \in 1 .. n}
  OBVIOUS
<1>5. BytesBy(files \cup {f}) = BytesBy(files) \cup new
  BY <1>3, <1>4 DEF BytesBy
<1>6. BytesBy(files) \cap new = {}
  <2>1. \A b \in BytesBy(files) : \E g \in files : \E k : b = <<g, k>>
    BY DEF BytesBy
  <2>2. \A b \in new : \E k : b = <<f, k>>
    BY <1>4
  <2>3. ASSUME NEW b \in BytesBy(files), b \in new
        PROVE  FALSE
    <3>1. PICK g \in files : \E k : b = <<g, k>>
      BY <2>1
    <3>2. PICK j : b = <<f, j>>
      BY <2>2, <2>3
    <3>3. g = f
      BY <3>1, <3>2
    <3> QED
      BY <1>1, <3>1, <3>3
  <2> QED
    BY <2>3
<1>7. IsFiniteSet(new) /\ Cardinality(new) = n
  <2> DEFINE F == [k \in 1 .. n |-> <<f, k>>]
  <2>1. F \in [1 .. n -> new]
    BY <1>4
  <2>2. \A j, k \in 1 .. n : F[j] = F[k] => j = k
    OBVIOUS
  <2>3. \A b \in new : \E k \in 1 .. n : F[k] = b
    BY <1>4
  <2>4. F \in Bijection(1 .. n, new)
    <3> HIDE DEF F
    <3> QED
      BY <2>1, <2>2, <2>3 DEF Bijection, Injection, Surjection, IsInjective
  <2>5. IsFiniteSet(1 .. n) /\ Cardinality(1 .. n) = n
    BY FS_Interval, SMTT(40)
  <2> HIDE DEF F
  <2> QED
    BY <2>4, <2>5, FS_Bijection DEF ExistsBijection
<1>8. PICK old : old = BytesBy(files)
  OBVIOUS
<1>9. IsFiniteSet(old) /\ bytes = Cardinality(old) /\ old \cap new = {}
  BY <1>6, <1>8 DEF Totals
<1>10. IsFiniteSet(old \cup new) /\ Cardinality(old \cup new) = Cardinality(old) + Cardinality(new) - Cardinality(old \cap new)
  BY <1>7, <1>9, FS_Union
<1>11. Cardinality(old \cap new) = 0
  BY <1>9, FS_EmptySet
<1>12. Cardinality(old) \in Nat
  BY <1>9, FS_CardinalityType
<1>13. Cardinality(old \cup new) = bytes + n
  BY <1>7, <1>9, <1>10, <1>11, <1>12
<1> QED
  BY <1>1, <1>2, <1>5, <1>8, <1>10, <1>13 DEF Totals

LEMMA MeasureMoves ==
    ASSUME tree' = tree, NEW ways, counted' = ways, Counting(stack', ancestors', ways),
           Totals(total', Done(stack', ancestors', ways))
    PROVE  MeasureState'
<1>0. /\ Grown(ways, ways) /\ FramedIn(stack', ancestors', ways) /\ Pending(stack', ancestors', ways, ways)
      /\ Opened(ways) /\ Understood(stack', ancestors', ways)
  BY DEF Counting
<1>1. Grown(counted, counted)'
  <2>1. AllWays' = AllWays /\ RootWay' = RootWay
    BY DEF AllWays, Dirs, RootWay
  <2>2. ways \subseteq AllWays /\ RootWay \in ways
    BY <1>0 DEF Grown
  <2>3. \A w \in ways : w = RootWay \/ \E v \in ways : \E e \in Ons(v)' : w = By(v, e)
    <3>1. \A v : Ons(v)' = Ons(v)
      BY DEF Ons, Ways, At, Dir
    <3> QED
      BY <1>0, <3>1 DEF Grown
  <2>4. \A w \in ways : \A d \in ToSet(w.dirs) : d = At(w) \/ \E v \in ways : At(v) = d
    BY <1>0 DEF Grown
  <2> QED
    BY <2>1, <2>2, <2>3, <2>4 DEF Grown
<1>2. FramedIn(stack, ancestors, counted)'
  BY <1>0 DEF FramedIn, WayAt
<1>3. Pending(stack, ancestors, counted, counted)'
  BY <1>0 DEF Pending, LeftIn, WayAt, Ons, Ways, By, At, Dir
<1>4. Opened(counted)'
  BY <1>0 DEF Opened, At, Dir
<1>5. Understood(stack, ancestors, counted)'
  BY <1>0 DEF Understood, LeftIn, WayAt, Known, At, Dir
<1>6. Totals(total, Done(stack, ancestors, counted))'
  <2>1. Done(stack, ancestors, counted)' = Done(stack', ancestors', ways)
    BY DEF Done, FilesBy, FilesIn, LeftIn, WayAt, At, Dir
  <2> QED
    BY <2>1 DEF Totals, BytesBy
<1> QED
  BY <1>1, <1>2, <1>3, <1>4, <1>5, <1>6 DEF MeasureState, Counting

(* An entry that is no file, and no more left: the same files are counted.  *)
LEMMA NoFileLess ==
    ASSUME NEW ways, NEW frames, NEW trail, NEW others, NEW other, NEW v, NEW x, x.kind # "file",
           \A w, y : LeftIn(others, other, w, y) <=> LeftIn(frames, trail, w, y) /\ ~ (w = v /\ y = x)
    PROVE  Done(others, other, ways) = Done(frames, trail, ways)
<1>1. \A w : \A y \in FilesIn(At(w)) : LeftIn(others, other, w, y) <=> LeftIn(frames, trail, w, y)
  BY DEF FilesIn
<1>2. \A f : f \in Done(others, other, ways) <=> f \in Done(frames, trail, ways)
  BY <1>1, InDone
<1> QED
  BY <1>2

LEMMA UnderstoodOver ==
    ASSUME NEW ways, NEW frames, NEW trail, NEW others, NEW other, NEW v, NEW x, Known(x),
           Understood(frames, trail, ways),
           \A w, y : LeftIn(others, other, w, y) <=> LeftIn(frames, trail, w, y) /\ ~ (w = v /\ y = x)
    PROVE  Understood(others, other, ways)
BY DEF Understood

(* Passing over an entry that is no way on. *)
LEMMA CountingOver ==
    ASSUME WalkInv, NEW e \in Here, Counting(stack, ancestors, counted), Known(e), ~ (IsDirectory(e) /\ Enter(e)),
           EnteredFrom(e) \/ UNCHANGED ancestors, stack' = Incremented(Taken(e))
    PROVE  /\ Counting(stack', ancestors', counted)
           /\ Current \in counted /\ e \in Dir(At(Current)).entries /\ LeftIn(stack, ancestors, Current, e)
           /\ \A w, x : LeftIn(stack', ancestors', w, x) <=>
                          LeftIn(stack, ancestors, w, x) /\ ~ (w = Current /\ x = e)
<1>1. PICK ways : ways = counted
  OBVIOUS
<1>2. /\ Grown(ways, ways) /\ FramedIn(stack, ancestors, ways) /\ Pending(stack, ancestors, ways, ways)
      /\ Opened(ways) /\ Understood(stack, ancestors, ways)
  BY <1>1 DEF Counting
<1>3. /\ Current \in ways /\ e \in Dir(At(Current)).entries /\ LeftIn(stack, ancestors, Current, e)
      /\ e \notin Ons(Current)
  BY <1>2, CurrentIs
<1>4. /\ \A l : FramedIn(stack, ancestors, l) => FramedIn(stack', ancestors', l)
      /\ \A w, x : LeftIn(stack', ancestors', w, x) <=>
                     LeftIn(stack, ancestors, w, x) /\ ~ (w = Current /\ x = e)
  BY TrailKept, LeftOver
<1>5. Pending(stack', ancestors', ways, ways)
  BY <1>2, <1>3, <1>4, PendingOver
<1>6. Understood(stack', ancestors', ways)
  <2>1. PICK frames, trail, v : frames = stack' /\ trail = ancestors' /\ v = Current
    OBVIOUS
  <2>2. \A w, x : LeftIn(frames, trail, w, x) <=> LeftIn(stack, ancestors, w, x) /\ ~ (w = v /\ x = e)
    BY <1>4, <2>1
  <2>3. Understood(frames, trail, ways)
    BY <1>2, <2>2, UnderstoodOver, SMTT(40)
  <2> QED
    BY <2>1, <2>3
<1>7. FramedIn(stack', ancestors', ways)
  BY <1>2, <1>4
<1> QED
  BY <1>1, <1>2, <1>3, <1>4, <1>5, <1>6, <1>7 DEF Counting

LEMMA MeasureAtNoFile ==
    ASSUME WalkInv, MeasureState, tree' = tree, NEW e \in Here, TurnedBack(e) \/ Ignored(e)
    PROVE  MeasureState'
<1>1. PICK ways : ways = counted
  OBVIOUS
<1>2. Counting(stack, ancestors, ways) /\ Totals(total, Done(stack, ancestors, ways))
  BY <1>1 DEF MeasureState
<1>3. /\ e.kind # "file" /\ Known(e) /\ ~ (IsDirectory(e) /\ Enter(e)) /\ counted' = ways /\ total' = total
      /\ stack' = Incremented(Taken(e))
  BY <1>1 DEF TurnedBack, Ignored, IsDirectory, Known
<1>4. EnteredFrom(e) \/ UNCHANGED ancestors
  BY DEF TurnedBack, Ignored
<1>5. /\ Counting(stack', ancestors', ways)
      /\ \A w, x : LeftIn(stack', ancestors', w, x) <=>
                     LeftIn(stack, ancestors, w, x) /\ ~ (w = Current /\ x = e)
  BY <1>1, <1>2, <1>3, <1>4, CountingOver
<1>6. Done(stack', ancestors', ways) = Done(stack, ancestors, ways)
  <2>1. PICK frames, trail, v : frames = stack' /\ trail = ancestors' /\ v = Current
    OBVIOUS
  <2>2. \A w, x : LeftIn(frames, trail, w, x) <=> LeftIn(stack, ancestors, w, x) /\ ~ (w = v /\ x = e)
    BY <1>5, <2>1
  <2>3. Done(frames, trail, ways) = Done(stack, ancestors, ways)
    <3>1. e.kind # "file"
      BY <1>3
    <3> QED
      BY <2>2, <3>1, NoFileLess, SMTT(40)
  <2> QED
    BY <2>1, <2>3
<1>7. Totals(total', Done(stack', ancestors', ways))
  BY <1>2, <1>3, <1>6
<1> QED
  BY <1>3, <1>5, <1>7, MeasureMoves

LEMMA MeasureAtFile ==
    ASSUME WalkInv, MeasureState, tree' = tree, NEW e \in Here, CountedFile(e)
    PROVE  MeasureState'
<1>1. PICK ways : ways = counted
  OBVIOUS
<1>2. Counting(stack, ancestors, ways) /\ Totals(total, Done(stack, ancestors, ways))
  BY <1>1 DEF MeasureState
<1>3. /\ e.kind = "file" /\ Known(e) /\ ~ (IsDirectory(e) /\ Enter(e)) /\ counted' = ways
      /\ stack' = Incremented(Taken(e)) /\ UNCHANGED ancestors /\ total' = total + e.bytes /\ e.bytes # None
  BY <1>1 DEF CountedFile, IsDirectory, Known
<1>4. /\ Counting(stack', ancestors', ways)
      /\ Current \in ways /\ e \in Dir(At(Current)).entries /\ LeftIn(stack, ancestors, Current, e)
      /\ \A w, x : LeftIn(stack', ancestors', w, x) <=>
                     LeftIn(stack, ancestors, w, x) /\ ~ (w = Current /\ x = e)
  BY <1>1, <1>2, <1>3, CountingOver
<1>5. e.bytes \in Nat
  <2>1. /\ tree \in Trees /\ LastFrame.dir \in Dirs /\ e \in Dir(LastFrame.dir).entries
    BY AtEntry DEF WalkInv, WalkTypes
  <2>2. e.bytes \in Nat \cup {None}
    BY <2>1, TreesAssumption DEF Dirs, Dir
  <2> QED
    BY <1>3, <2>2
<1>6. PICK files, v : files = Done(stack, ancestors, ways) /\ v = Current
  OBVIOUS
<1>7. <<v, e>> \notin files
  <2>1. ASSUME NEW w, NEW x, <<v, e>> = <<w, x>>
        PROVE  w = v /\ x = e
    BY <2>1
  <2> QED
    BY <1>4, <1>6, <2>1, InDone
<1>8. Done(stack', ancestors', ways) = files \cup {<<v, e>>}
  <2>1. e \in FilesIn(At(v)) /\ v \in ways
    BY <1>3, <1>4, <1>6 DEF FilesIn
  <2>2. ASSUME NEW w, NEW x
        PROVE  ~ LeftIn(stack', ancestors', w, x) <=> ~ LeftIn(stack, ancestors, w, x) \/ (w = v /\ x = e)
    BY <1>4, <1>6
  <2>3. ASSUME NEW f
        PROVE  f \in Done(stack', ancestors', ways) <=> f \in files \/ f = <<v, e>>
    <3>1. f \in Done(stack', ancestors', ways) <=>
            \E w \in ways : \E x \in FilesIn(At(w)) : f = <<w, x>> /\ ~ LeftIn(stack', ancestors', w, x)
      BY InDone
    <3>2. f \in files <=> \E w \in ways : \E x \in FilesIn(At(w)) : f = <<w, x>> /\ ~ LeftIn(stack, ancestors, w, x)
      BY <1>6, InDone
    <3> QED
      BY <2>1, <2>2, <3>1, <3>2
  <2> QED
    BY <2>3
<1>9. Totals(total', Done(stack', ancestors', ways))
  <2>1. Totals(total, files)
    BY <1>2, <1>6
  <2>2. Totals(total + e.bytes, files \cup {<<v, e>>})
    BY <1>5, <1>7, <2>1, OneMoreFile
  <2> QED
    BY <1>3, <1>8, <2>2
<1> QED
  BY <1>3, <1>4, <1>9, MeasureMoves

LEMMA MeasureAtLookedIn ==
    ASSUME WalkInv, MeasureState, tree' = tree, NEW e \in Here, LookedIn(e)
    PROVE  MeasureState'
<1>1. PICK ways, more, new : ways = counted /\ more = counted' /\ new = By(Current, e)
  OBVIOUS
<1>2. /\ Grown(ways, ways) /\ FramedIn(stack, ancestors, ways) /\ Pending(stack, ancestors, ways, ways)
      /\ Opened(ways) /\ Understood(stack, ancestors, ways)
      /\ Totals(total, Done(stack, ancestors, ways))
  BY <1>1 DEF MeasureState, Counting
<1>3. /\ IsDirectory(e) /\ Enter(e) /\ Dir(e.to).access = "open" /\ EnteredFrom(e) /\ total' = total
      /\ stack' = Incremented(Append(Taken(e), Inside(e.to, NameOf(e))))
  BY DEF LookedIn
<1>4. Current \in ways /\ e \in Ons(Current) /\ WayTo(e) = new
  BY <1>1, <1>2, <1>3, CurrentIs
<1>5. more = ways \cup {new}
  BY <1>1, <1>4 DEF LookedIn
<1>6. tree \in Trees /\ ways \subseteq AllWays
  BY <1>2 DEF WalkInv, WalkTypes, Grown
<1>7. At(new) = e.to
  BY <1>1, <1>4, <1>6, ByIs
<1>8. /\ \A l : FramedIn(stack, ancestors, l) /\ new \in l => FramedIn(stack', ancestors', l)
      /\ \A w, x : LeftIn(stack', ancestors', w, x) <=>
                     \/ LeftIn(stack, ancestors, w, x) /\ ~ (w = Current /\ x = e)
                     \/ w = new /\ x \in Dir(e.to).entries
  BY <1>3, <1>4, LeftWithin
<1>9. new \notin ways /\ Pending(stack', ancestors', more, more)
  BY <1>1, <1>2, <1>4, <1>5, <1>8, PendingInside
<1>10. Grown(more, more)
  BY <1>1, <1>2, <1>4, <1>5, <1>6, GrownMore
<1>11. FramedIn(stack', ancestors', more)
  <2>1. FramedIn(stack, ancestors, more)
    BY <1>2, <1>5 DEF FramedIn
  <2> QED
    BY <1>5, <1>8, <2>1
<1>12. Opened(more)
  BY <1>2, <1>3, <1>5, <1>7 DEF Opened
<1>13. Understood(stack', ancestors', more)
  <2>1. Known(e)
    BY <1>3 DEF Known, IsDirectory
  <2>2. ASSUME NEW w \in more, NEW x \in Dir(At(w)).entries
        PROVE  LeftIn(stack', ancestors', w, x) \/ Known(x)
    <3>1. CASE w = new
      BY <1>7, <1>8, <2>2, <3>1
    <3>2. CASE w \in ways
      <4>1. LeftIn(stack, ancestors, w, x) \/ Known(x)
        BY <1>2, <2>2, <3>2 DEF Understood
      <4> QED
        BY <1>8, <2>1, <4>1
    <3> QED
      BY <1>5, <2>2, <3>1, <3>2
  <2> QED
    BY <2>2 DEF Understood
<1>14. Done(stack', ancestors', more) = Done(stack, ancestors, ways)
  <2>1. ASSUME NEW w, NEW x \in FilesIn(At(w))
        PROVE  w \in more /\ ~ LeftIn(stack', ancestors', w, x) <=> w \in ways /\ ~ LeftIn(stack, ancestors, w, x)
    <3>1. x # e /\ x \in Dir(At(w)).entries
      BY <1>3 DEF FilesIn, IsDirectory
    <3> QED
      BY <1>5, <1>7, <1>8, <1>9, <3>1
  <2>2. \A f : f \in Done(stack', ancestors', more) <=> f \in Done(stack, ancestors, ways)
    BY <2>1, InDone
  <2> QED
    BY <2>2
<1>15. Counting(stack', ancestors', more) /\ Totals(total', Done(stack', ancestors', more))
  BY <1>2, <1>3, <1>9, <1>10, <1>11, <1>12, <1>13, <1>14 DEF Counting
<1> QED
  BY <1>1, <1>15, MeasureMoves

LEMMA MeasureBegins ==
    ASSUME WalkInv, tree' = tree, BeginWalk(tree.root), Dir(tree.root).access = "open", counted' = {RootWay}
    PROVE  MeasureState'
<1>1. PICK ways : ways = {RootWay}
  OBVIOUS
<1>2. tree \in Trees
  BY DEF WalkInv, WalkTypes
<1>3. RootWay \in AllWays /\ At(RootWay) = tree.root /\ Grown(ways, ways)
  BY <1>1, <1>2, RootAlone
<1>4. /\ FramedIn(stack', ancestors', ways)
      /\ \A w, x : LeftIn(stack', ancestors', w, x) <=> w = RootWay /\ x \in Dir(tree.root).entries
  BY <1>1, <1>2, LeftAtFirst
<1>5. Pending(stack', ancestors', ways, ways)
  <2>1. ASSUME NEW e \in Ons(RootWay)
        PROVE  By(RootWay, e) # RootWay /\ e \in Dir(tree.root).entries
    BY <1>2, <1>3, ByIs
  <2> QED
    BY <1>1, <1>4, <2>1 DEF Pending
<1>6. Opened(ways) /\ Understood(stack', ancestors', ways)
  BY <1>1, <1>3, <1>4 DEF Opened, Understood
<1>7. Done(stack', ancestors', ways) = {}
  <2>1. \A e \in FilesIn(At(RootWay)) : LeftIn(stack', ancestors', RootWay, e)
    BY <1>3, <1>4 DEF FilesIn
  <2>2. \A f : f \notin Done(stack', ancestors', ways)
    BY <1>1, <2>1, InDone
  <2> QED
    BY <2>2
<1>8. Totals(total', Done(stack', ancestors', ways))
  BY <1>7, NoBytes DEF BeginWalk
<1> QED
  BY <1>1, <1>3, <1>4, <1>5, <1>6, <1>8, MeasureMoves DEF Counting

(* With nothing left, what was counted is all there is. *)
Honest(bytes, ways) ==
    /\ AreAll(ways, ways)
    /\ \A w \in ways : Dir(At(w)).access = "open" /\ \A e \in Dir(At(w)).entries : Known(e)
    /\ bytes = Cardinality(BytesBy(FilesBy(ways)))
    /\ \A d \in Reachable(DOMAIN tree.dirs) : \E w \in ways : At(w) = d

LEMMA AllCounted ==
    ASSUME WalkInv, MeasureState, stack = <<>>
    PROVE  Honest(total, counted)
<1>1. PICK ways : ways = counted
  OBVIOUS
<1>2. /\ Grown(ways, ways) /\ Pending(stack, ancestors, ways, ways)
      /\ Opened(ways) /\ Understood(stack, ancestors, ways)
      /\ Totals(total, Done(stack, ancestors, ways))
  BY <1>1 DEF MeasureState, Counting
<1>3. \A w, e : ~ LeftIn(stack, ancestors, w, e)
  BY DEF LeftIn
<1>4. \A w \in ways : \A e \in Ons(w) : By(w, e) \in ways
  BY <1>2, <1>3 DEF Pending
<1>5. AreAll(ways, ways)
  BY <1>2, <1>4, AllComeBy
<1>6. \A d \in Reachable(DOMAIN tree.dirs) : \E w \in ways : At(w) = d
  BY <1>2, <1>4, AllReached DEF WalkInv, WalkTypes
<1>7. Done(stack, ancestors, ways) = FilesBy(ways)
  BY <1>3 DEF Done
<1>8. \A w \in ways : Dir(At(w)).access = "open" /\ \A e \in Dir(At(w)).entries : Known(e)
  BY <1>2, <1>3 DEF Opened, Understood
<1> QED
  BY <1>1, <1>2, <1>5, <1>6, <1>7, <1>8 DEF Honest, Totals

LEMMA HonestMoves ==
    ASSUME tree' = tree, NEW ways, NEW bytes, Honest(bytes, ways), counted' = ways, given'.bytes = bytes
    PROVE  SizeWhole'
<1>1. AreAll(counted, counted)'
  <2>1. \A v : Ons(v)' = Ons(v)
    BY DEF Ons, Ways, At, Dir
  <2>2. RootWay' = RootWay
    BY DEF RootWay
  <2> QED
    BY <2>1, <2>2 DEF Honest, AreAll
<1>2. \A w \in counted' : Dir(At(w)).access' = "open" /\ \A e \in Dir(At(w)).entries' : Known(e)
  BY DEF Honest, Dir, At
<1>3. given'.bytes = Cardinality(BytesBy(FilesBy(counted)'))
  <2>1. FilesBy(counted)' = FilesBy(ways)
    BY DEF FilesBy, FilesIn, Dir, At
  <2> QED
    BY <2>1 DEF Honest
<1>4. Reachable(DOMAIN tree.dirs)' = Reachable(DOMAIN tree.dirs)
  BY DEF Reachable, Closed, Ways, Dir
<1>5. \A d \in Reachable(DOMAIN tree.dirs)' : \E w \in counted' : At(w) = d
  BY <1>4 DEF Honest
<1> QED
  BY <1>1, <1>2, <1>3, <1>5 DEF SizeWhole, FilesBy, Known, At, BytesBy

LEMMA SizeStays ==
    ASSUME SizeWhole, UNCHANGED <<tree, counted, given>>
    PROVE  SizeWhole'
<1>1. CASE (given # None) /\ given.basis = "measured"
  <2>1. PICK ways, bytes : ways = counted /\ bytes = given.bytes
    OBVIOUS
  <2>2. Honest(bytes, ways)
    BY <1>1, <2>1 DEF SizeWhole, Honest, FilesBy, Known
  <2> QED
    BY <2>1, <2>2, HonestMoves
<1>2. CASE ~ ((given # None) /\ given.basis = "measured")
  BY <1>2 DEF SizeWhole
<1> QED
  BY <1>1, <1>2

LEMMA NotMeasured ==
    ASSUME NEW cut, FallBack(cut)
    PROVE  MeasureInv'
<1>1. pc' # "measuring" /\ given'.basis # "measured"
  BY DEF FallBack, Declared
<1> QED
  BY <1>1 DEF MeasureInv, SizeWhole

(* What is kept of a measuring, and then of the size it gave. *)
THEOREM MeasureInvariant == Spec => []MeasureInv
<1>1. Init => MeasureInv
  BY DEF Init, MeasureInv, SizeWhole
<1>2. MeasureInv /\ WalkInv /\ TimeInv /\ [Next]_vars => MeasureInv'
  <2> SUFFICES ASSUME MeasureInv, WalkInv, TimeInv, [Next]_vars PROVE MeasureInv'
    OBVIOUS
  <2>1. CASE Open \/ Listed \/ (\E e \in Here : ListEntry(e))
    <3>1. UNCHANGED <<tree, counted, given>> /\ pc' # "measuring"
      BY <2>1 DEF Open, Listed, ListEntry
    <3> QED
      BY <3>1, SizeStays DEF MeasureInv
  <2>2. ASSUME NEW timeout \in Timeouts, Size(timeout)
        PROVE  MeasureInv'
    <3>1. CASE Dir(tree.root).access # "open"
      BY <2>2, <3>1, NotMeasured DEF Size
    <3>2. CASE Dir(tree.root).access = "open"
      <4>1. tree' = tree /\ BeginWalk(tree.root) /\ given' = None /\ counted' = {RootWay}
        BY <2>2, <3>2 DEF Size
      <4>2. MeasureState'
        BY <3>2, <4>1, MeasureBegins
      <4> QED
        BY <4>1, <4>2 DEF MeasureInv, SizeWhole
    <3> QED
      BY <3>1, <3>2
  <2>3. CASE Expired
    BY <2>3, NotMeasured DEF Expired
  <2>4. ASSUME NEW e \in Here, MeasureEntry(e)
        PROVE  MeasureInv'
    <3>1. /\ pc = "measuring" /\ tree' = tree
          /\ FallBack("unreadable") \/ LookedIn(e) \/ TurnedBack(e) \/ CountedFile(e) \/ Ignored(e)
      BY <2>4, MeasureCases
    <3>2. MeasureState /\ given = None
      BY <3>1 DEF MeasureInv, TimeInv
    <3>3. CASE FallBack("unreadable")
      BY <3>3, NotMeasured
    <3>4. CASE LookedIn(e) \/ TurnedBack(e) \/ CountedFile(e) \/ Ignored(e)
      <4>1. MeasureState'
        BY <3>1, <3>2, <3>4, MeasureAtLookedIn, MeasureAtNoFile, MeasureAtFile
      <4>2. given' = None
        BY <3>2, <3>4 DEF LookedIn, TurnedBack, CountedFile, Ignored
      <4> QED
        BY <4>1, <4>2 DEF MeasureInv, SizeWhole
    <3> QED
      BY <3>1, <3>3, <3>4
  <2>5. CASE SizeMeasured
    <3>1. pc' = "open" /\ UNCHANGED <<tree, counted>> /\ given' = Measured(total) /\ MeasureState /\ stack = <<>>
      BY <2>5 DEF SizeMeasured, MeasureInv
    <3>2. PICK ways, bytes : ways = counted /\ bytes = total
      OBVIOUS
    <3>3. Honest(bytes, ways) /\ given'.bytes = bytes /\ counted' = ways
      BY <3>1, <3>2, AllCounted DEF Measured
    <3>4. SizeWhole'
      BY <3>1, <3>3, HonestMoves
    <3> QED
      BY <3>1, <3>4 DEF MeasureInv
  <2>6. CASE Tick \/ Ended \/ UNCHANGED vars
    <3>1. UNCHANGED <<tree, pc, stack, ancestors, total, counted, given>>
      BY <2>6 DEF Tick, Ended, vars, walk
    <3>2. PICK ways : ways = counted
      OBVIOUS
    <3>3. MeasureState => MeasureState'
      BY <3>1, <3>2, MeasureMoves DEF MeasureState
    <3>4. SizeWhole'
      BY <3>1, SizeStays DEF MeasureInv
    <3> QED
      BY <3>1, <3>3, <3>4 DEF MeasureInv
  <2> QED
    BY <2>1, <2>2, <2>3, <2>4, <2>5, <2>6 DEF Next
<1> QED
  BY <1>1, <1>2, WalkInvariant, TimeInvariant, PTL DEF Spec

(* Whatever links a store has, a size that is said to be measured is the    *)
(* bytes of the files by every way there is through links that can be       *)
(* resolved, and no directory or file along them could not be read          *)
(* (StoredSizeBytes).  It says nothing of what is behind the other links,   *)
(* which the code leaves out.                                               *)
THEOREM SizeWholeEver == Spec => []SizeWhole
<1>1. MeasureInv => SizeWhole
  BY DEF MeasureInv
<1> QED
  BY <1>1, MeasureInvariant, PTL

(* A size is that of all that can be come to through links that can be      *)
(* resolved, or says that it is not, and then not for want of time unless   *)
(* the caller's time was up (Dataset::Size).                                *)
THEOREM SizeHonestEver == Spec => []SizeHonest
<1>1. SizeWhole /\ TimeoutHonoured => SizeHonest
  BY DEF SizeHonest
<1> QED
  BY <1>1, SizeWholeEver, TimeoutHonouredEver, PTL
=============================================================================
