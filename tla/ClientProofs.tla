---------------------------- MODULE ClientProofs ----------------------------
(***************************************************************************)
(* Proofs about the client: its threads are those of VideoOutput, and the  *)
(* way of a frame from the renderer to a window keeps the invariants of    *)
(* VideoOutputProperties, for any number of packets, windows and frames in *)
(* the decoder.                                                            *)
(*                                                                         *)
(* The invariant VideoInv adds what they rest on.  A frame is new when it  *)
(* is submitted: everything that is in the decoder, in its callback or in  *)
(* a window came earlier (OldFrames), and the decoder returns frames in    *)
(* order (QueueSorted, WindowsBehind), so no two holders get the same one. *)
(***************************************************************************)
EXTENDS ClientProperties, SequenceLemmas

Queued == 1 .. Len(inDecoder)

\* x was submitted before the packet that is being handled.
Handling == pc \in {"submit", "decode"}
Old(x) == x <= mCurrentPts /\ (Handling => x < mCurrentPts)

OldFrames == /\ mCurrentPts <= packets
             /\ Handling => mCurrentPts = packets
             /\ \A q \in Queued : Old(inDecoder[q])
             /\ Old(frame) /\ \A k \in Views : Old(views[k].image)

QueueSorted == \A q, r \in Queued : q < r => inDecoder[q] < inDecoder[r]

\* What was decoded came before what is still in the decoder, and what the
\* windows have before what the callback still has for them.
WindowsBehind == /\ \A q \in Queued :
                      /\ frame < inDecoder[q]
                      /\ \A k \in Views : views[k].image < inDecoder[q]
                 /\ image # 0 => \A k \in Views : views[k].image < image

\* What the main thread and the slots rely on.
Windows == /\ slots = Len(views)
           /\ frame # 0 => slot > 0
           /\ pc = "geometry" => Len(views) < MaxViews
           /\ \A k \in Views : views[k].texture = views[k].image

VideoInv == /\ TypeOK /\ OldFrames /\ QueueSorted /\ WindowsBehind /\ Windows
            /\ PtsNotBehind /\ ImagesBalanced

\* The numbers the invariant compares.
LEMMA Numbers ==
  ASSUME TypeOK
  PROVE  /\ MaxPackets \in Nat /\ packets \in Nat /\ mCurrentPts \in Nat
         /\ frame \in Nat /\ image \in Nat /\ imagePts \in Nat
         /\ \A q \in Queued : inDecoder[q] \in Nat
         /\ \A k \in Views : views[k].image \in Nat /\ views[k].texture \in Nat
<1>1. \A q \in Queued : inDecoder[q] \in Frames
  BY DEF TypeOK, Queued
<1>2. \A k \in Views : views[k] \in View
  BY DEF TypeOK, Views
<1>3. \A k \in Views : views[k].image \in Nat /\ views[k].texture \in Nat
  BY <1>2, BoundsAssumption DEF View
<1>4. \A q \in Queued : inDecoder[q] \in Nat
  BY <1>1, BoundsAssumption DEF Frames
<1> QED
  BY <1>3, <1>4, BoundsAssumption DEF TypeOK, None

-----------------------------------------------------------------------------
LEMMA InitInv == InitVideo => VideoInv
<1> SUFFICES ASSUME InitVideo PROVE VideoInv
  OBVIOUS
<1>1. refs \in [Frames -> Nat]
  BY DEF InitVideo
<1>a. inDecoder \in Seq(Frames) /\ Len(inDecoder) = 0
  BY DEF InitVideo
<1>b. views \in Seq(View) /\ Len(views) = 0
  BY DEF InitVideo
<1>2. TypeOK
  <2>1. packets = 0 /\ mCurrentPts = 0 /\ frame = 0 /\ image = 0 /\ imagePts = 0
        /\ slot = 0 /\ calls = 0 /\ slots = 0
    BY DEF InitVideo
  <2>2. pc = "idle" /\ geometry = FALSE /\ mDecoder = FALSE
    BY DEF InitVideo
  <2>3. 0 \in 0 .. MaxPackets /\ 0 \in 0 .. InFlight /\ 0 \in 0 .. MaxViews
        /\ 0 \in Nat
    BY BoundsAssumption
  <2> QED
    BY <1>1, <1>a, <1>b, <2>1, <2>2, <2>3 DEF TypeOK, None
<1>3. OldFrames /\ QueueSorted /\ WindowsBehind /\ Windows /\ PtsNotBehind
  BY BoundsAssumption
  DEF InitVideo, OldFrames, Queued, Old, Handling, Views, QueueSorted,
      WindowsBehind, Windows, PtsNotBehind
<1>4. ImagesBalanced
  BY BoundsAssumption
  DEF InitVideo, ImagesBalanced, Views, Held, CallHolds, ViewHolds, Frames
<1> QED
  BY <1>2, <1>3, <1>4 DEF VideoInv

-----------------------------------------------------------------------------
(* The renderer's steps leave the callback, the windows and the counts.    *)

LEMMA SameHolders ==
  ASSUME UNCHANGED <<image, views, refs>>, ImagesBalanced
  PROVE  ImagesBalanced'
BY DEF ImagesBalanced, Held, CallHolds, ViewHolds, Views

LEMMA InfoInv ==
  ASSUME VideoInv, NEW known \in BOOLEAN, Info(known)
  PROVE  VideoInv'
<1>1. TypeOK'
  BY DEF VideoInv, Info, TypeOK, callVars, viewVars
<1>2. (OldFrames /\ QueueSorted /\ WindowsBehind /\ Windows /\ PtsNotBehind)'
  BY DEF VideoInv, Info, callVars, viewVars, OldFrames, Queued, Old,
         Handling, Views,
         QueueSorted, WindowsBehind, Windows, PtsNotBehind
<1>3. ImagesBalanced'
  BY SameHolders DEF VideoInv, Info, callVars, viewVars
<1> QED
  BY <1>1, <1>2, <1>3 DEF VideoInv

LEMMA DropPacketInv ==
  ASSUME VideoInv, DropPacket
  PROVE  VideoInv'
<1>1. TypeOK'
  BY BoundsAssumption DEF VideoInv, DropPacket, TypeOK, callVars, viewVars
<1>2. OldFrames'
  <2>1. packets' = packets + 1 /\ packets \in Nat /\ mCurrentPts \in Nat
        /\ UNCHANGED <<mCurrentPts, inDecoder, frame, views>>
    BY Numbers DEF VideoInv, DropPacket, callVars, viewVars
  <2>2. ~Handling /\ ~Handling'
    BY DEF DropPacket, Handling
  <2> QED
    BY <2>1, <2>2 DEF VideoInv, OldFrames, Queued, Old, Views
<1>3. (QueueSorted /\ WindowsBehind /\ Windows /\ PtsNotBehind)'
  BY DEF VideoInv, DropPacket, callVars, viewVars, Queued, Views, QueueSorted,
         WindowsBehind, Windows, PtsNotBehind
<1>4. ImagesBalanced'
  BY SameHolders DEF VideoInv, DropPacket, callVars, viewVars
<1> QED
  BY <1>1, <1>2, <1>3, <1>4 DEF VideoInv

LEMMA HandlePacketInv ==
  ASSUME VideoInv, HandlePacket
  PROVE  VideoInv'
<1>1. TypeOK'
  BY BoundsAssumption
  DEF VideoInv, HandlePacket, PtsOfPacket, TypeOK, callVars, viewVars
<1>2. OldFrames'
  BY Numbers
  DEF VideoInv, HandlePacket, PtsOfPacket, callVars, viewVars, OldFrames,
      Queued, Old, Handling, Views
<1>3. (QueueSorted /\ WindowsBehind /\ Windows /\ PtsNotBehind)'
  BY DEF VideoInv, HandlePacket, callVars, viewVars, Queued, Views,
         QueueSorted, WindowsBehind, Windows, PtsNotBehind
<1>4. ImagesBalanced'
  BY SameHolders DEF VideoInv, HandlePacket, callVars, viewVars
<1> QED
  BY <1>1, <1>2, <1>3, <1>4 DEF VideoInv

LEMMA NoFrameInv ==
  ASSUME VideoInv, NoFrame
  PROVE  VideoInv'
<1>1. TypeOK'
  BY DEF VideoInv, NoFrame, TypeOK, callVars, viewVars
<1>2. (OldFrames /\ QueueSorted /\ WindowsBehind /\ Windows /\ PtsNotBehind)'
  BY DEF VideoInv, NoFrame, callVars, viewVars, OldFrames, Queued, Old,
         Handling, Views,
         QueueSorted, WindowsBehind, Windows, PtsNotBehind
<1>3. ImagesBalanced'
  BY SameHolders DEF VideoInv, NoFrame, callVars, viewVars
<1> QED
  BY <1>1, <1>2, <1>3 DEF VideoInv

LEMMA HasFrameInv ==
  ASSUME VideoInv, HasFrame
  PROVE  VideoInv'
<1>1. TypeOK'
  BY DEF VideoInv, HasFrame, TypeOK, callVars, viewVars
<1>2. (OldFrames /\ QueueSorted /\ WindowsBehind /\ Windows /\ PtsNotBehind)'
  BY DEF VideoInv, HasFrame, callVars, viewVars, OldFrames, Queued, Old,
         Handling, Views, QueueSorted, WindowsBehind, Windows, PtsNotBehind
<1>3. ImagesBalanced'
  BY SameHolders DEF VideoInv, HasFrame, callVars, viewVars
<1> QED
  BY <1>1, <1>2, <1>3 DEF VideoInv

LEMMA DecodeFailsInv ==
  ASSUME VideoInv, DecodeFrame(FALSE)
  PROVE  VideoInv'
<1>1. TypeOK'
  BY DEF VideoInv, DecodeFrame, TypeOK, callVars, viewVars
<1>2. (OldFrames /\ QueueSorted /\ WindowsBehind /\ Windows /\ PtsNotBehind)'
  BY DEF VideoInv, DecodeFrame, callVars, viewVars, OldFrames, Queued, Old,
         Handling, Views, QueueSorted, WindowsBehind, Windows, PtsNotBehind
<1>3. ImagesBalanced'
  BY SameHolders DEF VideoInv, DecodeFrame, callVars, viewVars
<1> QED
  BY <1>1, <1>2, <1>3 DEF VideoInv

LEMMA SubmitInv ==
  ASSUME VideoInv, DecodeFrame(TRUE)
  PROVE  VideoInv'
<1>1. packets \in Frames /\ packets = mCurrentPts /\ packets \in Nat
  BY Numbers, BoundsAssumption
  DEF VideoInv, TypeOK, DecodeFrame, OldFrames, Old, Handling, Frames
<1>2. inDecoder \in Seq(Frames) /\ inDecoder' = Append(inDecoder, packets)
  BY DEF VideoInv, TypeOK, DecodeFrame
<1>3. /\ Len(inDecoder') = Len(inDecoder) + 1
      /\ \A q \in Queued : inDecoder'[q] = inDecoder[q]
      /\ inDecoder'[Len(inDecoder) + 1] = packets
      /\ inDecoder' \in Seq(Frames)
  BY <1>1, <1>2 DEF Queued
<1>4. \A q \in Queued' : \/ q = Len(inDecoder) + 1 /\ inDecoder'[q] = packets
                         \/ q \in Queued /\ inDecoder'[q] = inDecoder[q]
  BY <1>2, <1>3 DEF Queued
<1>5. TypeOK'
  BY <1>3, BoundsAssumption
  DEF VideoInv, DecodeFrame, TypeOK, callVars, viewVars
<1>6. \A q \in Queued : inDecoder[q] < packets
  BY <1>1 DEF VideoInv, OldFrames, Old, Handling, DecodeFrame
<1>7. frame < packets /\ \A k \in Views : views[k].image < packets
  BY <1>1 DEF VideoInv, OldFrames, Old, Handling, DecodeFrame
<1>8. OldFrames'
  BY <1>1, <1>4, Numbers
  DEF VideoInv, DecodeFrame, OldFrames, Old, Handling, Views, callVars, viewVars
<1>9. QueueSorted'
  BY <1>3, <1>4, <1>6 DEF VideoInv, QueueSorted, Queued
<1>10. WindowsBehind'
  BY <1>4, <1>7
  DEF VideoInv, DecodeFrame, WindowsBehind, Views, callVars, viewVars
<1>11. (Windows /\ PtsNotBehind)'
  BY DEF VideoInv, DecodeFrame, callVars, viewVars, Views, Windows, PtsNotBehind
<1>12. ImagesBalanced'
  BY SameHolders DEF VideoInv, DecodeFrame, callVars, viewVars
<1> QED
  BY <1>5, <1>8, <1>9, <1>10, <1>11, <1>12 DEF VideoInv

-----------------------------------------------------------------------------
(* The decoder's thread.                                                   *)

LEMMA DecodedInv ==
  ASSUME VideoInv, NEW ok \in BOOLEAN, Decoded(ok)
  PROVE  VideoInv'
<1> DEFINE f == Head(inDecoder)
<1>1. inDecoder \in Seq(Frames) /\ inDecoder # <<>> /\ inDecoder' = Tail(inDecoder)
  BY DEF VideoInv, TypeOK, Decoded
<1>2. /\ f = inDecoder[1] /\ f \in Frames /\ 1 \in Queued
      /\ Len(inDecoder') = Len(inDecoder) - 1
      /\ inDecoder' \in Seq(Frames)
      /\ \A q \in Queued' : q + 1 \in Queued /\ inDecoder'[q] = inDecoder[q + 1]
  BY <1>1 DEF Queued
<1>3. frame' = f /\ image' \in {None, f} /\ imagePts' = mCurrentPts
  BY DEF Decoded, None
<1>4. f \in Nat /\ f # 0 /\ Old(f)
  BY <1>2, BoundsAssumption DEF VideoInv, OldFrames, Frames
<1>5. \A k \in Views : views[k].image < f
  BY <1>2 DEF VideoInv, WindowsBehind
<1>6. frame = 0 /\ image = 0
  BY DEF VideoInv, TypeOK, Decoded, None
<1>7. \A q \in Queued' : f < inDecoder'[q]
  BY <1>2, <1>1 DEF VideoInv, QueueSorted, Queued
<1>8. refs[f] = 0
  BY <1>2, <1>4, <1>5, <1>6, Numbers
  DEF VideoInv, ImagesBalanced, Held, CallHolds, ViewHolds
<1>9. /\ refs' \in [Frames -> Nat]
      /\ \A g \in Frames : refs'[g] = IF g = image' THEN 1 ELSE refs[g]
  <2>1. refs \in [Frames -> Nat] /\ refs' = Retained(refs, image')
    BY DEF VideoInv, TypeOK, Decoded
  <2>2. CASE image' = 0
    BY <2>1, <2>2, BoundsAssumption DEF Retained, Frames
  <2>3. CASE image' = f
    <3>1. refs' = [refs EXCEPT ![f] = 1]
      BY <2>1, <2>3, <1>4, <1>8 DEF Retained
    <3> QED
      BY <3>1, <2>1, <2>3, <1>2
  <2> QED
    BY <2>2, <2>3, <1>3 DEF None
<1>10. TypeOK'
  BY SMTT(30), <1>2, <1>3, <1>4, <1>9, BoundsAssumption
  DEF VideoInv, Decoded, TypeOK, rendererVars, viewVars, None, Frames
<1>11. OldFrames'
  BY <1>2, <1>3, <1>4
  DEF VideoInv, Decoded, OldFrames, Old, Handling, Views, rendererVars, viewVars
<1>12. QueueSorted'
  BY <1>1, <1>2 DEF VideoInv, QueueSorted, Queued
<1>13. WindowsBehind'
  BY <1>2, <1>3, <1>7
  DEF VideoInv, Decoded, WindowsBehind, Views, viewVars
<1>14. (Windows /\ PtsNotBehind)'
  BY <1>3, <1>4
  DEF VideoInv, Decoded, Old, Windows, Views, PtsNotBehind, rendererVars,
      viewVars
<1>15. ImagesBalanced'
  <2>1. views' = views
    BY DEF Decoded, viewVars
  <2>2. \A g \in Frames : g # 0 /\ g # image
    BY <1>6, BoundsAssumption DEF Frames
  <2>3. \A g \in Frames : refs'[g] = IF Held(g)' THEN 1 ELSE 0
    <3> SUFFICES ASSUME NEW g \in Frames
                 PROVE  refs'[g] = IF Held(g)' THEN 1 ELSE 0
      OBVIOUS
    <3>1. Held(g)' <=> g = image' \/ \E k \in Views : views[k].image = g
      BY <2>1 DEF Held, CallHolds, ViewHolds, Views
    <3>2. refs[g] = IF \E k \in Views : views[k].image = g THEN 1 ELSE 0
      BY <2>2 DEF VideoInv, ImagesBalanced, Held, CallHolds, ViewHolds
    <3> QED
      BY <3>1, <3>2, <1>9
  <2>4. \A k \in Views : views[k].image # 0 => views[k].image # image'
    BY <1>3, <1>4, <1>5, Numbers DEF VideoInv, None
  <2>5. \A k \in Views : views[k].image # 0 =>
          \A m \in Views \ {k} : views[m].image # views[k].image
    BY DEF VideoInv, ImagesBalanced, ViewHolds, None
  <2> QED
    BY <2>1, <2>3, <2>4, <2>5
    DEF ImagesBalanced, CallHolds, ViewHolds, Views, None
<1> QED
  BY <1>10, <1>11, <1>12, <1>13, <1>14, <1>15 DEF VideoInv

\* The last ImageBuffer of an image lets go of it.
LEMMA ReleaseLast ==
  ASSUME NEW r \in [Frames -> Nat], NEW g, g # 0 => g \in Frames /\ r[g] = 1
  PROVE  /\ Released(r, g) \in [Frames -> Nat]
         /\ \A h \in Frames : Released(r, g)[h] = IF h = g THEN 0 ELSE r[h]
<1>1. CASE g = 0
  BY <1>1, BoundsAssumption DEF Released, Frames
<1>2. CASE g # 0
  <2>1. Released(r, g) = [r EXCEPT ![g] = 0]
    BY <1>2 DEF Released
  <2> QED
    BY <2>1, <1>2
<1> QED
  BY <1>1, <1>2

LEMMA DecodedReturnsInv ==
  ASSUME VideoInv, DecodedReturns
  PROVE  VideoInv'
<1>1. image \in {None, frame} /\ image \in Nat /\ (image # 0 => image \in Frames)
  BY Numbers, BoundsAssumption DEF VideoInv, TypeOK, Frames, None
<1>2. image # 0 => refs[image] = 1
  BY <1>1 DEF VideoInv, ImagesBalanced, Held, CallHolds
<1>3. /\ refs' \in [Frames -> Nat]
      /\ \A g \in Frames : refs'[g] = IF g = image THEN 0 ELSE refs[g]
  BY <1>1, <1>2, ReleaseLast DEF VideoInv, TypeOK, DecodedReturns
<1>4. TypeOK'
  BY <1>1, <1>3, BoundsAssumption
  DEF VideoInv, DecodedReturns, TypeOK, rendererVars, viewVars, None
<1>5. OldFrames'
  BY Numbers, BoundsAssumption
  DEF VideoInv, TypeOK, DecodedReturns, OldFrames, Old, Handling, Queued, Views,
      rendererVars, viewVars
<1>6. QueueSorted'
  BY DEF VideoInv, DecodedReturns, QueueSorted, Queued
<1>7. WindowsBehind'
  BY Numbers, BoundsAssumption
  DEF VideoInv, DecodedReturns, WindowsBehind, Queued, Views, viewVars
<1>8. (Windows /\ PtsNotBehind)'
  BY DEF VideoInv, DecodedReturns, Windows, PtsNotBehind, Views, rendererVars,
         viewVars
<1>9. ImagesBalanced'
  <2>1. views' = views /\ image' = 0
    BY DEF DecodedReturns, viewVars
  <2>2. \A g \in Frames : g # 0
    BY BoundsAssumption DEF Frames
  <2>3. \A k \in Views : views[k].image # 0 =>
          /\ views[k].image # image
          /\ \A m \in Views \ {k} : views[m].image # views[k].image
    BY DEF VideoInv, ImagesBalanced, CallHolds, ViewHolds, None
  <2>4. \A g \in Frames : refs'[g] = IF Held(g)' THEN 1 ELSE 0
    <3> SUFFICES ASSUME NEW g \in Frames
                 PROVE  refs'[g] = IF Held(g)' THEN 1 ELSE 0
      OBVIOUS
    <3>1. Held(g)' <=> \E k \in Views : views[k].image = g
      BY <2>1, <2>2 DEF Held, CallHolds, ViewHolds, Views
    <3>2. refs[g] = IF g = image \/ \E k \in Views : views[k].image = g
                      THEN 1 ELSE 0
      BY DEF VideoInv, ImagesBalanced, Held, CallHolds, ViewHolds
    <3> QED
      BY <3>1, <3>2, <1>3, <2>2, <2>3
  <2> QED
    BY <2>1, <2>3, <2>4
    DEF ImagesBalanced, CallHolds, ViewHolds, Views, None
<1> QED
  BY <1>4, <1>5, <1>6, <1>7, <1>8, <1>9 DEF VideoInv

-----------------------------------------------------------------------------
(* The main thread.                                                        *)

LEMMA CreateViewInv ==
  ASSUME VideoInv, CreateView
  PROVE  VideoInv'
<1>1. views \in Seq(View) /\ views' = Append(views, NewView) /\ NewView \in View
  BY BoundsAssumption DEF VideoInv, TypeOK, CreateView, NewView, View
<1>2. /\ views' \in Seq(View)
      /\ Len(views') = Len(views) + 1
      /\ \A k \in Views : k \in Views' /\ views'[k] = views[k]
      /\ \A k \in Views' : \/ k \in Views /\ views'[k] = views[k]
                           \/ k \notin Views /\ views'[k].image = 0
                              /\ views'[k].texture = 0
  BY <1>1 DEF Views, NewView
<1>3. TypeOK'
  BY <1>2, BoundsAssumption
  DEF VideoInv, CreateView, TypeOK, Windows, callVars
<1>4. OldFrames'
  <2>1. mCurrentPts \in Nat
    BY Numbers DEF VideoInv
  <2>2. pc' = "idle" /\ UNCHANGED <<mCurrentPts, packets, inDecoder, frame>>
    BY DEF CreateView, callVars
  <2>3. \A k \in Views' : views'[k].image <= mCurrentPts
    BY <2>1, <1>2 DEF VideoInv, OldFrames, Old, Handling
  <2> QED
    BY <2>2, <2>3 DEF VideoInv, OldFrames, Old, Handling, Queued
<1>5. QueueSorted'
  BY DEF VideoInv, CreateView, QueueSorted, Queued
<1>6. WindowsBehind'
  <2>1. \A q \in Queued : 0 < inDecoder[q]
    BY BoundsAssumption DEF VideoInv, TypeOK, Queued, Frames
  <2>2. UNCHANGED <<image, frame, inDecoder>> /\ image \in Nat
    BY Numbers DEF VideoInv, CreateView, callVars
  <2> QED
    BY <2>1, <2>2, <1>2 DEF VideoInv, WindowsBehind, Queued
<1>7. (Windows /\ PtsNotBehind)'
  BY <1>2, BoundsAssumption
  DEF VideoInv, TypeOK, CreateView, Windows, PtsNotBehind, callVars
<1>8. ImagesBalanced'
  <2>1. image' = image /\ refs' = refs
    BY DEF CreateView, callVars
  <2>2. \A g \in Frames : g # 0
    BY BoundsAssumption DEF Frames
  <2>3. \A g \in Frames : Held(g)' <=> Held(g)
    BY <2>1, <2>2, <1>2 DEF Held, CallHolds, ViewHolds
  <2>4. \A k \in Views' : views'[k].image # 0 =>
          /\ views'[k].image # image
          /\ \A m \in Views' \ {k} : views'[m].image # views'[k].image
    BY <1>2 DEF VideoInv, ImagesBalanced, CallHolds, ViewHolds, None
  <2> QED
    BY <2>1, <2>3, <2>4
    DEF VideoInv, ImagesBalanced, CallHolds, ViewHolds, None
<1> QED
  BY <1>3, <1>4, <1>5, <1>6, <1>7, <1>8 DEF VideoInv

LEMMA NoTextureInv ==
  ASSUME VideoInv, NoTexture
  PROVE  VideoInv'
<1>1. TypeOK'
  BY DEF VideoInv, NoTexture, TypeOK, rendererVars, viewVars
<1>2. (OldFrames /\ QueueSorted /\ WindowsBehind /\ PtsNotBehind)'
  BY DEF VideoInv, NoTexture, rendererVars, viewVars, OldFrames, Queued, Old,
         Handling, Views, QueueSorted, WindowsBehind, PtsNotBehind
<1>3. Windows'
  BY DEF VideoInv, TypeOK, NoTexture, rendererVars, viewVars, Windows, Views
<1>4. ImagesBalanced'
  BY SameHolders DEF VideoInv, NoTexture, viewVars
<1> QED
  BY <1>1, <1>2, <1>3, <1>4 DEF VideoInv

LEMMA ShowImageInv ==
  ASSUME VideoInv, ShowImage
  PROVE  VideoInv'
<1> DEFINE last == Len(views)
           old == views[last].image
<1>1. /\ last \in Views
      /\ image = frame /\ image \in Frames /\ image # 0
  BY BoundsAssumption
  DEF VideoInv, TypeOK, ShowImage, Windows, Views, Frames, None
<1>2. views \in Seq(View) /\ [texture |-> image, image |-> image] \in View
  BY <1>1, BoundsAssumption DEF VideoInv, TypeOK, View, Frames
<1>3. /\ views' \in Seq(View) /\ Len(views') = Len(views) /\ Views' = Views
      /\ \A k \in Views : views'[k] = IF k = last
            THEN [texture |-> image, image |-> image] ELSE views[k]
  BY <1>1, <1>2 DEF ShowImage, CurrentView, Views
<1>4. /\ views'[last].image = image /\ views'[last].texture = image
      /\ \A k \in Views : k # last => views'[k] = views[k]
  BY <1>1, <1>3
<1>5. old \in Nat /\ (old # 0 => old \in Frames /\ refs[old] = 1)
  <2>1. views[last] \in View
    BY <1>1 DEF VideoInv, TypeOK, Views
  <2>2. old \in 0 .. MaxPackets
    BY <2>1 DEF View
  <2>3. old # 0 => old \in Frames
    BY <2>2, BoundsAssumption DEF Frames
  <2>4. old # 0 => refs[old] = 1
    BY <2>3, <1>1 DEF VideoInv, ImagesBalanced, Held, ViewHolds
  <2> QED
    BY <2>2, <2>3, <2>4, BoundsAssumption
<1>6. /\ refs' \in [Frames -> Nat]
      /\ \A g \in Frames : refs'[g] = IF g = old THEN 0 ELSE refs[g]
  <2>1. refs \in [Frames -> Nat] /\ refs' = Released(refs, old)
    BY DEF VideoInv, TypeOK, ShowImage, Assign, CurrentView
  <2> QED
    BY <2>1, <1>5, ReleaseLast
<1>7. TypeOK'
  BY <1>3, <1>6, BoundsAssumption
  DEF VideoInv, ShowImage, TypeOK, rendererVars, Moved, None
<1>8. OldFrames'
  BY <1>1, <1>3, <1>4
  DEF VideoInv, ShowImage, OldFrames, Old, Handling, Queued, rendererVars
<1>9. QueueSorted'
  BY DEF VideoInv, ShowImage, QueueSorted, Queued
<1>10. WindowsBehind'
  <2>1. image' = 0 /\ frame' = frame /\ inDecoder' = inDecoder
    BY DEF ShowImage, Moved
  <2> QED
    BY <2>1, <1>1, <1>3, <1>4 DEF VideoInv, WindowsBehind, Queued
<1>11. (Windows /\ PtsNotBehind)'
  BY <1>3, <1>4
  DEF VideoInv, TypeOK, ShowImage, Windows, PtsNotBehind, rendererVars
<1>12. ImagesBalanced'
  <2>1. \A k \in Views : views[k].image # 0 =>
          /\ views[k].image # image
          /\ \A m \in Views \ {k} : views[m].image # views[k].image
    BY DEF VideoInv, ImagesBalanced, CallHolds, ViewHolds, None
  <2>2. image' = 0
    BY DEF ShowImage, Moved
  <2>3. \A g \in Frames : g # 0
    BY BoundsAssumption DEF Frames
  <2>4. \A g \in Frames : refs'[g] = IF Held(g)' THEN 1 ELSE 0
    <3> SUFFICES ASSUME NEW g \in Frames
                 PROVE  refs'[g] = IF Held(g)' THEN 1 ELSE 0
      OBVIOUS
    <3>1. Held(g)' <=> g = image \/ \E k \in Views \ {last} : views[k].image = g
      BY <1>1, <1>3, <1>4, <2>2, <2>3 DEF Held, CallHolds, ViewHolds
    <3>2. refs[g] = IF g = image \/ \E k \in Views : views[k].image = g
                      THEN 1 ELSE 0
      BY DEF VideoInv, ImagesBalanced, Held, CallHolds, ViewHolds
    <3>3. g = old => g # image /\ \A k \in Views \ {last} : views[k].image # g
      BY <2>1, <2>3, <1>1
    <3> QED
      BY <3>1, <3>2, <3>3, <1>6, <1>1
  <2>5. \A k \in Views : views'[k].image # 0 =>
          /\ views'[k].image # image'
          /\ \A m \in Views \ {k} : views'[m].image # views'[k].image
    BY <1>1, <1>4, <2>1, <2>2
  <2> QED
    BY <1>3, <2>4, <2>5
    DEF ImagesBalanced, CallHolds, ViewHolds, None
<1> QED
  BY <1>7, <1>8, <1>9, <1>10, <1>11, <1>12 DEF VideoInv

-----------------------------------------------------------------------------
LEMMA NextInv == VideoInv /\ [NextVideo]_videoVars => VideoInv'
<1> SUFFICES ASSUME VideoInv, [NextVideo]_videoVars PROVE VideoInv'
  OBVIOUS
<1>1. CASE NextVideo
  BY <1>1, InfoInv, DropPacketInv, HandlePacketInv, NoFrameInv, HasFrameInv,
     SubmitInv, DecodeFailsInv, DecodedInv, DecodedReturnsInv, CreateViewInv,
     ShowImageInv, NoTextureInv
  DEF NextVideo, RendererThread, DecoderThread, MainThread, ImageBlock
<1>2. CASE UNCHANGED videoVars
  <2>1. (TypeOK /\ OldFrames /\ QueueSorted /\ WindowsBehind /\ Windows
          /\ PtsNotBehind)'
    BY <1>2 DEF VideoInv, videoVars, rendererVars, callVars, viewVars, TypeOK,
       OldFrames, Queued, Old, Handling, Views, QueueSorted,
       WindowsBehind, Windows, PtsNotBehind
  <2>2. ImagesBalanced'
    BY <1>2, SameHolders DEF VideoInv, videoVars, callVars, viewVars
  <2> QED
    BY <2>1, <2>2 DEF VideoInv
<1> QED
  BY <1>1, <1>2

\* Only ShowImage gives a window a texture, of the image the callback holds.
LEMMA StepShows ==
  ASSUME VideoInv, [NextVideo]_videoVars, NEW k \in Views,
         views'[k].texture # views[k].texture
  PROVE  \A m \in Views : views[m].texture < views'[k].texture
<1>1. CASE ShowImage
  <2>1. CurrentView \in Views /\ views \in Seq(View) /\ image # 0
    BY <1>1 DEF VideoInv, TypeOK, ShowImage, Views, CurrentView
  <2>2. views'[k] = IF k = CurrentView
                      THEN [texture |-> image, image |-> image] ELSE views[k]
    BY <1>1, <2>1 DEF ShowImage, Views
  <2>3. views'[k].texture = image
    BY <2>2
  <2>4. \A m \in Views : views[m].image < image /\ views[m].texture = views[m].image
    BY <2>1 DEF VideoInv, WindowsBehind, Windows
  <2> QED
    BY <2>3, <2>4
<1>2. CASE CreateView
  <2>1. views' = Append(views, NewView) /\ views \in Seq(View)
    BY <1>2 DEF VideoInv, TypeOK, CreateView
  <2>2. views'[k] = views[k]
    BY <2>1 DEF Views
  <2> QED
    BY <2>2
<1>3. CASE UNCHANGED views
  BY <1>3
<1> QED
  BY <1>1, <1>2, <1>3
  DEF NextVideo, videoVars, viewVars, Info, DropPacket, HandlePacket,
      RendererThread, NoFrame, HasFrame, DecodeFrame, DecoderThread, Decoded,
      DecodedReturns, MainThread, ImageBlock, NoTexture

-----------------------------------------------------------------------------
(* The client's steps, seen by the video output.                           *)

LEMMA MainLeavesVideo == Main => UNCHANGED videoVars
BY DEF Main, ParseLine, NeedHost, ReadOptions, StartThreads

\* What is shown of SpecVideo holds of the client.
LEMMA ClientRunsVideo == Spec => SpecVideo
<1>1. Init => InitVideo
  BY DEF Init
<1>2. [Next]_clientVars => [NextVideo]_videoVars
  BY MainLeavesVideo DEF Next, Run, clientVars
<1> QED
  BY <1>1, <1>2, PTL DEF Spec, SpecVideo

LEMMA ClientInv == Spec => []VideoInv
BY ClientRunsVideo, InitInv, NextInv, PTL DEF SpecVideo

\* Type correctness (Renderer.cpp, View.mm); no retain count is ever negative.
THEOREM ClientTypes == Spec => []TypeOK
<1>1. VideoInv => TypeOK
  BY DEF VideoInv
<1> QED
  BY <1>1, ClientInv, PTL

\* The pts given with an image is never that of an earlier packet.
THEOREM PtsStaysAhead == Spec => []PtsNotBehind
<1>1. VideoInv => PtsNotBehind
  BY DEF VideoInv
<1> QED
  BY <1>1, ClientInv, PTL

\* Pixel buffers are retained once while an ImageBuffer holds them, and
\* released when the last one lets go.
THEOREM BuffersBalanced == Spec => []ImagesBalanced
<1>1. VideoInv => ImagesBalanced
  BY DEF VideoInv
<1> QED
  BY <1>1, ClientInv, PTL

\* The windows never show an image again, or an older one than is shown.
THEOREM NewestIsShown == Spec => ShownInOrder
<1>1. VideoInv /\ [NextVideo]_videoVars =>
        [\A k \in Views :
           views'[k].texture # views[k].texture =>
             \A m \in Views : views[m].texture < views'[k].texture]_videoVars
  BY StepShows
<1> QED
  BY <1>1, ClientInv, ClientRunsVideo, PTL DEF SpecVideo, ShownInOrder

-----------------------------------------------------------------------------
(* The command line.  What the parser has found is what the arguments it    *)
(* has seen say, but for the last option, which may wait for the next one.  *)

\* said, and where it says nothing, v.
Over(said, v) == [name \in DOMAIN said \cup DOMAIN v |->
                    IF name \in DOMAIN said THEN said[name] ELSE v[name]]

LEMMA OverEmpty ==
  ASSUME NEW v, v = [name \in DOMAIN v |-> v[name]]
  PROVE  Over(Empty, v) = v
BY DEF Over, Empty

LEMMA OverSet ==
  ASSUME NEW v, NEW name, NEW value
  PROVE  Over(Set(Empty, name, value), v) = Set(v, name, value)
BY DEF Over, Set, SetAll, Empty

\* The last of an argument's options gets its own value.
LEMMA OverSets ==
  ASSUME NEW v, NEW names, NEW flags, NEW last, NEW value, NEW other,
         names = flags \cup {last}
  PROVE  Over(Set(SetAll(Empty, names, other), last, value), v)
           = Set(SetAll(v, flags, other), last, value)
BY DEF Over, Set, SetAll, Empty

LEMMA SetNone ==
  ASSUME NEW v, NEW other, v = [name \in DOMAIN v |-> v[name]]
  PROVE  SetAll(v, {}, other) = v
BY DEF SetAll

\* One more argument.
LEMMA SaidNext ==
  ASSUME NEW n \in Nat
  PROVE  SaidUpTo(n + 1) = Over(SaidBy(n + 1), SaidUpTo(n))
<1> DEFINE m == n + 1
           D(k) == DOMAIN SaidBy(k)
<1>1. m \in Nat /\ 1 .. m = (1 .. n) \cup {m}
  OBVIOUS
<1>2. UNION {D(k) : k \in 1 .. m} = D(m) \cup UNION {D(k) : k \in 1 .. n}
  BY <1>1
<1>3. ASSUME NEW name \in D(m) PROVE Max(SayersOf(name, m)) = m
  <2>1. SayersOf(name, m) \in SUBSET (0 .. m) /\ m \in SayersOf(name, m)
    BY <1>1, <1>3 DEF SayersOf
  <2>2. Max(SayersOf(name, m)) \in SayersOf(name, m) /\ Max(SayersOf(name, m)) >= m
    BY <1>1, <2>1, MaxOf
  <2> QED
    BY <1>1, <2>1, <2>2
<1>4. ASSUME NEW name, name \notin D(m) PROVE SayersOf(name, m) = SayersOf(name, n)
  BY <1>1, <1>4 DEF SayersOf
<1>5. SaidUpTo(m) = [name \in D(m) \cup UNION {D(k) : k \in 1 .. n} |->
                       SaidBy(Max(SayersOf(name, m)))[name]]
  BY <1>2 DEF SaidUpTo
<1>6. /\ DOMAIN SaidUpTo(n) = UNION {D(k) : k \in 1 .. n}
      /\ \A name \in DOMAIN SaidUpTo(n) :
           SaidUpTo(n)[name] = SaidBy(Max(SayersOf(name, n)))[name]
  BY DEF SaidUpTo
<1> HIDE DEF m
<1>7. \A name \in D(m) \cup UNION {D(k) : k \in 1 .. n} :
        SaidBy(Max(SayersOf(name, m)))[name]
          = IF name \in D(m) THEN SaidBy(m)[name] ELSE SaidUpTo(n)[name]
  BY <1>3, <1>4, <1>6
<1>8. SaidUpTo(m) = Over(SaidBy(m), SaidUpTo(n))
  BY <1>5, <1>6, <1>7 DEF Over
<1> QED
  BY <1>8 DEF m

LEMMA SaidIsFunction ==
  ASSUME NEW n
  PROVE  SaidUpTo(n) = [name \in DOMAIN SaidUpTo(n) |-> SaidUpTo(n)[name]]
BY DEF SaidUpTo

LEMMA SaidOfNone == SaidUpTo(0) = Empty
BY DEF SaidUpTo, Empty

\* An argument that is no option says nothing.
LEMMA SaysNothing ==
  ASSUME NEW n \in Nat, ~ IsOption(n + 1)
  PROVE  SaidUpTo(n + 1) = SaidUpTo(n)
<1>1. SaidBy(n + 1) = Empty
  BY DEF SaidBy
<1> QED
  BY <1>1, SaidNext, SaidIsFunction, OverEmpty

\* What the first n arguments leave alone.
LEMMA AloneNext ==
  ASSUME NEW n \in Nat
  PROVE  AloneUpTo(n + 1) = IF IsAlone(n + 1)
                              THEN Append(AloneUpTo(n), makeValue(argv[n + 1].text))
                              ELSE AloneUpTo(n)
<1> DEFINE m == n + 1
           S == {makeValue(argv[k].text) : k \in 1 .. m}
           Part(k) == IF IsAlone(k) THEN <<makeValue(argv[k].text)>> ELSE <<>>
           parts == [k \in 1 .. n |-> Part(k)]
<1>1. m \in Nat /\ m \in 1 .. m /\ \A k \in 1 .. n : k \in 1 .. m
  OBVIOUS
<1>2. \A k \in 1 .. m : Part(k) \in Seq(S)
  <2> SUFFICES ASSUME NEW k \in 1 .. m PROVE Part(k) \in Seq(S)
    OBVIOUS
  <2>1. makeValue(argv[k].text) \in S
    OBVIOUS
  <2> HIDE DEF S
  <2> QED
    BY <2>1
<1> HIDE DEF S
<1>3. parts \in Seq(Seq(S)) /\ Len(parts) = n
  <2> HIDE DEF Part
  <2> QED
    BY <1>1, <1>2
<1>4. [k \in 1 .. m |-> Part(k)] = Append(parts, Part(m))
  <2> HIDE DEF Part
  <2>1. \A k \in 1 .. m : k \in 1 .. n \/ k = m
    OBVIOUS
  <2> QED
    BY <1>3, <2>1
<1>5. AloneUpTo(m) = FlattenSeq(parts) \o Part(m)
  <2>1. Part(m) \in Seq(S)
    BY <1>1, <1>2
  <2> HIDE DEF m
  <2>2. AloneUpTo(m) = FlattenSeq(Append(parts, Part(m)))
    BY <1>4 DEF AloneUpTo
  <2> HIDE DEF parts, Part
  <2> QED
    BY <1>3, <2>1, <2>2, FlattenAppend
<1>6. FlattenSeq(parts) \in Seq(S)
  <2> HIDE DEF parts
  <2> QED
    BY <1>3, FlattenType
<1>7. AloneUpTo(n) = FlattenSeq(parts)
  BY DEF AloneUpTo
<1>8. makeValue(argv[m].text) \in S
  BY <1>1 DEF S
<1> HIDE DEF parts, m
<1> QED
  <2>1. CASE IsAlone(m)
    BY <1>5, <1>6, <1>7, <1>8, <2>1 DEF m
  <2>2. CASE ~ IsAlone(m)
    BY <1>5, <1>6, <1>7, <2>2 DEF m
  <2> QED
    BY <2>1, <2>2 DEF m

LEMMA AloneOfNone == AloneUpTo(0) = <<>>
<1>1. [k \in 1 .. 0 |-> IF IsAlone(k) THEN <<makeValue(argv[k].text)>> ELSE <<>>] = <<>>
  OBVIOUS
<1> QED
  BY <1>1, FlattenEmpty DEF AloneUpTo

\* All of this reads nothing but the command line.
LEMMA SameLine ==
  ASSUME argv' = argv
  PROVE  \A k : /\ AfterDashDash(k)' <=> AfterDashDash(k)
                /\ Waits(k)' <=> Waits(k)
                /\ NamesOf(k)' = NamesOf(k)
                /\ SaidUpTo(k)' = SaidUpTo(k)
                /\ AloneUpTo(k)' = AloneUpTo(k)
<1>1. \A k : AfterDashDash(k)' <=> AfterDashDash(k)
  BY DEF AfterDashDash
<1>2. \A k : NamesOf(k)' = NamesOf(k)
  BY DEF NamesOf
<1>3. \A k : IsOption(k)' <=> IsOption(k)
  BY <1>1 DEF IsOption
<1>4. \A k : Waits(k)' <=> Waits(k)
  BY <1>2, <1>3 DEF Waits
<1>5. \A k : TakesNext(k)' <=> TakesNext(k)
  BY <1>4 DEF TakesNext
<1>6. \A k : ValueOf(k)' = ValueOf(k)
  BY <1>5 DEF ValueOf
<1>7. \A k : SaidBy(k)' = SaidBy(k)
  BY <1>2, <1>3, <1>6 DEF SaidBy
<1>8. \A k : SaidUpTo(k)' = SaidUpTo(k)
  BY <1>7 DEF SaidUpTo, SayersOf
<1>9. \A k : IsAlone(k)' <=> IsAlone(k)
  BY <1>1, <1>5 DEF IsAlone
<1>10. \A k : AloneUpTo(k)' = AloneUpTo(k)
  BY <1>9 DEF AloneUpTo
<1> QED
  BY <1>1, <1>2, <1>4, <1>8, <1>10

-----------------------------------------------------------------------------
(* One argument.                                                           *)

\* The options of argument k but the last.
Flags(k) == {NamesOf(k)[n] : n \in 1 .. Len(NamesOf(k)) - 1}
LastOf(k) == Last(NamesOf(k))
True == <<"bool", TRUE>>

LEMMA ArgumentFields ==
  ASSUME argv \in Seq(Argument), NEW k \in 1 .. Len(argv)
  PROVE  /\ argv[k].dashes \in Nat /\ argv[k].name \in Seq(STRING)
         /\ argv[k].eq \in BOOLEAN
<1>1. argv[k] \in Argument
  OBVIOUS
<1> QED
  BY <1>1 DEF Argument

LEMMA RangeOfNames ==
  ASSUME NEW names, names # <<>>, NEW S, names \in Seq(S)
  PROVE  Range(names) = {names[n] : n \in 1 .. Len(names) - 1} \cup {Last(names)}
<1>1. /\ Len(names) \in Nat /\ Len(names) > 0 /\ DOMAIN names = 1 .. Len(names)
  OBVIOUS
<1>2. \A n : n \in 1 .. Len(names) <=> n \in 1 .. Len(names) - 1 \/ n = Len(names)
  BY <1>1
<1> QED
  BY <1>1, <1>2 DEF Range, Last

\* "--name" holds one option, "-n=value" the first of its characters, and
\* "-abc" all of them.
LEMMA NamesOfOption ==
  ASSUME argv \in Seq(Argument), NEW k \in 1 .. Len(argv), IsOption(k)
  PROVE  /\ Range(NamesOf(k)) = Flags(k) \cup {LastOf(k)}
         /\ LastOf(k) # <<>>
         /\ argv[k].dashes = 1 => ~ Negated(LastOf(k))
         /\ argv[k].dashes = 1 \/ argv[k].dashes > 1
         /\ argv[k].dashes = 1 /\ argv[k].eq
              => LastOf(k) = <<Head(argv[k].name)>> /\ Flags(k) = {}
         /\ argv[k].dashes = 1 /\ ~ argv[k].eq
              => /\ LastOf(k) = <<argv[k].name[Len(argv[k].name)]>>
                 /\ Flags(k) = {<<argv[k].name[n]>> : n \in 1 .. Len(argv[k].name) - 1}
         /\ argv[k].dashes > 1 => LastOf(k) = argv[k].name /\ Flags(k) = {}
<1> DEFINE arg == argv[k]
           name == arg.name
<1>1. /\ arg.dashes \in Nat /\ arg.dashes # 0 /\ arg.eq \in BOOLEAN
      /\ name \in Seq(STRING) /\ name # <<>>
  BY ArgumentFields DEF IsOption, IsWord
<1>2. Len(name) \in Nat /\ Len(name) > 0
  BY <1>1
<1> HIDE DEF name
<1>3. ASSUME NEW c PROVE ~ Negated(<<c>>) /\ <<c>> # <<>>
  BY DEF Negated
<1>4. ASSUME NEW x, NamesOf(k) = <<x>>
      PROVE  Range(NamesOf(k)) = {x} /\ LastOf(k) = x /\ Flags(k) = {}
  BY <1>4 DEF Range, LastOf, Last, Flags
<1>5. CASE arg.dashes > 1
  <2>1. NamesOf(k) = <<name>>
    BY <1>5 DEF NamesOf, name
  <2> QED
    BY <1>1, <1>4, <1>5, <2>1 DEF name
<1>6. CASE arg.dashes = 1 /\ arg.eq
  <2> DEFINE first == <<Head(name)>>
  <2>1. NamesOf(k) = <<first>>
    BY <1>6 DEF NamesOf, name
  <2>2. first # <<>> /\ ~ Negated(first)
    BY <1>3
  <2> HIDE DEF first
  <2>3. Range(NamesOf(k)) = {first} /\ LastOf(k) = first /\ Flags(k) = {}
    BY <1>4, <2>1
  <2> QED
    BY <1>6, <2>2, <2>3 DEF name, first
<1>7. CASE arg.dashes = 1 /\ ~ arg.eq
  <2> DEFINE names == [n \in 1 .. Len(name) |-> <<name[n]>>]
  <2>1. NamesOf(k) = names
    BY <1>7 DEF NamesOf, name
  <2>2. \A n \in 1 .. Len(name) : <<name[n]>> \in Seq(STRING)
    BY <1>1
  <2>3. names \in Seq(Seq(STRING)) /\ Len(names) = Len(name) /\ names # <<>>
    BY <1>2, <2>2
  <2>4. LastOf(k) = <<name[Len(name)]>>
    <3>1. Len(name) \in 1 .. Len(name)
      BY <1>2
    <3> QED
      BY <2>1, <2>3, <3>1 DEF LastOf, Last
  <2>5. Flags(k) = {<<name[n]>> : n \in 1 .. Len(name) - 1}
    <3>1. \A n \in 1 .. Len(name) - 1 : n \in 1 .. Len(name)
      BY <1>2
    <3> QED
      BY <2>1, <2>3, <3>1 DEF Flags
  <2>6. Range(NamesOf(k)) = Flags(k) \cup {LastOf(k)}
    <3> HIDE DEF names
    <3> QED
      BY <2>1, <2>3, RangeOfNames DEF Flags, LastOf
  <2> QED
    BY <1>3, <1>7, <2>4, <2>5, <2>6 DEF name
<1> QED
  BY <1>1, <1>5, <1>6, <1>7

\* What an option says, added to what was said before it.
LEMMA SaidByOption ==
  ASSUME argv \in Seq(Argument), NEW n \in Nat, n + 1 \in 1 .. Len(argv),
         IsOption(n + 1)
  PROVE  SaidUpTo(n + 1) =
           LET last == LastOf(n + 1)
               value == ValueOf(n + 1)
           IN  IF ~ Negated(last)
                 THEN Set(SetAll(SaidUpTo(n), Flags(n + 1), True), last, value)
               ELSE IF value[1] = "bool"
                 THEN Set(SaidUpTo(n), Positive(last), <<"bool", ~ value[2]>>)
               ELSE SaidUpTo(n)
<1> DEFINE last == LastOf(n + 1)
           value == ValueOf(n + 1)
           names == Range(NamesOf(n + 1))
<1>1. SaidBy(n + 1) =
        IF ~ Negated(last) THEN Set(SetAll(Empty, names, True), last, value)
        ELSE IF value[1] = "bool"
          THEN Set(Empty, Positive(last), <<"bool", ~ value[2]>>)
        ELSE Empty
  BY DEF SaidBy, LastOf, True
<1>2. names = Flags(n + 1) \cup {last}
  BY NamesOfOption
<1> HIDE DEF last, value, names
<1>3. CASE ~ Negated(last)
  BY <1>1, <1>2, <1>3, SaidNext, OverSets DEF last, value
<1>4. CASE Negated(last) /\ value[1] = "bool"
  BY <1>1, <1>4, SaidNext, OverSet DEF last, value
<1>5. CASE Negated(last) /\ value[1] # "bool"
  BY <1>1, <1>5, SaidNext, SaidIsFunction, OverEmpty DEF last, value
<1> QED
  BY <1>3, <1>4, <1>5

-----------------------------------------------------------------------------
\* How many arguments were parsed, and whether the last of them is an option
\* that may get a value from the next.
Done == IF i <= Len(argv) THEN i - 1 ELSE Len(argv)
Pending == i <= Len(argv) + 1 /\ Waits(i - 1)

LineInv ==
  /\ argv \in Seq(Argument)
  /\ i \in 1 .. Len(argv) + 2
  /\ dashdash \in BOOLEAN
  /\ i <= Len(argv) + 1 => (dashdash <=> AfterDashDash(i))
  /\ standalones = AloneUpTo(Done)
  /\ Pending => /\ hadopt = LastOf(i - 1)
                /\ values = SetAll(SaidUpTo(i - 2), Flags(i - 1), True)
  /\ ~ Pending => hadopt = <<>> /\ values = SaidUpTo(Done)

LEMMA LineInit == ASSUME NEW line \in Seq(Argument), InitOptions(line) PROVE LineInv
<1>1. /\ argv \in Seq(Argument) /\ i = 1 /\ Len(argv) \in Nat
      /\ dashdash = FALSE /\ hadopt = <<>> /\ values = Empty /\ standalones = <<>>
  BY DEF InitOptions
<1>2. ~ AfterDashDash(i)
  BY <1>1 DEF AfterDashDash
<1>3. ~ Pending /\ Done = 0
  BY <1>1 DEF Pending, Waits, Done
<1> QED
  <2>1. i \in 1 .. Len(argv) + 2 /\ dashdash \in BOOLEAN
    <3>1. Len(argv) \in Nat /\ i = 1
      BY <1>1
    <3>2. i \in 1 .. Len(argv) + 2
      BY <3>1
    <3>3. dashdash \in BOOLEAN
      BY <1>1
    <3> QED
      BY <3>2, <3>3
  <2>2. standalones = AloneUpTo(Done) /\ hadopt = <<>> /\ values = SaidUpTo(Done)
    BY <1>1, <1>3, AloneOfNone, SaidOfNone
  <2>3. dashdash <=> AfterDashDash(i)
    BY <1>1, <1>2
  <2> QED
    BY <1>1, <1>3, <2>1, <2>2, <2>3 DEF LineInv

LEMMA EmptyLine == InitOptions(<<>>) => LineInv
<1>1. <<>> \in Seq(Argument)
  OBVIOUS
<1> QED
  BY <1>1, LineInit

\* The option that waits gets its value.
LEMMA ValueComes ==
  ASSUME LineInv, Pending, NEW value, value = ValueOf(i - 1)
  PROVE  /\ Set(values, hadopt, value) = SaidUpTo(i - 1)
         /\ hadopt # <<>>
<1> DEFINE n == i - 2
<1>1. /\ n \in Nat /\ n + 1 = i - 1 /\ n + 1 \in 1 .. Len(argv)
      /\ argv \in Seq(Argument) /\ IsOption(n + 1) /\ ~ Negated(LastOf(n + 1))
  BY DEF LineInv, Pending, Waits, LastOf
<1>2. hadopt = LastOf(n + 1) /\ values = SetAll(SaidUpTo(n), Flags(n + 1), True)
  BY <1>1 DEF LineInv
<1>3. value = ValueOf(n + 1)
  BY <1>1
<1> HIDE DEF n
<1>4. SaidUpTo(n + 1) = Set(SetAll(SaidUpTo(n), Flags(n + 1), True),
                            LastOf(n + 1), ValueOf(n + 1))
  BY <1>1, SaidByOption
<1>5. LastOf(n + 1) # <<>>
  BY <1>1, NamesOfOption
<1> QED
  BY <1>1, <1>2, <1>3, <1>4, <1>5

\* No word comes for it.
LEMMA Flushed ==
  ASSUME LineInv, i <= Len(argv) + 1, ~ TakesNext(i - 1)
  PROVE  Flush(values) = SaidUpTo(i - 1)
<1>1. CASE Pending
  <2>1. ValueOf(i - 1) = <<"bool", TRUE>>
    BY <1>1 DEF ValueOf, Pending, Waits
  <2> QED
    BY <1>1, <2>1, ValueComes DEF Flush
<1>2. CASE ~ Pending
  <2>1. Done = i - 1
    BY DEF Done, LineInv
  <2> QED
    BY <1>2, <2>1 DEF Flush, LineInv
<1> QED
  BY <1>1, <1>2

\* After "--" no option waits.
LEMMA NothingWaits ==
  ASSUME LineInv, i <= Len(argv) + 1, AfterDashDash(i)
  PROVE  ~ Pending
<1> SUFFICES ASSUME Waits(i - 1) PROVE FALSE
  BY DEF Pending
<1>1. IsOption(i - 1) /\ i \in Nat
  BY DEF Waits, LineInv
<1>2. PICK j \in 1 .. i - 1 : IsDashDash(argv[j])
  BY DEF AfterDashDash
<1>3. CASE j = i - 1
  BY <1>1, <1>2, <1>3 DEF IsDashDash, IsOption
<1>4. CASE j # i - 1
  <2>1. j \in 1 .. (i - 1) - 1
    BY <1>1, <1>2, <1>4
  <2> QED
    BY <1>1, <1>2, <2>1 DEF AfterDashDash, IsOption
<1> QED
  BY <1>3, <1>4

-----------------------------------------------------------------------------
(* One step of the parser.                                                 *)

\* What every step that takes an argument does to the invariant.
LEMMA TakesArgument ==
  ASSUME LineInv, i <= Len(argv), NextArg
  PROVE  /\ argv' \in Seq(Argument)
         /\ i' = i + 1 /\ i \in 1 .. Len(argv)
         /\ i' \in 1 .. Len(argv') + 2
         /\ Done = i - 1 /\ Done' = i /\ i - 1 \in Nat /\ i' - 2 = i - 1
         /\ Pending' <=> Waits(i)
         /\ AfterDashDash(i)' <=> AfterDashDash(i) \/ IsDashDash(argv[i])
         /\ standalones = AloneUpTo(i - 1)
         /\ \A k : SaidUpTo(k)' = SaidUpTo(k) /\ AloneUpTo(k)' = AloneUpTo(k)
                  /\ NamesOf(k)' = NamesOf(k)
         /\ dashdash <=> AfterDashDash(i)
<1>1. /\ argv \in Seq(Argument) /\ Len(argv) \in Nat
      /\ i \in 1 .. Len(argv) /\ i' = i + 1 /\ argv' = argv
  BY DEF LineInv, NextArg
<1>2. /\ Done = i - 1 /\ i - 1 \in Nat /\ i' - 2 = i - 1 /\ i' - 1 = i
      /\ i' \in 1 .. Len(argv') + 2 /\ i' <= Len(argv') + 1
  BY <1>1 DEF Done
<1>3. Done' = i
  BY <1>1 DEF Done
<1>4. Pending' <=> Waits(i)
  <2>1. Pending' <=> Waits(i - 1)'
    BY <1>2 DEF Pending
  <2>2. Waits(i - 1)' <=> Waits(i)
    <3>1. PICK k : k = i
      OBVIOUS
    <3>2. Waits(k)' <=> Waits(k)
      BY <1>1, SameLine
    <3> QED
      BY <1>1, <1>2, <3>1, <3>2
  <2> QED
    BY <2>1, <2>2
<1>5. AfterDashDash(i)' <=> AfterDashDash(i) \/ IsDashDash(argv[i])
  <2>1. \A j : j \in 1 .. i' - 1 <=> j \in 1 .. i - 1 \/ j = i
    BY <1>1
  <2> QED
    BY <1>1, <2>1 DEF AfterDashDash
<1>6. standalones = AloneUpTo(i - 1) /\ (dashdash <=> AfterDashDash(i))
  BY <1>1, <1>2 DEF LineInv
<1> QED
  BY <1>1, <1>2, <1>3, <1>4, <1>5, <1>6, SameLine

\* So a step keeps the invariant when it does this.
LEMMA TakenWell ==
  ASSUME LineInv, i <= Len(argv), NextArg,
         dashdash' \in BOOLEAN,
         dashdash' <=> AfterDashDash(i) \/ IsDashDash(argv[i]),
         standalones' = AloneUpTo(i),
         Waits(i) => /\ hadopt' = LastOf(i)
                     /\ values' = SetAll(SaidUpTo(i - 1), Flags(i), True),
         ~ Waits(i) => hadopt' = <<>> /\ values' = SaidUpTo(i)
  PROVE  LineInv'
<1>1. /\ i' = i + 1 /\ Done' = i /\ i \in Nat
      /\ Pending' <=> Waits(i)
  BY TakesArgument
<1>2. PICK k : k = i
  OBVIOUS
<1>3. PICK j : j = i - 1
  OBVIOUS
<1>4. i' - 1 = k /\ i' - 2 = j
  BY <1>1, <1>2, <1>3
<1>5. standalones' = AloneUpTo(Done)'
  <2>1. AloneUpTo(k)' = AloneUpTo(k)
    BY TakesArgument
  <2> QED
    BY <1>1, <1>2, <2>1
<1>6. Pending' => /\ hadopt' = LastOf(i - 1)'
                  /\ values' = SetAll(SaidUpTo(i - 2), Flags(i - 1), True)'
  <2>1. /\ NamesOf(k)' = NamesOf(k) /\ SaidUpTo(j)' = SaidUpTo(j)
    BY TakesArgument
  <2>2. LastOf(k)' = LastOf(k) /\ Flags(k)' = Flags(k)
    BY <2>1 DEF LastOf, Flags
  <2>3. LastOf(i - 1)' = LastOf(k) /\ Flags(i - 1)' = Flags(k)
        /\ SaidUpTo(i - 2)' = SaidUpTo(j)
    BY <1>4, <2>1, <2>2
  <2> QED
    BY <1>1, <1>2, <1>3, <2>3 DEF SetAll, True
<1>7. ~ Pending' => hadopt' = <<>> /\ values' = SaidUpTo(Done)'
  <2>1. SaidUpTo(k)' = SaidUpTo(k)
    BY TakesArgument
  <2> QED
    BY <1>1, <1>2, <2>1
<1>8. dashdash' <=> AfterDashDash(i)'
  BY TakesArgument
<1>9. argv' \in Seq(Argument) /\ i' \in 1 .. Len(argv') + 2
  BY TakesArgument
<1> QED
  BY <1>5, <1>6, <1>7, <1>8, <1>9 DEF LineInv

\* What holds of an argument when it is taken.
LEMMA Before ==
  ASSUME LineInv, i <= Len(argv)
  PROVE  /\ argv \in Seq(Argument) /\ i \in 1 .. Len(argv) /\ i - 1 \in Nat
         /\ (i - 1) + 1 = i /\ i <= Len(argv) + 1
         /\ dashdash <=> AfterDashDash(i)
         /\ dashdash => ~ Pending
         /\ Pending <=> Waits(i - 1)
         /\ Pending <=> hadopt # <<>>
         /\ ~ Pending => values = SaidUpTo(i - 1)
         /\ standalones = AloneUpTo(i - 1)
         /\ TakesNext(i - 1) <=> Pending /\ IsWord(argv[i])
<1>1. /\ argv \in Seq(Argument) /\ i \in 1 .. Len(argv) /\ Len(argv) \in Nat
  BY DEF LineInv
<1>2. /\ i - 1 \in Nat /\ (i - 1) + 1 = i /\ i <= Len(argv) + 1 /\ Done = i - 1
  BY <1>1 DEF Done
<1>3. dashdash <=> AfterDashDash(i)
  BY <1>2 DEF LineInv
<1>4. dashdash => ~ Pending
  BY <1>2, <1>3, NothingWaits
<1>5. Pending <=> Waits(i - 1)
  BY <1>2 DEF Pending
<1>6. Pending <=> hadopt # <<>>
  BY ValueComes DEF LineInv
<1>7. /\ ~ Pending => values = SaidUpTo(i - 1)
      /\ standalones = AloneUpTo(i - 1)
  BY <1>2 DEF LineInv
<1>8. TakesNext(i - 1) <=> Pending /\ IsWord(argv[i])
  BY <1>1, <1>2, <1>5 DEF TakesNext
<1> QED
  BY <1>1, <1>2, <1>3, <1>4, <1>5, <1>6, <1>7, <1>8

\* One more argument that is no option, or one that is.
LEMMA OneMore ==
  ASSUME LineInv, i <= Len(argv)
  PROVE  /\ ~ IsOption(i) => SaidUpTo(i) = SaidUpTo(i - 1) /\ ~ Waits(i)
         /\ AloneUpTo(i) = IF IsAlone(i)
                             THEN Append(AloneUpTo(i - 1), makeValue(argv[i].text))
                             ELSE AloneUpTo(i - 1)
<1> DEFINE n == i - 1
<1>1. n \in Nat /\ n + 1 = i
  BY Before
<1> HIDE DEF n
<1>2. ~ IsOption(n + 1) => SaidUpTo(n + 1) = SaidUpTo(n)
  BY <1>1, SaysNothing
<1>3. ~ IsOption(i) => ~ Waits(i)
  BY DEF Waits
<1> QED
  BY <1>1, <1>2, <1>3, AloneNext DEF n

LEMMA StandaloneStep ==
  ASSUME LineInv, Standalone PROVE LineInv'
<1>1. /\ i <= Len(argv) /\ NextArg
      /\ dashdash \/ (IsWord(argv[i]) /\ hadopt = <<>>)
      /\ standalones' = Append(standalones, makeValue(argv[i].text))
      /\ dashdash' = dashdash /\ hadopt' = hadopt /\ values' = values
  BY DEF Standalone, Parsing, Arg
<1>2. ~ Pending /\ hadopt = <<>>
  BY <1>1, Before
<1>3. ~ IsOption(i)
  BY <1>1, Before DEF IsOption
<1>4. IsAlone(i)
  BY <1>1, <1>2, Before DEF IsAlone
<1>5. standalones' = AloneUpTo(i)
  BY <1>1, <1>4, Before, OneMore
<1>6. values' = SaidUpTo(i) /\ ~ Waits(i)
  BY <1>1, <1>2, <1>3, Before, OneMore
<1>7. dashdash' <=> AfterDashDash(i) \/ IsDashDash(argv[i])
  <2>1. IsWord(argv[i]) => ~ IsDashDash(argv[i])
    BY DEF IsWord, IsDashDash
  <2> QED
    BY <1>1, <2>1, Before
<1>8. dashdash' \in BOOLEAN
  BY <1>1 DEF LineInv
<1> QED
  BY <1>1, <1>2, <1>5, <1>6, <1>7, <1>8, TakenWell

LEMMA ValueOfOptionStep ==
  ASSUME LineInv, ValueOfOption PROVE LineInv'
<1>1. /\ i <= Len(argv) /\ NextArg
      /\ ~ dashdash /\ IsWord(argv[i]) /\ hadopt # <<>>
      /\ values' = Set(values, hadopt, makeValue(argv[i].text))
      /\ hadopt' = <<>> /\ dashdash' = dashdash /\ standalones' = standalones
  BY DEF ValueOfOption, Parsing, Arg
<1>2. Pending /\ TakesNext(i - 1) /\ ~ AfterDashDash(i)
  BY <1>1, Before
<1>3. makeValue(argv[i].text) = ValueOf(i - 1)
  <2>1. ~ argv[i - 1].eq
    BY <1>2 DEF TakesNext, Waits
  <2>2. (i - 1) + 1 = i
    BY <1>1, Before
  <2> QED
    BY <1>2, <2>1, <2>2 DEF ValueOf
<1>4. values' = SaidUpTo(i - 1)
  BY <1>1, <1>2, <1>3, ValueComes
<1>5. ~ IsOption(i) /\ ~ IsAlone(i) /\ ~ IsDashDash(argv[i])
  BY <1>1, <1>2 DEF IsOption, IsAlone, IsWord, IsDashDash
<1>6. values' = SaidUpTo(i) /\ ~ Waits(i) /\ standalones' = AloneUpTo(i)
  BY <1>1, <1>4, <1>5, Before, OneMore
<1>7. dashdash' \in BOOLEAN
  BY <1>1 DEF LineInv
<1> QED
  BY <1>1, <1>2, <1>5, <1>6, <1>7, TakenWell

\* What an argument with dashes does to the one before it.
LEMMA FlushedBefore ==
  ASSUME LineInv, i <= Len(argv), ~ dashdash, ~ IsWord(argv[i])
  PROVE  /\ Flush(values) = SaidUpTo(i - 1)
         /\ AloneUpTo(i) = standalones
         /\ ~ AfterDashDash(i)
<1>1. ~ TakesNext(i - 1) /\ i <= Len(argv) + 1 /\ ~ AfterDashDash(i)
  BY Before
<1>2. ~ IsAlone(i)
  BY <1>1 DEF IsAlone
<1> QED
  BY <1>1, <1>2, Before, OneMore, Flushed

LEMMA NoOptionStep ==
  ASSUME LineInv, NoOption PROVE LineInv'
<1>1. /\ i <= Len(argv) /\ NextArg
      /\ ~ dashdash /\ ~ IsWord(argv[i]) /\ argv[i].name = <<>>
      /\ dashdash' = IsDashDash(argv[i]) /\ values' = Flush(values)
      /\ hadopt' = <<>> /\ standalones' = standalones
  BY DEF NoOption, Parsing, Arg
<1>2. ~ IsOption(i)
  BY <1>1 DEF IsOption
<1>3. values' = SaidUpTo(i) /\ ~ Waits(i) /\ standalones' = AloneUpTo(i)
  BY <1>1, <1>2, Before, OneMore, FlushedBefore
<1>4. dashdash' \in BOOLEAN
  <2>1. IsDashDash(argv[i]) \in BOOLEAN
    BY DEF IsDashDash
  <2> QED
    BY <1>1, <2>1
<1>5. ~ AfterDashDash(i)
  BY <1>1, FlushedBefore
<1> QED
  BY <1>1, <1>3, <1>4, <1>5, TakenWell

\* The option an argument with dashes is.
LEMMA TheOption ==
  ASSUME LineInv, i <= Len(argv), ~ dashdash, ~ IsWord(argv[i]),
         argv[i].name # <<>>
  PROVE  /\ IsOption(i) /\ ~ IsDashDash(argv[i])
         /\ Waits(i) <=> ~ argv[i].eq /\ ~ Negated(LastOf(i))
         /\ SaidUpTo(i) =
              IF ~ Negated(LastOf(i))
                THEN Set(SetAll(SaidUpTo(i - 1), Flags(i), True), LastOf(i), ValueOf(i))
              ELSE IF ValueOf(i)[1] = "bool"
                THEN Set(SaidUpTo(i - 1), Positive(LastOf(i)),
                         <<"bool", ~ ValueOf(i)[2]>>)
              ELSE SaidUpTo(i - 1)
<1>1. IsOption(i) /\ ~ IsDashDash(argv[i])
  BY Before DEF IsOption, IsDashDash
<1>2. Waits(i) <=> ~ argv[i].eq /\ ~ Negated(LastOf(i))
  BY <1>1, Before DEF Waits, LastOf
<1> DEFINE n == i - 1
<1>3. n \in Nat /\ n + 1 = i /\ n + 1 \in 1 .. Len(argv) /\ argv \in Seq(Argument)
  BY Before
<1> HIDE DEF n
<1>4. IsOption(n + 1)
  BY <1>1, <1>3
<1>5. SaidUpTo(n + 1) =
        IF ~ Negated(LastOf(n + 1))
          THEN Set(SetAll(SaidUpTo(n), Flags(n + 1), True), LastOf(n + 1),
                   ValueOf(n + 1))
        ELSE IF ValueOf(n + 1)[1] = "bool"
          THEN Set(SaidUpTo(n), Positive(LastOf(n + 1)),
                   <<"bool", ~ ValueOf(n + 1)[2]>>)
        ELSE SaidUpTo(n)
  BY <1>3, <1>4, SaidByOption
<1> QED
  BY <1>1, <1>2, <1>3, <1>5 DEF n

LEMMA OptionWithValueStep ==
  ASSUME LineInv, OptionWithValue PROVE LineInv'
<1> DEFINE name == IF argv[i].dashes = 1 THEN <<Head(argv[i].name)>>
                   ELSE argv[i].name
           value == makeValue(IF argv[i].eq THEN argv[i].value ELSE "")
<1>1. /\ i <= Len(argv) /\ NextArg
      /\ ~ dashdash /\ ~ IsWord(argv[i]) /\ argv[i].name # <<>>
      /\ argv[i].eq \/ Negated(name)
      /\ values' = WithValue(Flush(values), name, value)
      /\ hadopt' = <<>> /\ dashdash' = dashdash /\ standalones' = standalones
  BY DEF OptionWithValue, Parsing, Arg
<1>2. /\ IsOption(i) /\ i \in 1 .. Len(argv) /\ argv \in Seq(Argument)
      /\ ~ IsDashDash(argv[i])
  BY <1>1, TheOption, Before
<1>3. name = LastOf(i) /\ Flags(i) = {}
  <2>1. CASE argv[i].dashes = 1 /\ argv[i].eq
    BY <1>2, <2>1, NamesOfOption
  <2>2. CASE argv[i].dashes = 1 /\ ~ argv[i].eq
    <3>1. ~ Negated(<<Head(argv[i].name)>>)
      BY DEF Negated
    <3> QED
      BY <1>1, <2>2, <3>1
  <2>3. CASE argv[i].dashes > 1
    <3>1. argv[i].dashes # 1
      BY <1>2, <2>3, ArgumentFields
    <3> QED
      BY <1>2, <2>3, <3>1, NamesOfOption
  <2> QED
    BY <1>2, <2>1, <2>2, <2>3, NamesOfOption
<1>4. ~ Waits(i)
  BY <1>1, <1>3, TheOption
<1>5. value = ValueOf(i)
  <2>1. CASE argv[i].eq
    BY <2>1 DEF ValueOf
  <2>2. CASE ~ argv[i].eq
    <3>1. ValueOf(i) = <<"bool", TRUE>>
      BY <1>4, <2>2 DEF ValueOf, TakesNext
    <3>2. makeValue("") = <<"bool", TRUE>>
      BY DEF makeValue
    <3> QED
      BY <2>2, <3>1, <3>2
  <2> QED
    BY <2>1, <2>2
<1> HIDE DEF name, value
<1>6. values' = SaidUpTo(i)
  <2>1. SetAll(SaidUpTo(i - 1), {}, True) = SaidUpTo(i - 1)
    BY SaidIsFunction, SetNone
  <2>2. Flush(values) = SaidUpTo(i - 1)
    BY <1>1, FlushedBefore
  <2>3. SaidUpTo(i) =
          IF ~ Negated(name) THEN Set(SaidUpTo(i - 1), name, value)
          ELSE IF value[1] = "bool"
            THEN Set(SaidUpTo(i - 1), Positive(name), <<"bool", ~ value[2]>>)
          ELSE SaidUpTo(i - 1)
    BY <1>1, <1>3, <1>5, <2>1, TheOption
  <2> QED
    BY <1>1, <2>2, <2>3 DEF WithValue
<1>7. standalones' = AloneUpTo(i) /\ ~ AfterDashDash(i)
  BY <1>1, FlushedBefore
<1>8. dashdash' \in BOOLEAN
  BY <1>1 DEF LineInv
<1> QED
  BY <1>1, <1>2, <1>4, <1>6, <1>7, <1>8, TakenWell

LEMMA OptionAloneStep ==
  ASSUME LineInv, OptionAlone PROVE LineInv'
<1>1. /\ i <= Len(argv) /\ NextArg
      /\ ~ dashdash /\ ~ IsWord(argv[i]) /\ argv[i].name # <<>> /\ ~ argv[i].eq
      /\ dashdash' = dashdash /\ standalones' = standalones
  BY DEF OptionAlone, Parsing, Arg
<1>2. /\ IsOption(i) /\ i \in 1 .. Len(argv) /\ argv \in Seq(Argument)
      /\ ~ IsDashDash(argv[i])
  BY <1>1, TheOption, Before
<1>3. Flush(values) = SaidUpTo(i - 1)
  BY <1>1, FlushedBefore
<1>4. /\ ~ Negated(LastOf(i)) /\ hadopt' = LastOf(i)
      /\ values' = SetAll(SaidUpTo(i - 1), Flags(i), True)
  <2>1. CASE argv[i].dashes = 1
    <3>1. ~ (argv[i].dashes > 1)
      BY <1>2, <2>1, ArgumentFields
    <3>2. /\ ~ Negated(LastOf(i))
          /\ LastOf(i) = <<argv[i].name[Len(argv[i].name)]>>
          /\ Flags(i) = {<<argv[i].name[n]>> : n \in 1 .. Len(argv[i].name) - 1}
      BY <1>1, <1>2, <2>1, NamesOfOption
    <3>3. /\ hadopt' = <<argv[i].name[Len(argv[i].name)]>>
          /\ values' = SetAll(Flush(values),
                              {<<argv[i].name[k]>> : k \in 1 .. Len(argv[i].name) - 1},
                              <<"bool", TRUE>>)
      BY <3>1 DEF OptionAlone, Arg
    <3> QED
      BY <1>3, <3>2, <3>3 DEF True
  <2>2. CASE argv[i].dashes > 1
    <3>1. argv[i].dashes # 1
      BY <1>2, <2>2, ArgumentFields
    <3>2. LastOf(i) = argv[i].name /\ Flags(i) = {}
      BY <1>2, <2>2, NamesOfOption
    <3>3. /\ ~ Negated(argv[i].name)
          /\ values' = Flush(values) /\ hadopt' = argv[i].name
      BY <3>1 DEF OptionAlone, Arg
    <3>4. SetAll(SaidUpTo(i - 1), {}, True) = SaidUpTo(i - 1)
      BY SaidIsFunction, SetNone
    <3> QED
      BY <1>3, <3>2, <3>3, <3>4
  <2> QED
    BY <1>2, <2>1, <2>2, NamesOfOption
<1>5. Waits(i)
  BY <1>1, <1>4, TheOption
<1>6. standalones' = AloneUpTo(i) /\ ~ AfterDashDash(i)
  BY <1>1, FlushedBefore
<1>7. dashdash' \in BOOLEAN
  BY <1>1 DEF LineInv
<1> QED
  BY <1>1, <1>2, <1>4, <1>5, <1>6, <1>7, TakenWell

LEMMA EndOfLineStep ==
  ASSUME LineInv, EndOfLine PROVE LineInv'
<1>1. /\ i = Len(argv) + 1 /\ i' = i + 1 /\ argv' = argv
      /\ values' = Flush(values) /\ hadopt' = <<>>
      /\ dashdash' = dashdash /\ standalones' = standalones
  BY DEF EndOfLine
<1>2. argv \in Seq(Argument) /\ Len(argv) \in Nat /\ i - 1 = Len(argv)
  BY <1>1 DEF LineInv
<1>3. ~ TakesNext(i - 1)
  BY <1>2 DEF TakesNext
<1>4. values' = SaidUpTo(Len(argv))
  BY <1>1, <1>2, <1>3, Flushed
<1>5. /\ Done = Len(argv) /\ Done' = Len(argv) /\ ~ Pending' /\ ~ (i' <= Len(argv') + 1)
      /\ i' \in 1 .. Len(argv') + 2
  <2>1. i' = Len(argv) + 2 /\ ~ (i' <= Len(argv') + 1) /\ ~ (i <= Len(argv))
        /\ ~ (i' <= Len(argv'))
    BY <1>1, <1>2
  <2>2. Done = Len(argv)
    BY <2>1 DEF Done
  <2>3. Done' = Len(argv)
    BY <1>1, <2>1 DEF Done
  <2>4. ~ Pending'
    BY <2>1 DEF Pending
  <2>5. i' \in 1 .. Len(argv') + 2
    BY <1>1, <1>2, <2>1
  <2> QED
    BY <2>1, <2>2, <2>3, <2>4, <2>5
<1>6. PICK n : n = Len(argv)
  OBVIOUS
<1>7. SaidUpTo(n)' = SaidUpTo(n) /\ AloneUpTo(n)' = AloneUpTo(n)
  BY <1>1, SameLine
<1>8. values' = SaidUpTo(Done)'
  BY <1>4, <1>5, <1>6, <1>7
<1>9. standalones' = AloneUpTo(Done)'
  <2>1. standalones = AloneUpTo(Done)
    BY DEF LineInv
  <2> QED
    BY <1>1, <1>5, <1>6, <1>7, <2>1
<1>10. argv' \in Seq(Argument) /\ dashdash' \in BOOLEAN
  BY <1>1 DEF LineInv
<1> QED
  BY <1>1, <1>5, <1>8, <1>9, <1>10 DEF LineInv

LEMMA LineKept ==
  ASSUME LineInv, UNCHANGED parseVars PROVE LineInv'
<1>1. /\ argv' = argv /\ i' = i /\ dashdash' = dashdash /\ hadopt' = hadopt
      /\ values' = values /\ standalones' = standalones
  BY DEF parseVars
<1>2. Done' = Done /\ (Pending' <=> Waits(i - 1)' /\ i <= Len(argv) + 1)
  BY <1>1 DEF Done, Pending
<1>3. PICK n, m, k, d : n = i /\ m = i - 1 /\ k = i - 2 /\ d = Done
  OBVIOUS
<1>4. /\ AfterDashDash(n)' <=> AfterDashDash(n)
      /\ Waits(m)' <=> Waits(m)
      /\ NamesOf(m)' = NamesOf(m)
      /\ SaidUpTo(k)' = SaidUpTo(k) /\ SaidUpTo(d)' = SaidUpTo(d)
      /\ AloneUpTo(d)' = AloneUpTo(d)
  BY <1>1, SameLine
<1>5. Flags(m)' = Flags(m) /\ LastOf(m)' = LastOf(m)
  BY <1>4 DEF Flags, LastOf
<1>6. AfterDashDash(i)' <=> AfterDashDash(i)
  BY <1>1, <1>3, <1>4
<1>7. Pending' <=> Pending
  BY <1>1, <1>2, <1>3, <1>4 DEF Pending
<1>8. AloneUpTo(Done)' = AloneUpTo(Done) /\ SaidUpTo(Done)' = SaidUpTo(Done)
  BY <1>2, <1>3, <1>4
<1>9. /\ LastOf(i - 1)' = LastOf(i - 1) /\ Flags(i - 1)' = Flags(i - 1)
      /\ SaidUpTo(i - 2)' = SaidUpTo(i - 2)
  BY <1>1, <1>3, <1>4, <1>5
<1> QED
  BY <1>1, <1>6, <1>7, <1>8, <1>9 DEF LineInv, SetAll, True

\* What is left when the line is parsed.
LEMMA LineParsed ==
  ASSUME LineInv, Parsed
  PROVE  values = ReferenceValues /\ standalones = ReferenceStandalones
<1>1. ~ Pending /\ Done = Len(argv)
  BY DEF Parsed, Pending, Done, LineInv
<1> QED
  BY <1>1 DEF LineInv, ReferenceValues, ReferenceStandalones

-----------------------------------------------------------------------------
(* What main() does with it.                                               *)

IsValue(v) == \E x : \/ v = <<"bool", x>> /\ x \in BOOLEAN
                     \/ v = <<"int", x>> /\ x \in Int
                     \/ v = <<"double", x>>
                     \/ v = <<"string", x>>

LEMMA MadeValue == ASSUME NEW text PROVE IsValue(makeValue(text))
<1>1. text \in DOMAIN Integral => Integral[text] \in Int
  BY NumbersAssumption
<1> QED
  BY <1>1 DEF IsValue, makeValue

LEMMA TruthValue == ASSUME NEW x \in BOOLEAN PROVE IsValue(<<"bool", x>>)
BY DEF IsValue

LEMMA SaidValue ==
  ASSUME NEW k, NEW name \in DOMAIN SaidBy(k)
  PROVE  IsValue(SaidBy(k)[name])
<1>1. IsValue(ValueOf(k)) /\ IsValue(<<"bool", TRUE>>)
  BY MadeValue, TruthValue DEF ValueOf
<1> DEFINE last == Last(NamesOf(k))
           value == ValueOf(k)
           names == Range(NamesOf(k))
           both == Set(SetAll(Empty, names, <<"bool", TRUE>>), last, value)
           other == Set(Empty, Positive(last), <<"bool", ~ value[2]>>)
<1>2. SaidBy(k) \in {Empty, both, other}
      /\ (SaidBy(k) = other => value[1] = "bool" \/ SaidBy(k) \in {Empty, both})
  BY DEF SaidBy
<1>3. \A n \in DOMAIN both : both[n] = value \/ both[n] = <<"bool", TRUE>>
  BY DEF Set, SetAll, Empty
<1>4. \A n \in DOMAIN other : other[n] = <<"bool", ~ value[2]>>
  BY DEF Set, SetAll, Empty
<1>5. DOMAIN Empty = {}
  BY DEF Empty
<1> HIDE DEF both, other, value
<1>6. value[1] = "bool" => IsValue(<<"bool", ~ value[2]>>)
  <2>1. value[1] = "bool" => (~ value[2]) \in BOOLEAN
    BY <1>1 DEF IsValue, value
  <2> QED
    BY <2>1, TruthValue
<1> QED
  BY <1>1, <1>2, <1>3, <1>4, <1>5, <1>6 DEF value

\* find() finds what the line gives.
LEMMA FoundIsGiven ==
  ASSUME LineInv, Parsed, NEW long, NEW short
  PROVE  /\ find(long, short) = Given(long, short)
         /\ IsValue(Given(long, short)) \/ Given(long, short) = <<"none">>
<1> DEFINE n == Len(argv)
           said(name) == SaidBy(Max(SayersOf(name, n)))[name]
<1>1. values = SaidUpTo(n)
  BY LineParsed DEF ReferenceValues
<1>2. n \in Nat
  BY DEF LineInv
<1> HIDE DEF n
<1>3. ASSUME NEW name
      PROVE  /\ name \in DOMAIN values <=> SayersOf(name, n) # {}
             /\ name \in DOMAIN values => values[name] = said(name)
  BY <1>1 DEF SaidUpTo, SayersOf
<1>4. ASSUME NEW name, SayersOf(name, n) # {} PROVE IsValue(said(name))
  <2>1. SayersOf(name, n) \in SUBSET (0 .. n)
    BY <1>2 DEF SayersOf
  <2>2. Max(SayersOf(name, n)) \in SayersOf(name, n)
    BY <1>2, <1>4, <2>1, MaxOf
  <2>3. name \in DOMAIN SaidBy(Max(SayersOf(name, n)))
    BY <2>2 DEF SayersOf
  <2> QED
    BY <2>3, SaidValue
<1> HIDE DEF said
<1>5. Given(long, short) = IF SayersOf(long, n) # {} THEN said(long)
                           ELSE IF SayersOf(short, n) # {} THEN said(short)
                           ELSE <<"none">>
  BY DEF Given, said, n
<1> QED
  BY <1>3, <1>4, <1>5 DEF find

\* int to uint16_t gives a port, and loses nothing of one.
LEMMA PortRange == ASSUME NEW port \in Ports PROVE port >= 0 /\ port < 65536 /\ port \in Int
BY SMTT(30) DEF Ports

LEMMA NarrowGivesPort == ASSUME NEW port \in Int PROVE Narrow(port) \in Ports
BY SMTT(30) DEF Ports, Narrow

LEMMA NarrowKeepsPort == ASSUME NEW port \in Ports PROVE Narrow(port) = port
BY PortRange DEF Narrow

PortName == <<"p", "o", "r", "t">>
ThePort == Narrow(get("int", PortName, <<"p">>, DefaultPort))

MainInv ==
  /\ LineInv
  /\ phase \in {"main", "start", "run", "exit"}
  /\ phase = "exit" => Parsed /\ HostName[1] # "string"
  /\ phase = "start" => /\ Parsed /\ HostName[1] = "string"
                        /\ settings.host = HostName[2]
                        /\ settings.port = ThePort

LEMMA MainInit == Init => MainInv
<1> SUFFICES ASSUME Init PROVE MainInv
  OBVIOUS
<1>1. PICK line \in Lines : InitOptions(line)
  BY DEF Init
<1>2. LineInv
  BY <1>1, LinesAssumption, LineInit
<1> QED
  BY <1>2 DEF Init, MainInv

LEMMA LineReset == InitOptions(<<>>)' => LineInv'
BY EmptyLine, PTL

LEMMA MainStep == MainInv /\ [Next]_clientVars => MainInv'
<1> SUFFICES ASSUME MainInv, [Next]_clientVars PROVE MainInv'
  OBVIOUS
<1>1. LineInv
  BY DEF MainInv
<1>2. ASSUME UNCHANGED parseVars
      PROVE  /\ LineInv' /\ (Parsed' <=> Parsed) /\ HostName' = HostName
             /\ ThePort' = ThePort
  <2>1. LineInv'
    BY <1>1, <1>2, LineKept
  <2> QED
    BY <1>2, <2>1 DEF parseVars, Parsed, HostName, ThePort, get, find
<1>3. CASE ParseLine
  <2>1. LineInv'
    BY <1>1, <1>3, StandaloneStep, ValueOfOptionStep, NoOptionStep,
       OptionWithValueStep, OptionAloneStep, EndOfLineStep DEF ParseLine, Parse
  <2>2. phase = "main" /\ phase' = phase
    BY <1>3 DEF ParseLine, mainVars
  <2> QED
    BY <2>1, <2>2 DEF MainInv
<1>4. CASE NeedHost
  BY <1>2, <1>4 DEF NeedHost, MainInv
<1>5. CASE ReadOptions
  <2>1. /\ UNCHANGED parseVars /\ Parsed /\ HostName[1] = "string"
        /\ phase' = "start" /\ settings'.host = HostName[2]
        /\ settings'.port = ThePort
    BY <1>5 DEF ReadOptions, ThePort, PortName
  <2> QED
    BY <1>2, <2>1 DEF MainInv
<1>6. CASE StartThreads
  <2>1. InitOptions(<<>>)' /\ phase' = "run"
    BY <1>6 DEF StartThreads, InitOptions
  <2> QED
    BY <2>1, LineReset DEF MainInv
<1>7. CASE Run(NextVideo) \/ UNCHANGED clientVars
  <2>1. UNCHANGED parseVars /\ UNCHANGED mainVars
    BY <1>7 DEF Run, clientVars
  <2> QED
    BY <1>2, <2>1 DEF MainInv, mainVars
<1> QED
  BY <1>3, <1>4, <1>5, <1>6, <1>7 DEF Next, Main

LEMMA MainInvariant == Spec => []MainInv
BY MainInit, MainStep, PTL DEF Spec

\* The values and the standalones of every command line are what it says when
\* it is read as a whole, with the special cases for "-ab=c" and "--no-name".
THEOREM ParserReadsTheWhole == Spec => []LineReadAsAWhole
<1>1. MainInv => LineReadAsAWhole
  BY LineParsed DEF MainInv, LineReadAsAWhole
<1> QED
  BY <1>1, MainInvariant, PTL

\* main() returns 1 when the command line names no host, and otherwise starts
\* the client with that host and with the port it gives, if that fits 16 bits.
THEOREM StartsAsTold == Spec => []StartsWithWhatWasGiven
<1>1. MainInv => StartsWithWhatWasGiven
  <2> SUFFICES ASSUME MainInv PROVE StartsWithWhatWasGiven
    OBVIOUS
  <2>1. phase \in {"exit", "start"} =>
          /\ HostName = HostGiven
          /\ IsValue(HostGiven) \/ HostGiven = <<"none">>
          /\ find(PortName, <<"p">>) = PortGiven
          /\ IsValue(PortGiven) \/ PortGiven = <<"none">>
    BY FoundIsGiven DEF MainInv, HostName, HostGiven, PortGiven, PortName
  <2>2. phase = "exit" => HostGiven[1] # "string"
    BY <2>1 DEF MainInv
  <2>3. ASSUME phase = "start" PROVE HostGiven = <<"string", settings.host>>
    <3>1. HostGiven[1] = "string" /\ settings.host = HostGiven[2]
      BY <2>1, <2>3 DEF MainInv
    <3>2. HostGiven # <<"none">>
      BY <3>1
    <3> QED
      BY <2>1, <2>3, <3>1, <3>2 DEF IsValue
  <2>4. ASSUME phase = "start"
        PROVE  /\ settings.port \in Ports
               /\ IF PortGiven[1] = "int"
                    THEN PortGiven[2] \in Ports => settings.port = PortGiven[2]
                    ELSE settings.port = 5198
    <3>1. settings.port = Narrow(IF PortGiven[1] = "int" THEN PortGiven[2] ELSE 5198)
      BY <2>1, <2>4 DEF MainInv, ThePort, get, DefaultPort
    <3>2. PortGiven[1] = "int" => PortGiven[2] \in Int
      BY <2>1, <2>4 DEF IsValue
    <3>3. CASE PortGiven[1] = "int"
      <4>1. PICK port \in Int : port = PortGiven[2]
        BY <3>2, <3>3
      <4>2. settings.port = Narrow(port)
        BY <3>1, <3>3, <4>1
      <4>3. PortGiven[2] \in Ports => settings.port = port
        BY <4>1, <4>2, NarrowKeepsPort
      <4>4. settings.port \in Ports
        BY <4>2, NarrowGivesPort
      <4> QED
        BY <3>3, <4>1, <4>3, <4>4
    <3>4. CASE PortGiven[1] # "int"
      <4>1. settings.port = Narrow(5198)
        BY <3>1, <3>4
      <4>2. 5198 \in Ports
        BY DEF Ports
      <4> QED
        BY <3>4, <4>1, <4>2, NarrowKeepsPort
    <3> QED
      BY <3>3, <3>4
  <2> QED
    BY <2>2, <2>3, <2>4 DEF StartsWithWhatWasGiven
<1> QED
  BY <1>1, MainInvariant, PTL
=============================================================================
