------------------------ MODULE VideoOutputProperties ------------------------
(* What must hold of the frames between the renderer and the windows.      *)
EXTENDS VideoOutput

None == 0
Views == 1 .. Len(views)

\* Who holds the pixel buffer of frame f: the decoder's callback, or the
\* windows.
CallHolds(f) == image = f
ViewHolds(k, f) == views[k].image = f
Held(f) == CallHolds(f) \/ \E k \in Views : ViewHolds(k, f)

View == [texture : 0 .. MaxPackets, image : 0 .. MaxPackets]

\* The variables have their types; no pixel buffer is released more often
\* than it was retained.
TypeOK ==
  /\ pc \in {"idle", "geometry", "submit", "decode"}
  /\ geometry \in BOOLEAN /\ mDecoder \in BOOLEAN
  /\ packets \in 0 .. MaxPackets /\ mCurrentPts \in 0 .. MaxPackets
  /\ inDecoder \in Seq(Frames) /\ Len(inDecoder) \in 0 .. InFlight
  /\ frame \in 0 .. MaxPackets /\ image \in {None, frame}
  /\ imagePts \in 0 .. MaxPackets
  /\ slot \in Nat /\ calls \in Nat /\ slots \in Nat
  /\ views \in Seq(View)
  /\ Len(views) \in 0 .. MaxViews
  /\ refs \in [Frames -> Nat]

\* The pts that comes with an image is read when the decoder calls back, not
\* when the frame was submitted.  It may be that of a later packet, but never
\* that of an earlier one: the pts is set before the frame is submitted.
PtsNotBehind == frame # 0 => imagePts >= frame

\* Every pixel buffer is retained once for the one ImageBuffer that holds it,
\* and not at all when none does, whatever the number of slots that are
\* offered the same image, windows that are made in the meantime, and
\* textures that fail.  None is leaked and none is released too often.
ImagesBalanced ==
  /\ \A f \in Frames : refs[f] = IF Held(f) THEN 1 ELSE 0
  /\ \A k \in Views :
       views[k].image # None =>
         /\ ~CallHolds(views[k].image)
         /\ \A m \in Views \ {k} : ~ViewHolds(m, views[k].image)

\* An image that a window comes to show is newer than all that are shown, the
\* older windows included: nothing is shown twice, or replaced by something
\* older, although the image is read by blocks that run later and the window
\* they write to may have been made in the meantime.
ShownInOrder ==
  [][\A k \in Views :
       views'[k].texture # views[k].texture =>
         \A m \in Views : views[m].texture < views'[k].texture]_videoVars

-----------------------------------------------------------------------------
InCallOrQueue(f) == frame = f \/ \E k \in 1 .. Len(inDecoder) : inDecoder[k] = f

\* Every frame that was submitted comes out of the decoder and the call that
\* hands it out returns, although it waits for the main thread once for every
\* slot and slots are connected in the meantime; and the renderer gets out of
\* what it waits for: the main thread, which makes a window for a geometry
\* while the blocks of an image are waiting for it too, and the decoder, which
\* has no room until those blocks have run.
NobodyWaitsForEver ==
  /\ \A f \in Frames : InCallOrQueue(f) ~> ~InCallOrQueue(f)
  /\ pc # "idle" ~> pc = "idle"
=============================================================================
