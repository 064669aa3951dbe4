----------------------------- MODULE VideoOutput -----------------------------
(***************************************************************************)
(* What becomes of a video frame after the renderer has put it together    *)
(* (clients/mac/Renderer.cpp, Renderer.h and View.mm), on three threads:   *)
(*                                                                         *)
(*   - the renderer's, which submits frames to the decoder and asks the    *)
(*     main thread for a window when the geometry is known;                *)
(*   - the decoder's, which calls Renderer::decoded() for each frame, in   *)
(*     the order of submission and one at a time;                          *)
(*   - the main thread, which runs one dispatched block after another.     *)
(*                                                                         *)
(* dispatch_sync makes the other two wait for their block.  A frame is     *)
(* named by the number of the packet it came in, and so is a pts; 0 is no  *)
(* image, no texture and the pts of no packet.  How a packet becomes a     *)
(* frame, and whether it does, is the subject of module Renderer; here it  *)
(* is a choice.                                                            *)
(***************************************************************************)
EXTENDS Integers, Sequences

CONSTANTS
  MaxPackets,    \* bound: packets of the H.264 stream
  MaxViews,      \* bound: times the stream's geometry is announced
  InFlight       \* frames the decoder takes before it makes submitters wait

ASSUME BoundsAssumption == /\ MaxPackets \in Nat
                           /\ MaxViews \in Nat
                           /\ InFlight \in Nat \ {0}

VARIABLES
  pc,            \* the renderer: "idle", "geometry" while it waits for a window,
                 \* "submit" in handlePacket, "decode" in DecodeFrame
  geometry,      \* mWidth > 0 && mHeight > 0
  mDecoder,      \* the decompression session exists
  packets,       \* how many packets of the stream were delivered
  mCurrentPts,
  inDecoder,     \* the frames submitted and not yet decoded
  frame,         \* the frame decoded() is called for, or 0
  image,         \* the ImageBuffer of that call: the frame it holds, or 0
  imagePts,      \* its pts argument
  slot,          \* the slot of image() to be called next
  calls,         \* how many slots image() had when the call began
  slots,         \* how many slots are connected to image()
  views,         \* the windows, mPriv->glview being the last
  refs           \* the retain count of each frame's pixel buffer

rendererVars == <<pc, geometry, mDecoder, packets, mCurrentPts>>
callVars == <<frame, image, imagePts, slot, calls>>
viewVars == <<slots, views>>
videoVars == <<rendererVars, inDecoder, callVars, viewVars, refs>>

Frames == 1 .. MaxPackets
NewView == [texture |-> 0, image |-> 0]

InitVideo ==
  /\ pc = "idle" /\ geometry = FALSE /\ mDecoder = FALSE
  /\ packets = 0 /\ mCurrentPts = 0
  /\ inDecoder = <<>>
  /\ frame = 0 /\ image = 0 /\ imagePts = 0 /\ slot = 0 /\ calls = 0
  /\ slots = 0 /\ views = <<>>
  /\ refs = [f \in Frames |-> 0]

-----------------------------------------------------------------------------
(* ImageBuffer.                                                            *)

\* The retain counts after CVPixelBufferRelease and CVPixelBufferRetain.
Released(r, f) == IF f = 0 THEN r ELSE [r EXCEPT ![f] = @ - 1]
Retained(r, f) == IF f = 0 THEN r ELSE [r EXCEPT ![f] = @ + 1]

-----------------------------------------------------------------------------
(* Faulty variants of the definitions below, each a plausible mistake in   *)
(* the code; no specification uses them.                                   *)

\* operator= forgets the image it held
AssignForgets(view) == refs
\* operator= releases the image it takes as well
AssignReleasesBoth(view) == Released(Released(refs, view.image), image)
\* operator= leaves other.mRef alone
AssignCopies == image
\* handlePacket does not take over the pts of the packet
PtsForgotten == mCurrentPts
\* the block tries again until there is a texture
NoTextureRetries == /\ frame # 0
                    /\ slot <= slots
                    /\ UNCHANGED videoVars

-----------------------------------------------------------------------------
(* The renderer's thread.                                                  *)

\* The info signal for the H.264 stream: mGeometryChange, whose slot waits
\* for the main thread.
Info(known) == /\ pc = "idle"
               /\ Len(views) < MaxViews
               /\ geometry' = known
               /\ pc' = "geometry"
               /\ UNCHANGED <<mDecoder, packets, mCurrentPts, inDecoder,
                              callVars, viewVars, refs>>

\* A packet that is dropped: before the geometry is known, or because no
\* decoder could be made from it.
DropPacket == /\ pc = "idle"
              /\ packets < MaxPackets
              /\ ~mDecoder
              /\ packets' = packets + 1
              /\ UNCHANGED <<pc, geometry, mDecoder, mCurrentPts, inDecoder,
                             callVars, viewVars, refs>>

PtsOfPacket == packets + 1

\* A packet that goes to handlePacket, after createDecoder if need be.
HandlePacket == /\ pc = "idle"
                /\ packets < MaxPackets
                /\ mDecoder \/ geometry
                /\ packets' = packets + 1
                /\ mDecoder' = TRUE
                /\ mCurrentPts' = PtsOfPacket
                /\ pc' = "submit"
                /\ UNCHANGED <<geometry, inDecoder, callVars, viewVars, refs>>

\* The packet has no slice, or a call that makes the sample buffer fails.
NoFrame == /\ pc = "submit"
           /\ pc' = "idle"
           /\ UNCHANGED <<geometry, mDecoder, packets, mCurrentPts, inDecoder,
                          callVars, viewVars, refs>>

HasFrame == /\ pc = "submit"
            /\ pc' = "decode"
            /\ UNCHANGED <<geometry, mDecoder, packets, mCurrentPts, inDecoder,
                           callVars, viewVars, refs>>

\* VTDecompressionSessionDecodeFrame returns, which it does only when the
\* decoder has room; the decoder has the frame, or the call has failed.
DecodeFrame(ok) ==
  /\ pc = "decode"
  /\ Len(inDecoder) < InFlight
  /\ inDecoder' = IF ok THEN Append(inDecoder, packets) ELSE inDecoder
  /\ pc' = "idle"
  /\ UNCHANGED <<geometry, mDecoder, packets, mCurrentPts,
                 callVars, viewVars, refs>>

-----------------------------------------------------------------------------
(* The decoder's thread.                                                   *)

\* decoded() begins.  A frame that could not be decoded has no image; the
\* status is not looked at.
Decoded(ok) ==
  /\ frame = 0
  /\ inDecoder # <<>>
  /\ inDecoder' = Tail(inDecoder)
  /\ frame' = Head(inDecoder)
  /\ image' = IF ok THEN frame' ELSE 0
  /\ refs' = Retained(refs, image')
  /\ imagePts' = mCurrentPts
  /\ slot' = 1 /\ calls' = slots
  /\ UNCHANGED <<rendererVars, viewVars>>

\* Every slot that was there when the call began has been called; one that
\* was connected since may or may not be.
CallsReturned == slot > calls

\* decoded() returns, and the ImageBuffer lets go of what it still holds.
DecodedReturns ==
  /\ frame # 0
  /\ CallsReturned
  /\ refs' = Released(refs, image)
  /\ frame' = 0 /\ image' = 0 /\ imagePts' = 0 /\ slot' = 0 /\ calls' = 0
  /\ UNCHANGED <<rendererVars, inDecoder, viewVars>>

-----------------------------------------------------------------------------
(* The main thread.                                                        *)

\* The block of geometryChange: another window, and another slot for it.
CreateView == /\ pc = "geometry"
              /\ views' = Append(views, NewView)
              /\ slots' = slots + 1
              /\ pc' = "idle"
              /\ UNCHANGED <<geometry, mDecoder, packets, mCurrentPts,
                             inDecoder, callVars, refs>>

CurrentView == Len(views)

\* What operator=(ImageBuffer&&) does to the counts, and to the image moved.
Assign(view) == Released(refs, view.image)
Moved == 0

\* The block of a slot of image(): the current window gets a texture of the
\* image, and the image with it.
ShowImage == /\ frame # 0
             /\ slot <= slots
             /\ image # 0
             /\ views' = [views EXCEPT ![CurrentView] =
                                         [texture |-> image, image |-> image]]
             /\ refs' = Assign(views[CurrentView])
             /\ image' = Moved
             /\ slot' = slot + 1
             /\ UNCHANGED <<rendererVars, inDecoder, frame, imagePts, calls,
                            slots>>

\* The same block when no texture can be made, as of an ImageBuffer that
\* holds nothing.
NoTexture == /\ frame # 0
             /\ slot <= slots
             /\ slot' = slot + 1
             /\ UNCHANGED <<rendererVars, inDecoder, frame, image, imagePts,
                            calls, viewVars, refs>>

-----------------------------------------------------------------------------
RendererThread == NoFrame \/ HasFrame \/ \E ok \in BOOLEAN : DecodeFrame(ok)
DecoderThread == (\E ok \in BOOLEAN : Decoded(ok)) \/ DecodedReturns
ImageBlock == ShowImage \/ NoTexture
MainThread == CreateView \/ ImageBlock

NextVideo == \/ \E known \in BOOLEAN : Info(known)
             \/ DropPacket
             \/ HandlePacket
             \/ RendererThread
             \/ DecoderThread
             \/ MainThread

SpecVideo == InitVideo /\ [][NextVideo]_videoVars
=============================================================================
