------------------------------ MODULE Capture ------------------------------
(***************************************************************************)
(* A screenshot of drission.py: the page and its embedded frame are read,  *)
(* the pixels are taken, both are read again, and what was read must agree *)
(* (capture_consistency.py).  Document, frame and pixels are separate      *)
(* commands of one websocket, and the page runs between any two of them.   *)
(*                                                                         *)
(* A protected input is on the page or in the frame, or it is not; where a *)
(* mask is painted and how (image_privacy.py) is left out, so the page may *)
(* scroll to and fro.  The epochs are counters that snapshot.js keeps in   *)
(* the document, where inputs that come or go are mutations that count.    *)
(* That a document took the place of another is counted by the driver's    *)
(* event thread, which nothing waits for: some time later.                 *)
(***************************************************************************)
EXTENDS Integers, FiniteSets

CONSTANT PageSteps  \* bound: what the page does during one observation

ASSUME CaptureConstants == PageSteps \in Nat

VARIABLES
    page,     \* the document, and what snapshot.js knows of each document
    frame,    \* the same of its frame
    life,     \* state.frame_lifetime_epoch
    uncounted, \* changes of document whose events the driver has yet to handle
    policy,   \* cfg.iframe_screenshot_policy
    wanted,   \* the observation's mode: the image is what it is for, or an extra
    step,     \* the next command of the observation, and its attempt
    text,     \* the document whose text the answer has
    seen,     \* data: what was read last, completely
    reading,  \* what the reading under way has of the page: a set of at most one
    framed,   \* and of its frame
    proof,    \* geometry: what has to be the same after the pixels
    picture,  \* the protected inputs that are on the pixels unmasked
    answer,
    pageSteps

capVars == <<page, frame, life, uncounted, policy, wanted, step, text, seen, reading, framed, proof, picture,
             answer, pageSteps>>

NotRead == {}
Documents == {1, 2}
Places == {"here", "there"}
Fresh == [secret : BOOLEAN, epoch : {0}]
-----------------------------------------------------------------------------
\* What the browser shows, and what can be read of it

View(w) == [doc |-> w.doc, at |-> w.at,
            secret |-> w.kept[w.doc].secret, epoch |-> w.kept[w.doc].epoch]
Shown == (IF View(page).secret THEN {"page"} ELSE {}) \cup
         (IF View(frame).secret THEN {"frame"} ELSE {})

\* _capture_regions: the regions that will be painted over.
Masks(data) ==
    (IF data.page.secret THEN {"page"} ELSE {}) \cup
    (IF data.frame.secret \/ policy = "mask" THEN {"frame"} ELSE {})

\* _capture_consistency.  Only of a readable frame are document and epoch known.
Consistency_PresentOnly(data) ==
    [document |-> data.page.doc,
     scroll |-> data.page.at,
     frame_document |-> IF data.frame.secret THEN 0 ELSE data.frame.doc,
     public_frame_geometry |-> IF data.frame.secret THEN "none" ELSE data.frame.at,
     protected_geometry |-> [page |-> data.page.secret, frame |-> data.frame.secret,
                             at |-> IF data.frame.secret THEN data.frame.at ELSE "none"],
     privacy_history |-> 0]
Consistency(data) ==
    [document |-> data.page.doc,
     scroll |-> data.page.at,
     frame_document |-> [key |-> IF data.frame.secret THEN 0 ELSE data.frame.doc,
                         life |-> data.life],
     public_frame_geometry |-> IF data.frame.secret THEN "none" ELSE data.frame.at,
     protected_geometry |-> [page |-> data.page.secret, frame |-> data.frame.secret,
                             at |-> IF data.frame.secret THEN data.frame.at ELSE "none"],
     privacy_history |-> [page |-> data.page.epoch,
                          frame |-> IF data.frame.secret THEN 0 ELSE data.frame.epoch]]

Changed(before, after) == {key \in DOMAIN before : before[key] # after[key]}
Retryable == {"scroll", "public_frame_geometry"}
-----------------------------------------------------------------------------
Init_Capture ==
    /\ page \in [doc : {1}, at : {"here"}, kept : [Documents -> Fresh]]
    /\ frame \in [doc : {1}, at : {"here"}, kept : [Documents -> Fresh]] /\ life = 0 /\ uncounted = 0
    /\ policy \in {"allow", "mask", "block"} /\ wanted \in {"image", "extra"}
    /\ step = [at |-> "text", attempt |-> 1]
    /\ text = 0 /\ seen = NotRead /\ reading = NotRead /\ framed = NotRead /\ proof = NotRead
    /\ picture = {} /\ answer = "none" /\ pageSteps = 0
-----------------------------------------------------------------------------
\* The page runs

Runs == answer = "none" /\ pageSteps < PageSteps /\ pageSteps' = pageSteps + 1
Observer == <<policy, wanted, step, text, seen, reading, framed, proof, picture, answer>>
Stays == UNCHANGED <<life, uncounted, Observer>>

Mutated(w) == [w EXCEPT !.kept[w.doc].epoch = @ + 1]
Other(place) == CHOOSE p \in Places : p # place

\* A protected input comes or goes: a mutation that counts.
PageInput ==
    /\ Runs /\ page' = [Mutated(page) EXCEPT !.kept[page.doc].secret = ~@] /\ UNCHANGED frame /\ Stays
FrameInput ==
    /\ Runs /\ frame' = [Mutated(frame) EXCEPT !.kept[frame.doc].secret = ~@] /\ UNCHANGED page /\ Stays

PageScrolls == Runs /\ page' = [page EXCEPT !.at = Other(@)] /\ UNCHANGED frame /\ Stays

\* Moving a frame that was found public does not count, moving another one does.
FrameMoves ==
    /\ Runs /\ frame' = [frame EXCEPT !.at = Other(@)]
    /\ page' = IF View(frame).secret THEN Mutated(page) ELSE page
    /\ Stays

\* Another document, new or one that the browser kept and brings back as it was: an
\* event of it is on its way.
Swaps == uncounted' = uncounted + 1 /\ UNCHANGED <<life, Observer>>
PageGoes ==
    /\ Runs /\ \E d \in Documents, f \in Documents :
                 page' = [page EXCEPT !.doc = d] /\ frame' = [frame EXCEPT !.doc = f]
    /\ Swaps
FrameGoes ==
    /\ Runs /\ \E d \in Documents : frame' = [frame EXCEPT !.doc = d]
    /\ UNCHANGED page /\ Swaps

\* The driver's thread handles the next event.
CountsSwap ==
    /\ answer = "none" /\ uncounted > 0 /\ uncounted' = uncounted - 1 /\ life' = life + 1
    /\ UNCHANGED <<page, frame, pageSteps, Observer>>
-----------------------------------------------------------------------------
\* observe and _capture_image

To(at) == step' = [step EXCEPT !.at = at]
Page == <<page, frame, life, uncounted, policy, wanted, pageSteps>>

\* _capture_page reads the page, then its frame, and at last the lifetimes as counted
\* so far.
ReadPage ==
    /\ answer = "none" /\ step.at \in {"text", "after", "again"} /\ reading = NotRead
    /\ reading' = {View(page)}
    /\ UNCHANGED <<Page, step, text, seen, framed, proof, picture, answer>>
ReadFrame ==
    /\ answer = "none" /\ reading # NotRead /\ framed = NotRead /\ framed' = {View(frame)}
    /\ UNCHANGED <<Page, step, text, seen, reading, proof, picture, answer>>
PageRead == CHOOSE p \in reading : TRUE
Read == [page |-> PageRead, frame |-> CHOOSE f \in framed : TRUE, life |-> life]
CanRead(at) ==
    /\ step.at = at /\ framed # NotRead /\ reading' = NotRead /\ framed' = NotRead /\ answer = "none"

ReadText ==
    /\ CanRead("text") /\ seen' = Read /\ text' = Read.page.doc /\ To("pixels")
    /\ UNCHANGED <<Page, proof, picture, answer>>

\* The pixels are taken of whatever is there by now.
Pixels ==
    /\ answer = "none" /\ step.at = "pixels" /\ policy # "block" /\ To("after")
    /\ proof' = Consistency(seen) /\ picture' = Shown \ Masks(seen)
    /\ UNCHANGED <<Page, text, seen, reading, framed, answer>>

\* An explicit request fails; an extra is left out, while the text is of this page.
Omitted(doc) == IF wanted = "image" \/ doc # text THEN "error" ELSE "text"
Fails(doc) == answer' = Omitted(doc) /\ UNCHANGED <<Page, step, text, seen, proof, picture>>

\* Framed content, no memory for the image, or the 15 seconds are over.
Refuse ==
    /\ answer = "none" /\ step.at = "pixels" /\ Fails(seen.page.doc) /\ UNCHANGED <<reading, framed>>
TimeOver ==
    /\ answer = "none" /\ step.at \in {"after", "again"}
    /\ Fails(IF reading = NotRead THEN seen.page.doc ELSE PageRead.doc) /\ UNCHANGED <<reading, framed>>

\* The second reading agrees with the first, and the picture is given.
Agreed ==
    /\ CanRead("after") /\ Changed(proof, Consistency(Read)) = {}
    /\ answer' = "image" /\ UNCHANGED <<Page, step, text, seen, proof, picture>>

\* Only what is shown moved: wait and try once more, from a third reading.
MayRetry_Always == Changed(proof, Consistency(Read)) \subseteq Retryable
MayRetry == step.attempt = 1 /\ Changed(proof, Consistency(Read)) \subseteq Retryable
Retry ==
    /\ CanRead("after") /\ Changed(proof, Consistency(Read)) # {} /\ MayRetry
    /\ proof' = Consistency(Read) /\ To("again")
    /\ UNCHANGED <<Page, text, seen, picture, answer>>
Disagreed ==
    /\ CanRead("after") /\ Changed(proof, Consistency(Read)) # {} /\ ~MayRetry
    /\ Fails(Read.page.doc)

\* The gap before the second attempt is no permission to begin a new proof.
GapAllowed == Changed(proof, Consistency(Read)) \subseteq Retryable
Again ==
    /\ CanRead("again") /\ GapAllowed
    /\ seen' = Read /\ step' = [at |-> "pixels", attempt |-> step.attempt + 1]
    /\ UNCHANGED <<Page, text, proof, picture, answer>>
GapRefused == CanRead("again") /\ ~GapAllowed /\ Fails(Read.page.doc)
-----------------------------------------------------------------------------
Next_Capture ==
    \/ PageInput \/ FrameInput \/ PageScrolls \/ FrameMoves \/ PageGoes \/ FrameGoes \/ CountsSwap
    \/ ReadPage \/ ReadFrame \/ ReadText \/ Pixels \/ Refuse \/ TimeOver
    \/ Agreed \/ Retry \/ Disagreed \/ Again \/ GapRefused

Spec_Capture == Init_Capture /\ [][Next_Capture]_capVars
-----------------------------------------------------------------------------
CaptureTypeOK ==
    /\ {page, frame} \subseteq [doc : Documents, at : Places,
                               kept : [Documents -> [secret : BOOLEAN, epoch : 0..PageSteps]]]
    /\ {life, uncounted, pageSteps} \subseteq 0..PageSteps
    /\ policy \in {"allow", "mask", "block"} /\ wanted \in {"image", "extra"}
    /\ step \in [at : {"text", "pixels", "after", "again"}, attempt : {1, 2}]
    /\ text \in Documents \cup {0} /\ answer \in {"none", "image", "text", "error"}

\* A picture that is given shows no protected input that was not masked, whatever the
\* page did between the readings and the pixels - unless a document took the place of
\* another and the driver has still not handled that event when the picture is given;
\* and it is of the page whose text is given with it.
NothingExposed ==
    answer = "image" => /\ policy # "block" /\ proof.document = text
                        /\ picture = {} \/ uncounted > 0
=============================================================================
