-------------------------------- MODULE Acts --------------------------------
(***************************************************************************)
(* One action in one tab: prepare and act of drission.py, with the node    *)
(* registry, the native input of input_driver.py and the dialogs of        *)
(* events.py, while the page goes on changing between any two calls to the *)
(* browser and a human may take private control between two actions.       *)
(*                                                                         *)
(* The client knows one element of the page, by the node id it was given.  *)
(* What the element is, says and holds is its meaning.  Actions differ in  *)
(* how their input finds it: by a pointer at its place, by the keyboard    *)
(* focus, or through the node itself.                                      *)
(***************************************************************************)
EXTENDS Integers

CONSTANTS
    Meanings,   \* what the element may be, say and hold
    Vanished,       \* the element is no longer in the document
    MaxDocuments, MaxDialogs, MaxControls \* bounds: how often each comes to be

ASSUME ActsConstants ==
    Vanished \notin Meanings /\ {MaxDocuments, MaxDialogs, MaxControls} \subseteq Nat /\ MaxDocuments >= 1

VARIABLES
    doc,        \* the document in the tab
    meaning,    \* of the element the client knows
    hit,        \* on top at the point of the action: the element, or another
    focused,    \* has the keyboard focus: the element, or another
    down,       \* the page takes a key or button for pressed
    dialog,     \* the dialog that is open, 0 if none
    dialogs,    \* how many have been opened
    closings,   \* "closed" events that the event thread has not handled
    knownDialog,\* state.events.dialog
    docKey,     \* state.document_key
    generation, \* state.registry_token, replaced when control is taken
    evicted,    \* the registry dropped the node to keep its budget
    seenAs,       \* what the client observed of the element
    pendingInput, \* state.pending_input still holds something
    act,        \* the action under way: its kind and where it is
    held,       \* native.held_key or native.held_button of this action
    sent,       \* input of the last action reached the page
    asSeen,     \* since the action began, the element once was what the client observed
    reached,    \* ... and once was on top of the point, or had the focus
    reply,      \* the last answer
    uncertain,  \* session["uncertain"]
    controlled     \* a human has private control

tabPage == <<doc, meaning, hit, focused, dialog, dialogs>>
records == <<knownDialog, docKey, generation, evicted, seenAs>>
input == <<down, pendingInput, held, sent>>
actVars == <<tabPage, records, input, closings, act, asSeen, reached, reply, uncertain, controlled>>

Kinds == {"pointer", "keyboard", "node"}
NoAct == [kind |-> "none", at |-> "idle"]
-----------------------------------------------------------------------------
Init_Acts ==
    /\ doc = 1 /\ meaning \in Meanings /\ hit = "other" /\ focused = "other"
    /\ down = FALSE /\ dialog = 0 /\ dialogs = 0 /\ closings = 0 /\ knownDialog = 0
    /\ docKey = 0 /\ generation = 0 /\ evicted = FALSE
    /\ seenAs = [doc |-> 0, meaning |-> Vanished, generation |-> 0]
    /\ pendingInput = FALSE /\ act = NoAct /\ held = FALSE /\ sent = FALSE
    /\ asSeen = FALSE /\ reached = FALSE /\ reply = "none" /\ uncertain = FALSE /\ controlled = FALSE
-----------------------------------------------------------------------------
\* The page, at any time.  An open dialog stops its scripts.

Target == CASE act.kind = "pointer" -> hit [] act.kind = "keyboard" -> focused [] OTHER -> "element"
Running == dialog = 0
Elsewhere == <<down, closings, docKey, generation, evicted, seenAs, pendingInput, act, held, sent, reply, uncertain, controlled>>
Swapped(thing) == IF thing = "element" THEN "other" ELSE "element"

PageChanges ==
    /\ Running /\ meaning # Vanished /\ meaning' \in (Meanings \cup {Vanished}) \ {meaning}
    /\ asSeen' = (asSeen \/ (seenAs.doc = doc /\ meaning' = seenAs.meaning))
    /\ UNCHANGED <<doc, hit, focused, dialog, dialogs, knownDialog, reached, Elsewhere>>
PageMoves ==
    /\ Running /\ act.at \in {"hit", "press"} /\ act.kind = "pointer" /\ hit' = Swapped(hit)
    /\ reached' = (reached \/ hit' = "element")
    /\ UNCHANGED <<doc, meaning, focused, dialog, dialogs, knownDialog, asSeen, Elsewhere>>
FocusMoves ==
    /\ Running /\ act.at \in {"focus", "press"} /\ act.kind = "keyboard" /\ focused' = Swapped(focused)
    /\ reached' = (reached \/ focused' = "element")
    /\ UNCHANGED <<doc, meaning, hit, dialog, dialogs, knownDialog, asSeen, Elsewhere>>

\* opened: handled at once.  closed: queued for the event thread.
DialogOpens ==
    /\ Running /\ dialogs < MaxDialogs /\ dialogs' = dialogs + 1 /\ dialog' = dialogs'
    /\ knownDialog' = IF controlled THEN knownDialog ELSE dialog'
    /\ UNCHANGED <<doc, meaning, hit, focused, asSeen, reached, Elsewhere>>
Closes == dialog' = 0 /\ closings' = closings + (IF dialog = 0 THEN 0 ELSE 1)
DialogClosed ==
    /\ closings > 0 /\ closings' = closings - 1 /\ knownDialog' = 0
    /\ UNCHANGED <<tabPage, docKey, generation, evicted, seenAs, input, act, asSeen, reached, reply, uncertain, controlled>>

\* A navigation takes the element, the dialog and what was pressed with it.
NewDocument ==
    /\ doc < MaxDocuments /\ doc' = doc + 1 /\ meaning' = Vanished /\ hit' = "other" /\ focused' = "other"
    /\ Closes /\ down' = FALSE
    /\ UNCHANGED <<dialogs, records, pendingInput, act, held, sent, asSeen, reached, reply, uncertain, controlled>>
-----------------------------------------------------------------------------
\* The client observes: the element of before, or one that came with the document.

AtRest == act = NoAct /\ ~controlled
Observe ==
    /\ AtRest /\ Running /\ knownDialog = 0
    /\ docKey' = doc /\ evicted' = FALSE
    /\ meaning' \in IF meaning = Vanished THEN Meanings ELSE {meaning}
    /\ seenAs' = [doc |-> doc, meaning |-> meaning', generation |-> generation]
    /\ UNCHANGED <<doc, hit, focused, dialog, dialogs, knownDialog, generation, input, closings,
                   act, asSeen, reached, reply, uncertain, controlled>>
Evicts ==
    /\ AtRest /\ ~evicted /\ evicted' = TRUE
    /\ UNCHANGED <<tabPage, knownDialog, docKey, generation, seenAs, input, closings, act, asSeen, reached, reply, uncertain, controlled>>

Asks(kind) ==
    /\ AtRest /\ ~uncertain /\ seenAs.doc # 0
    /\ act' = [kind |-> kind, at |-> "capture"] /\ reply' = "none" /\ sent' = FALSE
    /\ asSeen' = (seenAs.doc = doc /\ meaning = seenAs.meaning) /\ reached' = (kind = "node")
    /\ UNCHANGED <<tabPage, records, down, pendingInput, held, closings, uncertain, controlled>>
-----------------------------------------------------------------------------
\* The end of an action.  Whatever is still held is let go; if that fails, the tab
\* remembers it.

Reply(says) == reply' = says /\ uncertain' = (uncertain \/ says = "uncertain")
LetsGo(remembered) == Running /\ down' = FALSE /\ remembered
EndsAct(says) ==
    /\ act' = NoAct /\ Reply(says) /\ held' = FALSE
    /\ \/ ~held /\ UNCHANGED <<down, pendingInput>>
       \/ held /\ LetsGo(UNCHANGED pendingInput)
       \/ held /\ pendingInput' = TRUE /\ UNCHANGED down
    /\ UNCHANGED <<tabPage, records, closings, sent, asSeen, reached, controlled>>

ActAt(step) == act.at = step
Steps(step) == act' = [act EXCEPT !.at = step]
Looks(step) == Steps(step) /\ UNCHANGED <<tabPage, closings, knownDialog, generation, evicted, seenAs, input, reply, uncertain, controlled>>

\* Whatever fails before the input is dispatched: nothing was sent.
Refusal == act.at \in {"capture", "inspect", "locate", "hit", "focus", "press"} /\ EndsAct("not sent")
-----------------------------------------------------------------------------
\* prepare

Captures ==
    /\ ActAt("capture") /\ Running /\ knownDialog = 0 /\ docKey' = doc /\ seenAs.doc = doc
    /\ Looks("inspect") /\ UNCHANGED <<asSeen, reached>>

\* _node_target: the record is there, and of this generation and document.
Recorded == ~evicted /\ seenAs.generation = generation /\ seenAs.doc = docKey

Unchanged_Presumed == meaning # Vanished
Unchanged == meaning = seenAs.meaning
Inspects ==
    /\ ActAt("inspect") /\ Running /\ doc = docKey /\ Recorded /\ Unchanged
    /\ Looks(IF act.kind = "node" THEN "press" ELSE "locate") /\ UNCHANGED <<docKey, asSeen, reached>>
-----------------------------------------------------------------------------
\* act: finding the element

Inspectable == Running /\ doc = docKey /\ meaning # Vanished
Located(step) == Steps(step) /\ UNCHANGED <<doc, meaning, dialog, dialogs, records, input, closings, asSeen, reply, uncertain, controlled>>

Locates ==
    /\ ActAt("locate") /\ act.kind = "pointer" /\ Inspectable /\ hit' \in {"element", "other"}
    /\ reached' = (hit' = "element") /\ UNCHANGED focused /\ Located("hit")
Focuses ==
    /\ ActAt("locate") /\ act.kind = "keyboard" /\ Inspectable /\ focused' \in {"element", "other"}
    /\ reached' = (focused' = "element") /\ UNCHANGED hit /\ Located("focus")

Reachable == Target = "element"
Tests ==
    /\ act.at \in {"hit", "focus"} /\ Inspectable /\ Reachable /\ reached' = TRUE
    /\ UNCHANGED <<hit, focused>> /\ Located("press")
-----------------------------------------------------------------------------
\* act: input

\* The call may fail before or after the page has the input.
Press ==
    /\ ActAt("press") /\ Running /\ held' = (act.kind # "node")
    /\ \/ UNCHANGED <<down, sent>>
       \/ sent' = TRUE /\ down' = held' /\ (act.kind = "node" => Inspectable)
    /\ Steps("release")
    /\ UNCHANGED <<tabPage, records, pendingInput, closings, asSeen, reached, reply, uncertain, controlled>>

\* finally: the release, whether the press failed or not.
Release ==
    /\ ActAt("release") /\ Running /\ held /\ held' = FALSE /\ down' = FALSE /\ act' = [act EXCEPT !.at = "settle"]
    /\ UNCHANGED <<tabPage, records, pendingInput, sent, closings, asSeen, reached, reply, uncertain, controlled>>
Settles ==
    /\ act.at \in {"release", "settle"} /\ ~held
    /\ IF knownDialog # 0 THEN EndsAct("dialog")
       ELSE /\ Running /\ docKey' = doc /\ Looks("verify") /\ UNCHANGED <<asSeen, reached>>
Verifies == ActAt("verify") /\ \E says \in {"done", "goal not met"} : EndsAct(says)

\* A call that fails afterwards, an observation with the release of the input among
\* them: with a dialog in the way that is the answer, without one nobody knows.
CallFails ==
    /\ act.at \in {"release", "settle", "verify"}
    /\ EndsAct("uncertain") \/ (knownDialog # 0 /\ EndsAct("dialog"))
-----------------------------------------------------------------------------
\* The response to a dialog goes to whichever is open.

AsksDialog ==
    /\ AtRest /\ ~uncertain /\ knownDialog # 0
    /\ act' = [kind |-> "dialog", at |-> "answer"] /\ reply' = "none" /\ sent' = FALSE
    /\ UNCHANGED <<tabPage, records, down, pendingInput, held, closings, asSeen, reached, uncertain, controlled>>
AnswersDialog ==
    /\ ActAt("answer") /\ Closes /\ Steps("answered") /\ sent' = (dialog # 0)
    /\ UNCHANGED <<doc, meaning, hit, focused, dialogs, records, down, pendingInput, held, asSeen, reached, reply, uncertain, controlled>>

\* What an action had to leave pressed is let go now, or the result is uncertain.
LetsGoPending ==
    /\ ActAt("answered") /\ act' = NoAct /\ UNCHANGED <<tabPage, records, held, sent, closings, asSeen, reached, controlled>>
    /\ \/ ~pendingInput /\ Running /\ knownDialog = 0 /\ Reply("done") /\ UNCHANGED <<down, pendingInput>>
       \/ pendingInput /\ knownDialog = 0 /\ LetsGo(pendingInput' = FALSE) /\ Reply("done")
       \/ pendingInput /\ LetsGo(pendingInput' = FALSE) /\ Reply("uncertain")
       \/ Reply("uncertain") /\ UNCHANGED <<down, pendingInput>>
-----------------------------------------------------------------------------
\* Private control

FocusTab ==
    /\ AtRest /\ generation < MaxControls /\ controlled' = TRUE /\ generation' = generation + 1
    /\ knownDialog' = 0
    /\ UNCHANGED <<tabPage, docKey, evicted, seenAs, input, closings, act, asSeen, reached, reply, uncertain>>
HumanAnswers ==
    /\ controlled /\ dialog # 0 /\ Closes
    /\ UNCHANGED <<doc, meaning, hit, focused, dialogs, records, input, act, asSeen, reached, reply, uncertain, controlled>>

\* resume: what is pressed is let go before the page is looked at.
ResumeTab ==
    /\ controlled /\ UNCHANGED <<tabPage, closings, knownDialog, generation, evicted, seenAs, act, held, sent, asSeen, reached, reply>>
    /\ \/ ~pendingInput /\ UNCHANGED <<down, pendingInput>>
       \/ pendingInput /\ LetsGo(pendingInput' = FALSE)
    /\ \/ Running /\ docKey' = doc /\ controlled' = FALSE /\ uncertain' = FALSE
       \/ UNCHANGED <<docKey, controlled, uncertain>>
-----------------------------------------------------------------------------
Next_Acts ==
    \/ PageChanges \/ PageMoves \/ FocusMoves \/ DialogOpens \/ DialogClosed \/ NewDocument
    \/ Observe \/ Evicts \/ (\E kind \in Kinds : Asks(kind)) \/ AsksDialog
    \/ Refusal \/ Captures \/ Inspects \/ Locates \/ Focuses \/ Tests
    \/ Press \/ Release \/ Settles \/ Verifies \/ CallFails
    \/ AnswersDialog \/ LetsGoPending \/ FocusTab \/ HumanAnswers \/ ResumeTab

Spec_Acts == Init_Acts /\ [][Next_Acts]_actVars
-----------------------------------------------------------------------------
ActsTypeOK ==
    /\ doc \in 1..MaxDocuments /\ docKey \in 0..MaxDocuments /\ meaning \in Meanings \cup {Vanished}
    /\ {hit, focused} \subseteq {"element", "other"} /\ dialog \in 0..dialogs /\ dialogs \in 0..MaxDialogs
    /\ closings \in 0..dialogs /\ knownDialog \in 0..dialogs /\ generation \in 0..MaxControls
    /\ act.kind \in Kinds \cup {"none", "dialog"}
    /\ reply \in {"none", "not sent", "dialog", "done", "goal not met", "uncertain"}
    /\ {down, evicted, pendingInput, held, sent, asSeen, reached, uncertain, controlled} \subseteq BOOLEAN

SentAsSeen == sent /\ act.kind \in Kinds => asSeen /\ reached /\ seenAs.generation = generation
NotSentIsTrue == reply = "not sent" => ~sent
NothingLeftPressed == down => act # NoAct \/ pendingInput

\* act, prepare: input goes to the page only for an element that, at some moment since
\* the client asked, was what the client had observed, in its document and with no human
\* in control since, and that the pointer or the keyboard then reached.  A client who is
\* told that nothing was sent may repeat the action: nothing was.  And what the page takes
\* for pressed is in an action's hands, or remembered by the tab, which lets go of it when
\* the dialog in the way is answered or control is given back.
ActKeepsItsWord == SentAsSeen /\ NotSentIsTrue /\ NothingLeftPressed
=============================================================================
