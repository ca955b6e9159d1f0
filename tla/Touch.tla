------------------------------- MODULE Touch -------------------------------
(***************************************************************************)
(* A finger or a pen from the glass of the tablet to the desktop: the view *)
(* of the Android client (GlDisplayView.onTouchEvent), the messages, and   *)
(* on the host MtSlots, TwoFingerTap and InputInjector in front of the     *)
(* kernel's input devices. Positions and pressures are left out: nothing   *)
(* but the two-finger tap branches on them, and there "moved" and "quick"  *)
(* are free choices.                                                       *)
(***************************************************************************)
EXTENDS Integers, Sequences, FiniteSets

CONSTANTS
    Id,         \* pointer ids of Android, in the order of the pointer indices
    MaxSlots,   \* maxSlots_: the slots of the touch device
    NoFinger,   \* ABS_MT_TRACKING_ID -1
    MaxEvents,  \* bound: motion events and touch switches
    MaxWire,    \* bound: messages on the way
    MaxEnds     \* bound: sessions that end

ASSUME TouchAssumption ==
    /\ Id \subseteq Nat
    /\ IsFiniteSet(Id)
    /\ NoFinger \notin Id
    /\ MaxSlots \in Nat \ {0}
    /\ MaxEvents \in Nat
    /\ MaxWire \in Nat
    /\ MaxEnds \in Nat

Slot == 0 .. MaxSlots - 1
Pen == {"stylus", "eraser"}
Tool == {"finger"} \cup Pen

VARIABLES
    \* The tablet.
    glass,          \* the tool of every pointer on the glass
    touchEnabled,   \* StreamActivity.touchEnabled
    \* The connection.
    wire,           \* messages on the way to the host
    \* The session: its InputInjector.
    up,             \* the injector and its devices exist
    idSlot,         \* MtSlots::idSlot_
    anyDown,        \* anyDown_
    tap,            \* TwoFingerTap
    penDown,        \* pen_down_
    penEraser,      \* pen_eraser_
    \* The kernel's devices.
    contact,        \* the tracking id of each slot
    btnTouch,       \* BTN_TOUCH of the touch device
    penKeys,        \* BTN_TOOL_PEN and BTN_TOOL_RUBBER that are down
    penTouch,       \* BTN_TOUCH of the pen device
    clicks,         \* right clicks so far
    \* Bounds and history.
    events, ends,
    strayed         \* in this session, touch was switched off under a pointer,
                    \* or a pen and a finger were on the glass together

tablet == <<glass, touchEnabled>>
session == <<idSlot, anyDown, tap, penDown, penEraser>>
touchDevice == <<contact, btnTouch>>
penDevice == <<penKeys, penTouch>>
kernel == <<touchDevice, penDevice, clicks>>
vars == <<tablet, wire, up, session, kernel, events, ends, strayed>>

PenTool(eraser) == IF eraser THEN "rubber" ELSE "pen"

Message ==
    [type : {"touch"}, contacts : SUBSET Id]
        \cup [type : {"pen"}, touching : BOOLEAN, eraser : BOOLEAN]

NoTap == [on |-> FALSE, max |-> 0, moved |-> FALSE, two |-> FALSE]
NoContact == [n \in Slot |-> NoFinger]
NoSlots == [c \in {} |-> 0]

TypeOK ==
    /\ DOMAIN glass \subseteq Id /\ glass \in [DOMAIN glass -> Tool]
    /\ touchEnabled \in BOOLEAN
    /\ wire \in Seq(Message)
    /\ up \in BOOLEAN
    /\ DOMAIN idSlot \subseteq Id /\ idSlot \in [DOMAIN idSlot -> Slot]
    /\ anyDown \in BOOLEAN
    /\ tap \in [on : BOOLEAN, max : Nat, moved : BOOLEAN, two : BOOLEAN]
    /\ penDown \in BOOLEAN /\ penEraser \in BOOLEAN
    /\ contact \in [Slot -> Id \cup {NoFinger}]
    /\ btnTouch \in BOOLEAN
    /\ penKeys \subseteq {"pen", "rubber"}
    /\ penTouch \in BOOLEAN
    /\ clicks \in Nat /\ events \in Nat /\ ends \in Nat
    /\ strayed \in BOOLEAN

Init ==
    /\ glass = NoSlots
    /\ touchEnabled = TRUE
    /\ wire = <<>>
    /\ up = FALSE
    /\ idSlot = NoSlots
    /\ anyDown = FALSE
    /\ tap = NoTap
    /\ penDown = FALSE /\ penEraser = FALSE
    /\ contact = NoContact
    /\ btnTouch = FALSE
    /\ penKeys = {} /\ penTouch = FALSE
    /\ clicks = 0 /\ events = 0 /\ ends = 0
    /\ strayed = FALSE

-----------------------------------------------------------------------------
(* The tablet. A motion event names all the pointers, the one that lifts    *)
(* included; the tool of the first of them decides which way it is sent.    *)

First(pointers) ==
    CHOOSE c \in DOMAIN pointers : \A o \in DOMAIN pointers : c <= o

PenMessage(pointers, lifting) ==
    [type |-> "pen", touching |-> First(pointers) \notin lifting,
     eraser |-> pointers[First(pointers)] = "eraser"]

\* Mutant: the pointer of ACTION_POINTER_UP is still in the list.
Bug_TouchMessage(pointers, lifting) ==
    [type |-> "touch", contacts |-> IF lifting = DOMAIN pointers THEN {} ELSE DOMAIN pointers]

TouchMessage(pointers, lifting) ==
    [type |-> "touch", contacts |-> DOMAIN pointers \ lifting]

\* `lifting` is the pointer of ACTION_POINTER_UP, or all of them for
\* ACTION_UP and ACTION_CANCEL.
OnTouchEvent(pointers, lifting) ==
    IF pointers[First(pointers)] \in Pen
    THEN PenMessage(pointers, lifting)
    ELSE TouchMessage(pointers, lifting)

\* Without a connection, or with touch off, nothing is sent.
Send(pointers, lifting) ==
    /\ Len(wire) < MaxWire
    /\ wire' = IF up /\ touchEnabled
               THEN Append(wire, OnTouchEvent(pointers, lifting))
               ELSE wire

Event == events < MaxEvents /\ events' = events + 1

Mixed(pointers) ==
    \E c, o \in DOMAIN pointers : pointers[c] \in Pen /\ pointers[o] \notin Pen

\* ACTION_DOWN, ACTION_POINTER_DOWN.
PutDown ==
    /\ Event
    /\ \E c \in Id \ DOMAIN glass, t \in Tool :
           /\ glass' = [o \in DOMAIN glass \cup {c} |-> IF o = c THEN t ELSE glass[o]]
           /\ Send(glass', {})
    /\ strayed' = (strayed \/ Mixed(glass'))
    /\ UNCHANGED <<touchEnabled, up, session, kernel, ends>>

\* ACTION_MOVE, when it is not coalesced with the one before.
Move ==
    /\ Event
    /\ DOMAIN glass # {}
    /\ Send(glass, {})
    /\ UNCHANGED <<tablet, up, session, kernel, ends, strayed>>

\* ACTION_POINTER_UP; of the last pointer, ACTION_UP.
Lift ==
    /\ Event
    /\ \E c \in DOMAIN glass :
           /\ Send(glass, {c})
           /\ glass' = [o \in DOMAIN glass \ {c} |-> glass[o]]
    /\ UNCHANGED <<touchEnabled, up, session, kernel, ends, strayed>>

\* ACTION_CANCEL: the system takes the gesture over.
Cancel ==
    /\ Event
    /\ DOMAIN glass # {}
    /\ Send(glass, DOMAIN glass)
    /\ glass' = NoSlots
    /\ UNCHANGED <<touchEnabled, up, session, kernel, ends, strayed>>

\* The touch button of the overlay.
Switch ==
    /\ Event
    /\ touchEnabled' = ~touchEnabled
    /\ strayed' = (strayed \/ (touchEnabled /\ DOMAIN glass # {}))
    /\ UNCHANGED <<glass, wire, up, session, kernel, ends>>

-----------------------------------------------------------------------------
(* MtSlots. The contacts come in ascending order.                           *)

Rank(x, S) == Cardinality({y \in S : y < x})

\* Mutant: the slots in use are counted before the release.
Bug_UsedFirst(slots, contacts) == Slot \ {slots[c] : c \in DOMAIN slots}

Free(slots, contacts) == Slot \ {slots[c] : c \in DOMAIN slots \cap contacts}

New(slots, contacts) == contacts \ DOMAIN slots

\* The new contacts that get a slot: the others are over the budget.
Placed(slots, contacts) ==
    {c \in New(slots, contacts) :
        Rank(c, New(slots, contacts)) < Cardinality(Free(slots, contacts))}

\* freeSlot: the lowest slot that is still free when it is the turn of c.
FreeSlot(c, slots, contacts) ==
    CHOOSE n \in Free(slots, contacts) :
        Rank(n, Free(slots, contacts)) = Rank(c, New(slots, contacts))

\* idSlot_ after update.
Update(slots, contacts) ==
    [c \in (DOMAIN slots \cap contacts) \cup Placed(slots, contacts) |->
        IF c \in DOMAIN slots THEN slots[c] ELSE FreeSlot(c, slots, contacts)]

Lifted(slots, contacts) == {slots[c] : c \in DOMAIN slots \ contacts}

\* The kernel's slots after the events of one update.
Emit(slots, contacts) ==
    [n \in Slot |->
        IF \E c \in Placed(slots, contacts) : FreeSlot(c, slots, contacts) = n
        THEN CHOOSE c \in Placed(slots, contacts) : FreeSlot(c, slots, contacts) = n
        ELSE IF n \in Lifted(slots, contacts) THEN NoFinger ELSE contact[n]]

-----------------------------------------------------------------------------
(* TwoFingerTap and InputInjector.                                          *)

\* TwoFingerTap::update while a finger is down. The first contacts of a
\* gesture cannot have moved.
TapDown(contacts, moved) ==
    [on |-> TRUE,
     max |-> IF tap.on /\ tap.max > Cardinality(contacts)
             THEN tap.max ELSE Cardinality(contacts),
     moved |-> tap.on /\ (tap.moved \/ moved),
     two |-> (tap.on /\ tap.two) \/ Cardinality(contacts) = 2]

IsTap == tap.on /\ tap.max = 2 /\ ~tap.moved /\ tap.two

Inject(contacts) ==
    /\ contact' = Emit(idSlot, contacts)
    /\ idSlot' = Update(idSlot, contacts)
    /\ anyDown' = (contacts # {})
    /\ btnTouch' = IF anyDown' # anyDown THEN anyDown' ELSE btnTouch
    /\ IF contacts # {}
       THEN \E moved \in BOOLEAN :
                tap' = TapDown(contacts, moved) /\ UNCHANGED clicks
       ELSE \E quick \in BOOLEAN :
                /\ tap' = [tap EXCEPT !.on = FALSE]
                /\ clicks' = IF IsTap /\ quick THEN clicks + 1 ELSE clicks

PollTouch ==
    /\ up /\ wire # <<>>
    /\ Head(wire).type = "touch"
    /\ wire' = Tail(wire)
    /\ Inject(Head(wire).contacts)
    /\ UNCHANGED <<tablet, up, penDown, penEraser, penDevice, events, ends, strayed>>

\* Mutant: the tool that leaves is the one of the last event.
Bug_InjectPen(touching, eraser) ==
    /\ penEraser' = eraser
    /\ penDown' = touching
    /\ penTouch' = touching
    /\ penKeys' =
           IF touching /\ ~penDown THEN penKeys \cup {PenTool(eraser)}
           ELSE IF ~touching /\ penDown THEN penKeys \ {PenTool(eraser)}
           ELSE penKeys

\* InputInjector::pen: the tool comes near with the first contact of a stroke,
\* and leaves with the tool it came with.
InjectPen(touching, eraser) ==
    /\ penEraser' = IF touching /\ ~penDown THEN eraser ELSE penEraser
    /\ penDown' = touching
    /\ penTouch' = touching
    /\ penKeys' =
           IF touching /\ ~penDown THEN penKeys \cup {PenTool(eraser)}
           ELSE IF ~touching /\ penDown THEN penKeys \ {PenTool(penEraser)}
           ELSE penKeys

PollPen ==
    /\ up /\ wire # <<>>
    /\ Head(wire).type = "pen"
    /\ wire' = Tail(wire)
    /\ InjectPen(Head(wire).touching, Head(wire).eraser)
    /\ UNCHANGED <<tablet, up, idSlot, anyDown, tap, touchDevice, clicks,
                   events, ends, strayed>>

\* Mutants: the devices are destroyed at once; the release goes through inject.
Bug_NoRelease == UNCHANGED kernel
Bug_InjectedRelease ==
    /\ contact' = Emit(idSlot, {})
    /\ btnTouch' = FALSE
    /\ penTouch' = FALSE /\ penKeys' = {}
    /\ \E quick \in BOOLEAN : clicks' = IF IsTap /\ quick THEN clicks + 1 ELSE clicks

\* ~InputInjector: lift what is down, then destroy the devices.
Release ==
    /\ contact' = [n \in Slot |-> IF n \in Lifted(idSlot, {}) THEN NoFinger ELSE contact[n]]
    /\ btnTouch' = IF anyDown THEN FALSE ELSE btnTouch
    /\ penTouch' = IF penDown THEN FALSE ELSE penTouch
    /\ penKeys' = IF penDown THEN penKeys \ {PenTool(penEraser)} ELSE penKeys
    /\ UNCHANGED clicks

\* run_until returns, for whatever reason; what was on the way is lost.
EndSession ==
    /\ up /\ ends < MaxEnds
    /\ ends' = ends + 1
    /\ up' = FALSE
    /\ wire' = <<>>
    /\ Release
    /\ UNCHANGED <<tablet, session, events, strayed>>

\* The next session opens a new injector. Pointers may be on the glass.
StartSession ==
    /\ ~up
    /\ up' = TRUE
    /\ idSlot' = NoSlots
    /\ anyDown' = FALSE
    /\ tap' = NoTap
    /\ penDown' = FALSE /\ penEraser' = FALSE
    /\ contact' = NoContact
    /\ btnTouch' = FALSE
    /\ penKeys' = {} /\ penTouch' = FALSE
    /\ strayed' = Mixed(glass)
    /\ UNCHANGED <<tablet, wire, clicks, events, ends>>

Next ==
    \/ PutDown \/ Move \/ Lift \/ Cancel \/ Switch
    \/ PollTouch \/ PollPen \/ EndSession \/ StartSession

Spec == Init /\ [][Next]_vars

-----------------------------------------------------------------------------
(* Properties                                                               *)

Down == {contact[n] : n \in Slot} \ {NoFinger}
Fingers == {c \in DOMAIN glass : glass[c] \notin Pen}

\* The slots the kernel was told of are those MtSlots remembers, and the key
\* BTN_TOUCH is down exactly while a slot is (input_injector.cpp:107-132): a
\* lift goes to the slot that its finger went down in.
KernelMatchesSlots ==
    /\ \A n \in Slot, c \in Id :
           contact[n] = c <=> (up /\ c \in DOMAIN idSlot /\ idSlot[c] = n)
    /\ btnTouch = (Down # {})

\* GlDisplayView.kt:176: every finger add and remove is sent, "a dropped up
\* would leave a finger stuck down". When all messages have arrived, no finger
\* and no pen is down that is not on the glass, and fingers are left out only
\* for want of slots - unless the pointers strayed between the two ways.
NothingStuck ==
    up /\ wire = <<>> /\ ~strayed =>
        /\ Down \subseteq Fingers
        /\ Down = {} \/ Fingers \subseteq Down \/ Cardinality(Down) = MaxSlots
        /\ penTouch => DOMAIN glass # Fingers

\* A pen touches only with its tool near, a tool leaves by the key it came
\* with, and neither outlives its stroke (input_injector.cpp:219-236).
PenPaired ==
    /\ penTouch = (penKeys # {})
    /\ Cardinality(penKeys) <= 1
    /\ up => penTouch = penDown

\* input_injector.cpp:243: a right click comes only from a report that lifts
\* the last finger, never from the teardown of the session, and never while
\* the desktop still sees a finger.
ClickOnlyAtLift ==
    [][clicks' # clicks => up' /\ btnTouch /\ ~btnTouch' /\ Down' = {}]_vars

\* The device never vanishes under a finger, a finger that stays on the glass
\* is never lifted, and one is left out only when every slot is used.
Screen == INSTANCE TouchScreen WITH
    Slot <- Slot, present <- up, finger <- contact, pressed <- btnTouch
ImplementsScreen == Screen!Spec
=============================================================================
