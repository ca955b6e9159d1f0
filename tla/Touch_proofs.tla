---------------------------- MODULE Touch_proofs ----------------------------
(***************************************************************************)
(* Proofs about Touch, for any set of pointers and any number of slots.    *)
(* The heart of it is that "the k-th new contact gets the k-th free slot"  *)
(* is injective and leaves no slot free that a contact waits for; both     *)
(* follow from the fact that the ranks in a finite set of integers count   *)
(* it from 0.                                                              *)
(***************************************************************************)
EXTENDS Touch, FiniteSetTheorems, FunctionTheorems, TLAPS

-----------------------------------------------------------------------------
(* Ranks                                                                    *)

\* The slots are finitely many integers, and there is one.
LEMMA Slots == IsFiniteSet(Slot) /\ Slot \subseteq Int /\ 0 \in Slot
<1>1. MaxSlots \in Nat /\ MaxSlots > 0
  BY TouchAssumption
<1>2. IsFiniteSet(0 .. MaxSlots - 1)
  BY <1>1, FS_Interval
<1> QED
  BY <1>1, <1>2 DEF Slot

\* A smaller element has a smaller rank.
LEMMA RankLess ==
  ASSUME NEW S, IsFiniteSet(S), S \subseteq Int,
         NEW x \in S, NEW y \in S, x < y
  PROVE  Rank(x, S) < Rank(y, S)
<1> DEFINE X == {z \in S : z < x}
           Y == {z \in S : z < y}
<1>0. x \in Int /\ y \in Int /\ \A z \in S : z \in Int
  OBVIOUS
<1>1. X \subseteq Y /\ x \in Y /\ x \notin X
  <2>1. ASSUME NEW z \in S, z < x
        PROVE  z < y
    BY <1>0, <2>1
  <2>2. ~(x < x)
    BY <1>0
  <2> QED
    BY <2>1, <2>2
<1>2. IsFiniteSet(Y)
  BY FS_Subset
<1>3. /\ Cardinality(X) \in Nat /\ Cardinality(Y) \in Nat
      /\ Cardinality(X) <= Cardinality(Y)
      /\ Cardinality(X) # Cardinality(Y)
  BY <1>1, <1>2, FS_Subset, FS_CardinalityType
<1> QED
  BY <1>3 DEF Rank

\* A rank is below the number of elements.
LEMMA RankBelow ==
  ASSUME NEW S, IsFiniteSet(S), S \subseteq Int, NEW x \in S
  PROVE  Rank(x, S) \in 0 .. Cardinality(S) - 1
<1> DEFINE X == {z \in S : z < x}
<1>0. x \in Int
  OBVIOUS
<1>1. X \subseteq S /\ x \in S /\ x \notin X
  BY <1>0
<1>2. /\ Cardinality(X) \in Nat /\ Cardinality(S) \in Nat
      /\ Cardinality(X) <= Cardinality(S)
      /\ Cardinality(X) # Cardinality(S)
  BY <1>1, FS_Subset, FS_CardinalityType
<1> QED
  BY <1>2 DEF Rank

\* Different elements have different ranks.
LEMMA RankInjective ==
  ASSUME NEW S, IsFiniteSet(S), S \subseteq Int,
         NEW x \in S, NEW y \in S, Rank(x, S) = Rank(y, S)
  PROVE  x = y
<1>1. Cardinality(S) \in Nat
  BY FS_CardinalityType
<1>2. Rank(x, S) \in 0 .. Cardinality(S) - 1
  BY RankBelow
<1>3. ~(Rank(x, S) < Rank(y, S)) /\ ~(Rank(y, S) < Rank(x, S))
  BY <1>1, <1>2
<1>4. ~(x < y) /\ ~(y < x)
  BY <1>3, RankLess
<1>5. x \in Int /\ y \in Int
  OBVIOUS
<1> QED
  BY <1>4, <1>5

\* Every number below the number of elements is the rank of one.
LEMMA RankOnto ==
  ASSUME NEW S, IsFiniteSet(S), S \subseteq Int, NEW k \in 0 .. Cardinality(S) - 1
  PROVE  \E x \in S : Rank(x, S) = k
<1> DEFINE T == 0 .. Cardinality(S) - 1
           f == [x \in S |-> Rank(x, S)]
<1>1. Cardinality(S) \in Nat
  BY FS_CardinalityType
<1>2. IsFiniteSet(T) /\ Cardinality(T) = Cardinality(S)
  BY <1>1, FS_Interval
<1>3. f \in [S -> T]
  BY RankBelow
<1>4. \A x, y \in S : f[x] = f[y] => x = y
  BY RankInjective
<1>5. f \in Injection(S, T)
  BY <1>3, <1>4 DEF Injection, IsInjective
<1>6. f \in Surjection(S, T)
  BY <1>2, <1>5, FS_Injection
<1> QED
  BY <1>6 DEF Surjection

-----------------------------------------------------------------------------
(* MtSlots                                                                  *)

\* A table of slots that MtSlots may hold.
Table(slots) == DOMAIN slots \subseteq Id /\ slots \in [DOMAIN slots -> Slot]

\* The sets the ranks are taken in.
LEMMA RankedSets ==
  ASSUME NEW slots, NEW contacts \in SUBSET Id
  PROVE  /\ IsFiniteSet(Free(slots, contacts)) /\ Free(slots, contacts) \subseteq Slot
         /\ Free(slots, contacts) \subseteq Int
         /\ IsFiniteSet(New(slots, contacts)) /\ New(slots, contacts) \subseteq contacts
         /\ New(slots, contacts) \subseteq Int
<1>1. IsFiniteSet(contacts)
  BY FS_Subset, TouchAssumption
<1>2. Free(slots, contacts) \subseteq Slot /\ New(slots, contacts) \subseteq contacts
  BY DEF Free, New
<1>3. IsFiniteSet(Free(slots, contacts)) /\ IsFiniteSet(New(slots, contacts))
  BY <1>1, <1>2, Slots, FS_Subset
<1>4. contacts \subseteq Int
  BY TouchAssumption
<1> QED
  BY <1>2, <1>3, <1>4, Slots

\* A contact that is placed gets a free slot of its own rank.
LEMMA FreeSlotFree ==
  ASSUME NEW slots, NEW contacts \in SUBSET Id, NEW c \in Placed(slots, contacts)
  PROVE  /\ FreeSlot(c, slots, contacts) \in Free(slots, contacts)
         /\ Rank(FreeSlot(c, slots, contacts), Free(slots, contacts))
                = Rank(c, New(slots, contacts))
<1> DEFINE F == Free(slots, contacts)
           N == New(slots, contacts)
<1>0. IsFiniteSet(F) /\ F \subseteq Int /\ IsFiniteSet(N) /\ N \subseteq Int
  BY RankedSets
<1> HIDE DEF F, N
<1>1. c \in N /\ Rank(c, N) < Cardinality(F)
  BY DEF Placed, F, N
<1>2. Cardinality(N) \in Nat /\ Cardinality(F) \in Nat
  BY <1>0, FS_CardinalityType
<1>3. Rank(c, N) \in 0 .. Cardinality(N) - 1
  BY <1>0, <1>1, RankBelow
<1>4. Rank(c, N) \in 0 .. Cardinality(F) - 1
  BY <1>1, <1>2, <1>3
<1>5. \E n \in F : Rank(n, F) = Rank(c, N)
  BY <1>0, <1>4, RankOnto
<1> QED
  BY <1>5 DEF FreeSlot, F, N

\* Two contacts never get the same slot.
LEMMA FreeSlotInjective ==
  ASSUME NEW slots, NEW contacts \in SUBSET Id,
         NEW c \in Placed(slots, contacts), NEW d \in Placed(slots, contacts),
         FreeSlot(c, slots, contacts) = FreeSlot(d, slots, contacts)
  PROVE  c = d
<1>1. Rank(c, New(slots, contacts)) = Rank(d, New(slots, contacts))
  BY FreeSlotFree
<1>2. c \in New(slots, contacts) /\ d \in New(slots, contacts)
  BY DEF Placed
<1> QED
  BY <1>1, <1>2, RankedSets, RankInjective

\* Either every new contact is placed, or every free slot is taken.
LEMMA PlacedOrFull ==
  ASSUME NEW slots, NEW contacts \in SUBSET Id
  PROVE  \/ New(slots, contacts) \subseteq Placed(slots, contacts)
         \/ \A n \in Free(slots, contacts) :
                \E c \in Placed(slots, contacts) : FreeSlot(c, slots, contacts) = n
<1> DEFINE F == Free(slots, contacts)
           N == New(slots, contacts)
<1>0. IsFiniteSet(F) /\ F \subseteq Int /\ IsFiniteSet(N) /\ N \subseteq Int
  BY RankedSets
<1> HIDE DEF F, N
<1>1. Cardinality(F) \in Nat /\ Cardinality(N) \in Nat
  BY <1>0, FS_CardinalityType
<1>2. CASE Cardinality(N) <= Cardinality(F)
  <2>1. \A c \in N : Rank(c, N) < Cardinality(F)
    <3> TAKE c \in N
    <3>1. Rank(c, N) \in 0 .. Cardinality(N) - 1
      BY <1>0, RankBelow
    <3> QED
      BY <3>1, <1>1, <1>2
  <2> QED
    BY <2>1 DEF Placed, F, N
<1>3. CASE Cardinality(F) < Cardinality(N)
  <2> SUFFICES ASSUME NEW n \in F
               PROVE  \E c \in Placed(slots, contacts) : FreeSlot(c, slots, contacts) = n
    BY DEF F
  <2>1. Rank(n, F) \in 0 .. Cardinality(F) - 1
    BY <1>0, RankBelow
  <2>2. Rank(n, F) \in 0 .. Cardinality(N) - 1
    BY <2>1, <1>1, <1>3
  <2>3. PICK c \in N : Rank(c, N) = Rank(n, F)
    BY <2>2, <1>0, RankOnto
  <2>4. c \in Placed(slots, contacts)
    BY <2>1, <2>3, <1>1 DEF Placed, F, N
  <2>5. FreeSlot(c, slots, contacts) \in F
        /\ Rank(FreeSlot(c, slots, contacts), F) = Rank(n, F)
    BY <2>3, <2>4, FreeSlotFree DEF F, N
  <2> QED
    BY <2>4, <2>5, <1>0, RankInjective
<1> QED
  BY <1>1, <1>2, <1>3

\* What update leaves is a table again, of contacts it was given.
LEMMA UpdateType ==
  ASSUME NEW slots, Table(slots), NEW contacts \in SUBSET Id
  PROVE  /\ Table(Update(slots, contacts))
         /\ DOMAIN Update(slots, contacts) \subseteq contacts
         /\ contacts = {} => DOMAIN Update(slots, contacts) = {}
<1>1. Placed(slots, contacts) \subseteq contacts \ DOMAIN slots
  BY DEF Placed, New
<1>2. \A c \in Placed(slots, contacts) : FreeSlot(c, slots, contacts) \in Slot
  BY FreeSlotFree, RankedSets
<1> QED
  BY <1>1, <1>2 DEF Table, Update

\* With a contact in the report, some contact holds a slot.
LEMMA UpdateHolds ==
  ASSUME NEW slots, Table(slots), NEW contacts \in SUBSET Id, contacts # {}
  PROVE  DOMAIN Update(slots, contacts) # {}
<1>1. DOMAIN Update(slots, contacts) = (DOMAIN slots \cap contacts) \cup Placed(slots, contacts)
  BY DEF Update
<1>2. CASE DOMAIN slots \cap contacts # {}
  BY <1>1, <1>2
<1>3. CASE DOMAIN slots \cap contacts = {}
  <2>1. New(slots, contacts) = contacts /\ Free(slots, contacts) = Slot
    BY <1>3 DEF New, Free
  <2>2. Placed(slots, contacts) # {}
    BY <2>1, PlacedOrFull, Slots
  <2> QED
    BY <1>1, <2>2
<1> QED
  BY <1>2, <1>3

-----------------------------------------------------------------------------
(* The inductive invariant: what the kernel was told is what the injector   *)
(* remembers, while it exists.                                              *)

SlotsTold ==
    \A n \in Slot, c \in Id :
        contact[n] = c <=> (up /\ c \in DOMAIN idSlot /\ idSlot[c] = n)
KeyTold == btnTouch <=> up /\ anyDown
SomeSlotHeld == up => (anyDown <=> DOMAIN idSlot # {})
PenTold ==
    /\ penTouch <=> up /\ penDown
    /\ up /\ penDown => penKeys = {PenTool(penEraser)}
    /\ ~(up /\ penDown) => penKeys = {}
TapOpen == up /\ tap.on => anyDown

Inv == TypeOK /\ SlotsTold /\ KeyTold /\ SomeSlotHeld /\ PenTold /\ TapOpen

\* After the events of one report the kernel's slots are those of the table;
\* no finger of the report was lifted or moved, and none is left out while
\* a slot is free.
LEMMA EmitMatches ==
  ASSUME TypeOK, SlotsTold, up, NEW contacts \in SUBSET Id
  PROVE  /\ Emit(idSlot, contacts) \in [Slot -> contacts \cup {NoFinger}]
         /\ \A n \in Slot, c \in Id :
                Emit(idSlot, contacts)[n] = c
                    <=> (c \in DOMAIN Update(idSlot, contacts)
                         /\ Update(idSlot, contacts)[c] = n)
         /\ \A n \in Slot : contact[n] \in contacts => Emit(idSlot, contacts)[n] = contact[n]
         /\ \A n, m \in Slot : Emit(idSlot, contacts)[n] = Emit(idSlot, contacts)[m]
                                   => n = m \/ Emit(idSlot, contacts)[n] = NoFinger
         /\ \/ \A c \in contacts : \E n \in Slot : Emit(idSlot, contacts)[n] = c
            \/ \A n \in Slot : Emit(idSlot, contacts)[n] # NoFinger
<1> DEFINE E == Emit(idSlot, contacts)
           U == Update(idSlot, contacts)
           P == Placed(idSlot, contacts)
           S(c) == FreeSlot(c, idSlot, contacts)
           L == Lifted(idSlot, contacts)
           Taken(n) == \E c \in P : S(c) = n
<1>1. /\ DOMAIN E = Slot
      /\ \A n \in Slot : ~Taken(n) /\ n \in L => E[n] = NoFinger
      /\ \A n \in Slot : ~Taken(n) /\ n \notin L => E[n] = contact[n]
      /\ \A n \in Slot : Taken(n) => E[n] = CHOOSE c \in P : S(c) = n
  BY DEF Emit
<1>2. \A n \in Slot : \A c \in P : S(c) = n => E[n] = c
  <2> TAKE n \in Slot
  <2> TAKE c \in P
  <2> HAVE S(c) = n
  <2> DEFINE d == CHOOSE x \in P : S(x) = n
  <2>1. d \in P /\ S(d) = n
    OBVIOUS
  <2>2. d = c
    BY <2>1, FreeSlotInjective
  <2> QED
    BY <1>1, <2>2
<1>3. /\ DOMAIN U = (DOMAIN idSlot \cap contacts) \cup P
      /\ \A c \in DOMAIN idSlot \cap contacts : U[c] = idSlot[c]
      /\ \A c \in P : U[c] = S(c)
      /\ P \cap DOMAIN idSlot = {} /\ P \subseteq contacts
      /\ contacts \ DOMAIN idSlot = New(idSlot, contacts)
  BY DEF Update, Placed, New
<1>4. /\ DOMAIN idSlot \subseteq Id
      /\ \A c \in DOMAIN idSlot : idSlot[c] \in Slot /\ contact[idSlot[c]] = c
      /\ \A n \in Slot : contact[n] # NoFinger => contact[n] \in DOMAIN idSlot /\ idSlot[contact[n]] = n
      /\ contacts \subseteq Id /\ NoFinger \notin Id
  BY TouchAssumption DEF TypeOK, SlotsTold
<1>5. L = {idSlot[c] : c \in DOMAIN idSlot \ contacts}
  BY DEF Lifted
<1>6. \A c \in P : S(c) \in Slot /\ S(c) \in Free(idSlot, contacts)
  BY FreeSlotFree, RankedSets
<1>7. \A n \in Slot : n \in Free(idSlot, contacts)
                          <=> ~(\E c \in DOMAIN idSlot \cap contacts : idSlot[c] = n)
  BY DEF Free
<1> HIDE DEF E, U, P, S, L
\* A finger that stays keeps its slot.
<1>8. \A n \in Slot : contact[n] \in contacts => E[n] = contact[n]
  <2> TAKE n \in Slot
  <2> HAVE contact[n] \in contacts
  <2>1. contact[n] \in DOMAIN idSlot /\ idSlot[contact[n]] = n
    BY <1>4
  <2>2. ~Taken(n)
    BY <2>1, <1>6, <1>7
  <2>3. n \notin L
    BY <2>1, <1>4, <1>5
  <2> QED
    BY <1>1, <2>2, <2>3
\* What the kernel shows is in the table.
<1>9. \A n \in Slot : E[n] # NoFinger => E[n] \in DOMAIN U /\ U[E[n]] = n
  <2> TAKE n \in Slot
  <2> HAVE E[n] # NoFinger
  <2>1. CASE Taken(n)
    BY <2>1, <1>2, <1>3
  <2>2. CASE ~Taken(n)
    <3>1. n \notin L /\ E[n] = contact[n]
      BY <1>1, <2>2
    <3>2. contact[n] \in DOMAIN idSlot /\ idSlot[contact[n]] = n
      BY <1>4, <3>1
    <3>3. contact[n] \in contacts
      BY <1>5, <3>1, <3>2
    <3> QED
      BY <1>3, <3>1, <3>2, <3>3
  <2> QED
    BY <2>1, <2>2
\* What is in the table, the kernel shows.
<1>10. \A c \in DOMAIN U : U[c] \in Slot /\ E[U[c]] = c
  <2> TAKE c \in DOMAIN U
  <2>1. CASE c \in P
    BY <2>1, <1>2, <1>3, <1>6
  <2>2. CASE c \in DOMAIN idSlot \cap contacts
    BY <2>2, <1>3, <1>4, <1>8
  <2> QED
    BY <2>1, <2>2, <1>3
<1>11. DOMAIN U \subseteq contacts
  BY <1>3
<1>12. E \in [Slot -> contacts \cup {NoFinger}]
  <2>1. \A n \in Slot : E[n] \in contacts \cup {NoFinger}
    BY <1>9, <1>11
  <2>2. E = [n \in Slot |-> E[n]]
    BY <1>1 DEF E, Emit
  <2> QED
    BY <2>1, <2>2
<1>13. \A n \in Slot, c \in Id : E[n] = c <=> (c \in DOMAIN U /\ U[c] = n)
  BY <1>4, <1>9, <1>10
<1>14. \A n, m \in Slot : E[n] = E[m] => n = m \/ E[n] = NoFinger
  BY <1>9
<1>15. \/ \A c \in contacts : \E n \in Slot : E[n] = c
       \/ \A n \in Slot : E[n] # NoFinger
  <2>1. CASE New(idSlot, contacts) \subseteq P
    <3>1. contacts \subseteq DOMAIN U
      BY <1>3, <2>1
    <3> QED
      BY <1>10, <3>1
  <2>2. CASE \A n \in Free(idSlot, contacts) : Taken(n)
    <3> SUFFICES ASSUME NEW n \in Slot
                 PROVE  E[n] # NoFinger
      OBVIOUS
    <3>1. CASE n \in Free(idSlot, contacts)
      BY <2>2, <3>1, <1>2, <1>3, <1>4
    <3>2. CASE n \notin Free(idSlot, contacts)
      BY <3>2, <1>4, <1>7, <1>8
    <3> QED
      BY <3>1, <3>2
  <2> QED
    BY <2>1, <2>2, PlacedOrFull DEF P, S
<1> QED
  BY <1>8, <1>12, <1>13, <1>14, <1>15 DEF E, U

-----------------------------------------------------------------------------
(* One step preserves the invariant                                         *)

\* Whichever way an event is sent, it is a message.
LEMMA MessageType ==
  ASSUME NEW pointers, DOMAIN pointers \subseteq Id, NEW lifting
  PROVE  OnTouchEvent(pointers, lifting) \in Message
<1>1. PenMessage(pointers, lifting) \in Message
  BY DEF PenMessage, Message
<1>2. TouchMessage(pointers, lifting) \in Message
  BY DEF TouchMessage, Message
<1> QED
  BY <1>1, <1>2 DEF OnTouchEvent

\* The host side of a step of the tablet.
Untouched == UNCHANGED <<up, session, kernel>>

\* An event of the tablet keeps the types and leaves the host alone.
LEMMA TabletStep ==
  ASSUME TypeOK, PutDown \/ Move \/ Lift \/ Cancel \/ Switch
  PROVE  TypeOK' /\ Untouched
<1>1. /\ DOMAIN glass \subseteq Id /\ glass \in [DOMAIN glass -> Tool]
      /\ wire \in Seq(Message) /\ events \in Nat
  BY DEF TypeOK
<1>2. CASE PutDown
  <2>1. PICK c \in Id \ DOMAIN glass, t \in Tool :
            /\ glass' = [o \in DOMAIN glass \cup {c} |-> IF o = c THEN t ELSE glass[o]]
            /\ Send(glass', {})
    BY <1>2 DEF PutDown
  <2>2. DOMAIN glass' \subseteq Id /\ glass' \in [DOMAIN glass' -> Tool]
    BY <1>1, <2>1
  <2>3. OnTouchEvent(glass', {}) \in Message
    BY <2>2, MessageType
  <2>4. wire' \in Seq(Message)
    BY <1>1, <2>1, <2>3 DEF Send
  <2>5. Mixed(glass') \in BOOLEAN
    BY DEF Mixed
  <2> QED
    BY <1>1, <1>2, <2>2, <2>4, <2>5
       DEF PutDown, Event, TypeOK, Untouched, session, kernel, touchDevice, penDevice
<1>3. CASE Move
  <2>1. OnTouchEvent(glass, {}) \in Message
    BY <1>1, MessageType
  <2>2. wire' \in Seq(Message)
    BY <1>1, <1>3, <2>1 DEF Move, Send
  <2> QED
    BY <1>1, <1>3, <2>2
       DEF Move, Event, TypeOK, Untouched, tablet, session, kernel, touchDevice, penDevice
<1>4. CASE Lift
  <2>1. PICK c \in DOMAIN glass :
            /\ Send(glass, {c})
            /\ glass' = [o \in DOMAIN glass \ {c} |-> glass[o]]
    BY <1>4 DEF Lift
  <2>2. DOMAIN glass' \subseteq Id /\ glass' \in [DOMAIN glass' -> Tool]
    BY <1>1, <2>1
  <2>3. OnTouchEvent(glass, {c}) \in Message
    BY <1>1, MessageType
  <2>4. wire' \in Seq(Message)
    BY <1>1, <2>1, <2>3 DEF Send
  <2> QED
    BY <1>1, <1>4, <2>2, <2>4
       DEF Lift, Event, TypeOK, Untouched, session, kernel, touchDevice, penDevice
<1>5. CASE Cancel
  <2>1. OnTouchEvent(glass, DOMAIN glass) \in Message
    BY <1>1, MessageType
  <2>2. wire' \in Seq(Message)
    BY <1>1, <1>5, <2>1 DEF Cancel, Send
  <2>3. DOMAIN glass' \subseteq Id /\ glass' \in [DOMAIN glass' -> Tool]
    BY <1>5 DEF Cancel, NoSlots
  <2> QED
    BY <1>1, <1>5, <2>2, <2>3
       DEF Cancel, Event, TypeOK, Untouched, session, kernel, touchDevice, penDevice
<1>6. CASE Switch
  BY <1>1, <1>6
     DEF Switch, Event, TypeOK, Untouched, session, kernel, touchDevice, penDevice
<1> QED
  BY <1>2, <1>3, <1>4, <1>5, <1>6

\* The host part of the invariant speaks of nothing the tablet writes.
LEMMA HostUntouched ==
  ASSUME Inv, TypeOK', Untouched
  PROVE  Inv'
BY DEF Inv, Untouched, SlotsTold, KeyTold, SomeSlotHeld, PenTold, TapOpen,
       session, kernel, touchDevice, penDevice

\* A message that is read is one.
LEMMA HeadType ==
  ASSUME TypeOK, wire # <<>>
  PROVE  /\ Head(wire) \in Message /\ Tail(wire) \in Seq(Message)
         /\ Head(wire).type = "touch" => Head(wire).contacts \in SUBSET Id
         /\ Head(wire).type = "pen"
                => Head(wire).touching \in BOOLEAN /\ Head(wire).eraser \in BOOLEAN
<1>1. Head(wire) \in Message /\ Tail(wire) \in Seq(Message)
  BY DEF TypeOK
<1> QED
  BY <1>1 DEF Message

\* A report keeps kernel and table in step, and opens or closes the gesture.
LEMMA TouchStep ==
  ASSUME Inv, PollTouch
  PROVE  Inv'
<1> DEFINE contacts == Head(wire).contacts
<1>1. contacts \in SUBSET Id /\ Tail(wire) \in Seq(Message) /\ up
  BY HeadType DEF PollTouch, Inv
<1>2. /\ contact' = Emit(idSlot, contacts)
      /\ idSlot' = Update(idSlot, contacts)
      /\ anyDown' = (contacts # {})
      /\ btnTouch' = IF anyDown' # anyDown THEN anyDown' ELSE btnTouch
      /\ wire' = Tail(wire)
      /\ UNCHANGED <<glass, touchEnabled, up, penDown, penEraser, penKeys, penTouch,
                     events, ends, strayed>>
  BY DEF PollTouch, Inject, tablet, penDevice
<1>3. /\ tap' \in [on : BOOLEAN, max : Nat, moved : BOOLEAN, two : BOOLEAN]
      /\ tap'.on => contacts # {}
      /\ clicks' \in Nat
  <2>1. tap \in [on : BOOLEAN, max : Nat, moved : BOOLEAN, two : BOOLEAN] /\ clicks \in Nat
    BY DEF Inv, TypeOK
  <2>2. CASE contacts # {}
    <3>1. PICK moved \in BOOLEAN : tap' = TapDown(contacts, moved) /\ UNCHANGED clicks
      BY <2>2 DEF PollTouch, Inject
    <3>2. IsFiniteSet(contacts)
      BY <1>1, FS_Subset, TouchAssumption
    <3>3. Cardinality(contacts) \in Nat
      BY <3>2, FS_CardinalityType
    <3> QED
      BY <2>1, <2>2, <3>1, <3>3 DEF TapDown
  <2>3. CASE contacts = {}
    <3>1. PICK quick \in BOOLEAN :
              /\ tap' = [tap EXCEPT !.on = FALSE]
              /\ clicks' = IF IsTap /\ quick THEN clicks + 1 ELSE clicks
      BY <2>3 DEF PollTouch, Inject
    <3>2. clicks' \in Nat
      BY <2>1, <3>1
    <3>3. tap' \in [on : BOOLEAN, max : Nat, moved : BOOLEAN, two : BOOLEAN] /\ ~tap'.on
      BY <2>1, <3>1
    <3> QED
      BY <3>2, <3>3
  <2> QED
    BY <2>2, <2>3
<1>4. TypeOK /\ SlotsTold /\ KeyTold /\ anyDown \in BOOLEAN /\ btnTouch \in BOOLEAN
  BY DEF Inv, TypeOK
<1>5. Table(idSlot)
  BY <1>4 DEF TypeOK, Table
<1>6. Table(Update(idSlot, contacts)) /\ (contacts # {} <=> DOMAIN Update(idSlot, contacts) # {})
  BY <1>1, <1>5, UpdateType, UpdateHolds
<1>7. /\ Emit(idSlot, contacts) \in [Slot -> contacts \cup {NoFinger}]
      /\ \A n \in Slot, c \in Id :
             Emit(idSlot, contacts)[n] = c
                 <=> (c \in DOMAIN Update(idSlot, contacts) /\ Update(idSlot, contacts)[c] = n)
  BY <1>1, <1>4, EmitMatches
<1>8. contact' \in [Slot -> Id \cup {NoFinger}]
  BY <1>1, <1>2, <1>7
<1>9. KeyTold'
  BY <1>1, <1>2, <1>4 DEF KeyTold
<1>10. SlotsTold'
  BY <1>1, <1>2, <1>7 DEF SlotsTold
<1>11. SomeSlotHeld' /\ TapOpen' /\ PenTold'
  BY <1>2, <1>3, <1>6 DEF SomeSlotHeld, TapOpen, PenTold, Inv
<1>12. DOMAIN idSlot' \subseteq Id /\ idSlot' \in [DOMAIN idSlot' -> Slot]
  BY <1>2, <1>6 DEF Table
<1>13. anyDown' \in BOOLEAN /\ btnTouch' \in BOOLEAN
  BY <1>2, <1>4
<1>14. TypeOK'
  BY <1>1, <1>2, <1>3, <1>4, <1>8, <1>12, <1>13 DEF TypeOK
<1> QED
  BY <1>9, <1>10, <1>11, <1>14 DEF Inv

\* A pen event keeps the keys of the kernel those of the stroke.
LEMMA PenStep ==
  ASSUME Inv, PollPen
  PROVE  Inv'
<1> DEFINE touching == Head(wire).touching
           eraser == Head(wire).eraser
<1>1. touching \in BOOLEAN /\ eraser \in BOOLEAN /\ Tail(wire) \in Seq(Message) /\ up
  BY HeadType DEF PollPen, Inv
<1>2. /\ penEraser' = IF touching /\ ~penDown THEN eraser ELSE penEraser
      /\ penDown' = touching
      /\ penTouch' = touching
      /\ penKeys' = IF touching /\ ~penDown THEN penKeys \cup {PenTool(eraser)}
                    ELSE IF ~touching /\ penDown THEN penKeys \ {PenTool(penEraser)}
                    ELSE penKeys
      /\ wire' = Tail(wire)
      /\ UNCHANGED <<glass, touchEnabled, up, idSlot, anyDown, tap, contact, btnTouch,
                     clicks, events, ends, strayed>>
  BY DEF PollPen, InjectPen, tablet, touchDevice
<1>3. penDown \in BOOLEAN /\ penEraser \in BOOLEAN /\ penKeys \subseteq {"pen", "rubber"} /\ PenTold
  BY DEF Inv, TypeOK
<1>4. PenTold'
  BY <1>1, <1>2, <1>3 DEF PenTold
<1>5. /\ penEraser' \in BOOLEAN /\ penDown' \in BOOLEAN /\ penTouch' \in BOOLEAN
      /\ penKeys' \subseteq {"pen", "rubber"}
  BY <1>1, <1>2, <1>3 DEF PenTool
<1>6. TypeOK'
  BY <1>1, <1>2, <1>5 DEF TypeOK, Inv
<1>7. SlotsTold' /\ KeyTold' /\ SomeSlotHeld' /\ TapOpen'
  BY <1>2 DEF SlotsTold, KeyTold, SomeSlotHeld, TapOpen, Inv
<1> QED
  BY <1>4, <1>6, <1>7 DEF Inv

\* The destructor lifts every slot that is held, and the pen.
LEMMA ReleaseLifts ==
  ASSUME Inv, up, Release
  PROVE  /\ contact' = NoContact /\ btnTouch' = FALSE
         /\ penTouch' = FALSE /\ penKeys' = {}
<1>1. \A n \in Slot : contact[n] # NoFinger => n \in Lifted(idSlot, {})
  <2> TAKE n \in Slot
  <2> HAVE contact[n] # NoFinger
  <2>1. contact[n] \in Id
    BY DEF Inv, TypeOK
  <2>2. contact[n] \in DOMAIN idSlot /\ idSlot[contact[n]] = n
    BY <2>1 DEF Inv, SlotsTold
  <2> QED
    BY <2>2 DEF Lifted
<1>2. contact' = NoContact
  BY <1>1 DEF Release, NoContact
<1>3. penTouch \in BOOLEAN /\ penDown \in BOOLEAN /\ btnTouch \in BOOLEAN /\ anyDown \in BOOLEAN
      /\ PenTold /\ KeyTold
  BY DEF Inv, TypeOK
<1>4. btnTouch' = FALSE
  BY <1>3 DEF Release, KeyTold
<1>5. penTouch' = FALSE /\ penKeys' = {}
  BY <1>3 DEF Release, PenTold
<1> QED
  BY <1>2, <1>4, <1>5

\* Nothing is down when a session ends, or when the next one starts.
LEMMA SessionStep ==
  ASSUME Inv, EndSession \/ StartSession
  PROVE  Inv' /\ contact' = NoContact /\ btnTouch' = FALSE
<1>1. NoContact \in [Slot -> Id \cup {NoFinger}] /\ \A n \in Slot : NoContact[n] \notin Id
  BY TouchAssumption DEF NoContact
<1>2. CASE EndSession
  <2>1. /\ up /\ ends' = ends + 1 /\ up' = FALSE /\ wire' = <<>> /\ Release
        /\ UNCHANGED <<glass, touchEnabled, idSlot, anyDown, tap, penDown, penEraser,
                       clicks, events, strayed>>
    BY <1>2 DEF EndSession, Release, tablet, session
  <2>2. /\ contact' = NoContact /\ btnTouch' = FALSE
        /\ penTouch' = FALSE /\ penKeys' = {}
    BY <2>1, ReleaseLifts
  <2>3. wire' \in Seq(Message)
    BY <2>1
  <2>4. TypeOK'
    <3>1. TypeOK
      BY DEF Inv
    <3>4. ends' \in Nat
      BY <2>1, <3>1 DEF TypeOK
    <3>2. /\ up' \in BOOLEAN
          /\ contact' \in [Slot -> Id \cup {NoFinger}] /\ btnTouch' \in BOOLEAN
          /\ penTouch' \in BOOLEAN /\ penKeys' \subseteq {"pen", "rubber"}
      BY <1>1, <2>1, <2>2
    <3>3. /\ DOMAIN idSlot' \subseteq Id /\ idSlot' \in [DOMAIN idSlot' -> Slot]
          /\ DOMAIN glass' \subseteq Id /\ glass' \in [DOMAIN glass' -> Tool]
      BY <2>1, <3>1 DEF TypeOK
    <3> QED
      BY <2>1, <2>3, <3>1, <3>2, <3>3, <3>4 DEF TypeOK
  <2>5. SlotsTold' /\ KeyTold' /\ SomeSlotHeld' /\ PenTold' /\ TapOpen'
    BY <1>1, <2>1, <2>2 DEF SlotsTold, KeyTold, SomeSlotHeld, PenTold, TapOpen
  <2> QED
    BY <2>2, <2>4, <2>5 DEF Inv
<1>3. CASE StartSession
  <2>1. /\ up' = TRUE /\ idSlot' = NoSlots /\ anyDown' = FALSE /\ tap' = NoTap
        /\ penDown' = FALSE /\ penEraser' = FALSE /\ contact' = NoContact
        /\ btnTouch' = FALSE /\ penKeys' = {} /\ penTouch' = FALSE
        /\ strayed' = Mixed(glass)
        /\ UNCHANGED <<glass, touchEnabled, wire, clicks, events, ends>>
    BY <1>3 DEF StartSession, tablet
  <2>2. Mixed(glass) \in BOOLEAN
    BY DEF Mixed
  <2>3. DOMAIN idSlot' = {} /\ idSlot' \in [DOMAIN idSlot' -> Slot]
    BY <2>1 DEF NoSlots
  <2>4. TypeOK'
    BY <1>1, <2>1, <2>2, <2>3 DEF TypeOK, Inv, NoTap
  <2>5. SlotsTold' /\ KeyTold' /\ SomeSlotHeld' /\ PenTold' /\ TapOpen'
    BY <1>1, <2>1, <2>3 DEF SlotsTold, KeyTold, SomeSlotHeld, PenTold, TapOpen, NoTap
  <2> QED
    BY <2>1, <2>4, <2>5 DEF Inv
<1> QED
  BY <1>2, <1>3

\* A step that changes nothing.
LEMMA StutterStep ==
  ASSUME Inv, UNCHANGED vars
  PROVE  Inv'
<1>1. TypeOK'
  BY DEF Inv, TypeOK, vars, tablet, session, kernel, touchDevice, penDevice
<1>2. Untouched
  BY DEF vars, Untouched
<1> QED
  BY <1>1, <1>2, HostUntouched

\* The invariant holds initially.
LEMMA InitInv == Init => Inv
<1> SUFFICES ASSUME Init PROVE Inv
  OBVIOUS
<1>1. NoContact \in [Slot -> Id \cup {NoFinger}] /\ \A n \in Slot : NoContact[n] \notin Id
  BY TouchAssumption DEF NoContact
<1>2. DOMAIN NoSlots = {} /\ NoSlots \in [DOMAIN NoSlots -> Slot]
      /\ NoSlots \in [DOMAIN NoSlots -> Tool]
  BY DEF NoSlots
<1>3. TypeOK
  <2>1. <<>> \in Seq(Message) /\ NoTap \in [on : BOOLEAN, max : Nat, moved : BOOLEAN, two : BOOLEAN]
    BY DEF NoTap
  <2>2. DOMAIN NoSlots \subseteq Id
    BY <1>2
  <2> QED
    BY <1>1, <1>2, <2>1, <2>2 DEF Init, TypeOK
<1>4. SlotsTold /\ KeyTold /\ SomeSlotHeld /\ PenTold /\ TapOpen
  BY <1>1, <1>2 DEF Init, SlotsTold, KeyTold, SomeSlotHeld, PenTold, TapOpen
<1> QED
  BY <1>3, <1>4 DEF Inv

\* Every step keeps the invariant.
LEMMA StepInv == Inv /\ [Next]_vars => Inv'
<1> SUFFICES ASSUME Inv, [Next]_vars PROVE Inv'
  OBVIOUS
<1>1. CASE PutDown \/ Move \/ Lift \/ Cancel \/ Switch
  <2>1. TypeOK' /\ Untouched
    BY <1>1, TabletStep DEF Inv
  <2> QED
    BY <2>1, HostUntouched
<1>2. CASE PollTouch
  BY <1>2, TouchStep
<1>3. CASE PollPen
  BY <1>3, PenStep
<1>4. CASE EndSession \/ StartSession
  BY <1>4, SessionStep
<1>5. CASE UNCHANGED vars
  BY <1>5, StutterStep
<1> QED
  BY <1>1, <1>2, <1>3, <1>4, <1>5 DEF Next

\* The invariant holds in every reachable state.
LEMMA InvHolds == Spec => []Inv
<1> QED
  BY InitInv, StepInv, PTL DEF Spec

-----------------------------------------------------------------------------
(* The theorems                                                             *)

\* Every variable keeps its type; in particular no contact is ever given a
\* slot that the device does not have (mt_slots.cpp:20-33).
THEOREM TypeCorrect == Spec => []TypeOK
<1>1. Inv => TypeOK
  BY DEF Inv
<1> QED
  BY <1>1, InvHolds, PTL

\* The kernel shows a finger in a slot exactly while MtSlots remembers it
\* there, and none once the devices are gone; BTN_TOUCH goes with them.
THEOREM SlotsCorrect == Spec => []KernelMatchesSlots
<1>1. Inv => KernelMatchesSlots
  <2> SUFFICES ASSUME Inv PROVE KernelMatchesSlots
    OBVIOUS
  <2>1. SlotsTold /\ KeyTold /\ SomeSlotHeld
        /\ btnTouch \in BOOLEAN /\ anyDown \in BOOLEAN
        /\ contact \in [Slot -> Id \cup {NoFinger}]
        /\ DOMAIN idSlot \subseteq Id /\ idSlot \in [DOMAIN idSlot -> Slot]
    BY DEF Inv, TypeOK
  <2>2. Down # {} <=> \E n \in Slot : contact[n] \in Id
    BY <2>1, TouchAssumption DEF Down
  <2>3. (\E n \in Slot : contact[n] \in Id) <=> up /\ DOMAIN idSlot # {}
    BY <2>1 DEF SlotsTold
  <2>4. btnTouch <=> Down # {}
    BY <2>1, <2>2, <2>3 DEF KeyTold, SomeSlotHeld
  <2>5. btnTouch = (Down # {})
    BY <2>1, <2>4
  <2> QED
    BY <2>1, <2>5 DEF KernelMatchesSlots, SlotsTold
<1> QED
  BY <1>1, InvHolds, PTL

\* A pen touches only with its tool near, and the tool leaves with the stroke.
THEOREM PenCorrect == Spec => []PenPaired
<1>1. Inv => PenPaired
  <2> SUFFICES ASSUME Inv PROVE PenPaired
    OBVIOUS
  <2>1. PenTold /\ penTouch \in BOOLEAN /\ penDown \in BOOLEAN
    BY DEF Inv, TypeOK
  <2>2. Cardinality({}) = 0 /\ Cardinality({PenTool(penEraser)}) = 1
    BY FS_EmptySet, FS_Singleton
  <2>3. CASE up /\ penDown
    <3>1. penKeys = {PenTool(penEraser)} /\ penTouch = TRUE /\ penDown = TRUE
      BY <2>1, <2>3 DEF PenTold
    <3>2. penKeys # {} /\ Cardinality(penKeys) <= 1
      BY <2>2, <3>1
    <3> QED
      BY <3>1, <3>2 DEF PenPaired
  <2>4. CASE ~(up /\ penDown)
    <3>1. penKeys = {} /\ penTouch = FALSE /\ (up => penDown = FALSE)
      BY <2>1, <2>4 DEF PenTold
    <3>2. Cardinality(penKeys) <= 1
      BY <2>2, <3>1
    <3> QED
      BY <3>1, <3>2 DEF PenPaired
  <2> QED
    BY <2>3, <2>4
<1> QED
  BY <1>1, InvHolds, PTL

\* The right click of a two-finger tap comes with the report that lifts the
\* last finger, and from nothing else.
THEOREM ClicksCorrect == Spec => ClickOnlyAtLift
<1>1. Inv /\ [Next]_vars
        => [clicks' # clicks => up' /\ btnTouch /\ ~btnTouch' /\ Down' = {}]_vars
  <2> SUFFICES ASSUME Inv, Next, clicks' # clicks
               PROVE  up' /\ btnTouch /\ ~btnTouch' /\ Down' = {}
    OBVIOUS
  <2>1. PollTouch
    BY DEF Next, PutDown, Move, Lift, Cancel, Switch, PollPen, EndSession, Release,
           StartSession, kernel
  <2> DEFINE contacts == Head(wire).contacts
  <2>2. contacts = {} /\ IsTap
    BY <2>1 DEF PollTouch, Inject
  <2>3. up /\ up' /\ tap.on /\ anyDown /\ btnTouch
    BY <2>1, <2>2 DEF PollTouch, IsTap, Inv, TapOpen, KeyTold
  <2>4. anyDown' = FALSE /\ btnTouch' = FALSE
    BY <2>1, <2>2, <2>3 DEF PollTouch, Inject
  <2>5. contact' = Emit(idSlot, {}) /\ TypeOK /\ SlotsTold
    BY <2>1, <2>2 DEF PollTouch, Inject, Inv
  <2>6. Emit(idSlot, {}) \in [Slot -> {NoFinger}]
    BY <2>3, <2>5, EmitMatches
  <2> QED
    BY <2>3, <2>4, <2>5, <2>6 DEF Down
<1> QED
  BY <1>1, InvHolds, PTL DEF Spec, ClickOnlyAtLift

\* The slots and the event stream implement the set of touching fingers: a
\* finger that stays is never lifted or moved to another slot, none is left
\* out while a slot is free, and the device never vanishes under one.
THEOREM TouchImplementsScreen == Spec => ImplementsScreen
<1>1. Init => Screen!Init
  BY DEF Init, Screen!Init, NoContact, Screen!Lifted
<1>2. Inv /\ [Next]_vars => [Screen!Next]_(Screen!screen)
  <2> SUFFICES ASSUME Inv, [Next]_vars
               PROVE  Screen!Next \/ UNCHANGED <<up, contact, btnTouch>>
    BY DEF Screen!screen
  <2>1. CASE PutDown \/ Move \/ Lift \/ Cancel \/ Switch
    BY <2>1 DEF PutDown, Move, Lift, Cancel, Switch, kernel, touchDevice
  <2>2. CASE PollTouch
    <3> DEFINE contacts == Head(wire).contacts
    <3>1. contacts \in SUBSET Id /\ up /\ up' = up
      BY <2>2, HeadType DEF PollTouch, Inv
    <3>2. contact' = Emit(idSlot, contacts) /\ TypeOK /\ SlotsTold
      BY <2>2 DEF PollTouch, Inject, Inv
    <3>3. /\ contact' \in [Slot -> contacts \cup {NoFinger}]
          /\ \A n \in Slot : contact[n] \in contacts => contact'[n] = contact[n]
          /\ \A n, m \in Slot : contact'[n] = contact'[m] => n = m \/ contact'[n] = NoFinger
          /\ \/ \A f \in contacts : \E n \in Slot : contact'[n] = f
             \/ \A n \in Slot : contact'[n] # NoFinger
      BY <3>1, <3>2, EmitMatches
    <3>4. anyDown' = (contacts # {}) /\ btnTouch' = IF anyDown' # anyDown THEN anyDown' ELSE btnTouch
      BY <2>2 DEF PollTouch, Inject
    <3>5. btnTouch \in BOOLEAN /\ anyDown \in BOOLEAN /\ (btnTouch <=> anyDown)
      BY <3>1 DEF Inv, TypeOK, KeyTold
    <3>6. btnTouch' = (contacts # {})
      BY <3>4, <3>5
    <3>7. Screen!Report(contacts)
      BY <3>1, <3>3, <3>6 DEF Screen!Report
    <3> QED
      BY <3>1, <3>7 DEF Screen!Next
  <2>3. CASE PollPen
    BY <2>3 DEF PollPen, touchDevice
  <2>4. CASE EndSession
    <3>1. contact' = NoContact /\ btnTouch' = FALSE
      BY <2>4, SessionStep
    <3> QED
      BY <2>4, <3>1 DEF EndSession, Screen!Next, Screen!Vanish, Screen!Lifted, NoContact
  <2>5. CASE StartSession
    BY <2>5 DEF StartSession, Screen!Next, Screen!Appear, Screen!Lifted, NoContact
  <2>6. CASE UNCHANGED vars
    BY <2>6 DEF vars, kernel, touchDevice
  <2> QED
    BY <2>1, <2>2, <2>3, <2>4, <2>5, <2>6 DEF Next
<1> QED
  BY <1>1, <1>2, InvHolds, PTL DEF Spec, ImplementsScreen, Screen!Spec

-----------------------------------------------------------------------------
(* What the host was last told                                              *)

Stylus == DOMAIN glass \ Fingers

\* The message at i is the last of its kind on the way.
LastOf(i, kind) ==
    /\ wire[i].type = kind
    /\ \A m \in 1 .. Len(wire) : m > i => wire[m].type # kind

NoneOf(kind) == \A m \in 1 .. Len(wire) : wire[m].type # kind

\* A report names the fingers on the glass, or none. With touch off it is none:
\* nothing would tell the host of a lift.
Reports(contacts) == contacts = {} \/ (touchEnabled /\ contacts = Fingers)

\* The device shows what such a report makes it show.
Shows ==
    \/ Down = {}
    \/ /\ touchEnabled
       /\ Down \subseteq Fingers
       /\ Fingers \subseteq Down \/ \A n \in Slot : contact[n] # NoFinger

Strokes == touchEnabled /\ Stylus # {}

\* The last report of the fingers is right, and so is the device when none is
\* on the way.
FingersTold ==
    /\ \A i \in 1 .. Len(wire) : LastOf(i, "touch") => Reports(wire[i].contacts)
    /\ NoneOf("touch") => Shows

\* The same for the pen.
StrokeTold ==
    /\ \A i \in 1 .. Len(wire) : LastOf(i, "pen") /\ wire[i].touching => Strokes
    /\ NoneOf("pen") /\ penDown => Strokes

SilentWithoutSession == ~up => wire = <<>>

ToldInv ==
    /\ SilentWithoutSession
    /\ up /\ ~strayed => ~Mixed(glass) /\ FingersTold /\ StrokeTold

\* A set of pointers that is not empty has a first one.
LEMMA FirstPointer ==
  ASSUME NEW pointers, DOMAIN pointers \subseteq Id, DOMAIN pointers # {}
  PROVE  First(pointers) \in DOMAIN pointers
<1> DEFINE S == DOMAIN pointers
<1>0. S \subseteq Id /\ S # {}
  OBVIOUS
<1> HIDE DEF S
<1>1. IsFiniteSet(S) /\ S \subseteq Int
  <2>1. IsFiniteSet(S)
    BY <1>0, FS_Subset, TouchAssumption
  <2>2. S \subseteq Int
    BY <1>0, TouchAssumption
  <2> QED
    BY <2>1, <2>2
<1>2. Cardinality(S) \in Nat /\ Cardinality(S) # 0
  BY <1>0, <1>1, FS_CardinalityType, FS_EmptySet
<1>3. 0 \in 0 .. Cardinality(S) - 1
  BY <1>2
<1>4. PICK c \in S : Rank(c, S) = 0
  BY <1>1, <1>3, RankOnto
<1>5. \A o \in S : c <= o
  <2> SUFFICES ASSUME NEW o \in S, ~(c <= o) PROVE FALSE
    OBVIOUS
  <2>1. o < c
    BY <1>1
  <2>2. Rank(o, S) < Rank(c, S)
    BY <1>1, <2>1, RankLess
  <2>3. Rank(o, S) \in 0 .. Cardinality(S) - 1
    BY <1>1, RankBelow
  <2> QED
    BY <1>2, <1>4, <2>2, <2>3
<1> QED
  BY <1>5 DEF First, S

\* Where no pen meets a finger, an event of fingers is sent as a report of those
\* that stay, and an event of pens as a pen that touches while its pointer stays.
LEMMA EventTells ==
  ASSUME NEW pointers, DOMAIN pointers \subseteq Id, DOMAIN pointers # {},
         ~Mixed(pointers), NEW lifting
  PROVE  \/ /\ \A c \in DOMAIN pointers : pointers[c] \notin Pen
            /\ OnTouchEvent(pointers, lifting) = TouchMessage(pointers, lifting)
         \/ /\ \A c \in DOMAIN pointers : pointers[c] \in Pen
            /\ OnTouchEvent(pointers, lifting) = PenMessage(pointers, lifting)
            /\ PenMessage(pointers, lifting).touching => DOMAIN pointers \ lifting # {}
<1>1. First(pointers) \in DOMAIN pointers
  BY FirstPointer
<1>2. CASE pointers[First(pointers)] \in Pen
  <2>1. \A c \in DOMAIN pointers : pointers[c] \in Pen
    BY <1>1, <1>2 DEF Mixed
  <2>2. PenMessage(pointers, lifting).touching = (First(pointers) \notin lifting)
    BY DEF PenMessage
  <2> QED
    BY <1>1, <1>2, <2>1, <2>2 DEF OnTouchEvent
<1>3. CASE pointers[First(pointers)] \notin Pen
  BY <1>1, <1>3 DEF Mixed, OnTouchEvent
<1> QED
  BY <1>2, <1>3

\* What a message at the end of the wire leaves the last of its kind.
LEMMA AppendLast ==
  ASSUME wire \in Seq(Message), NEW e \in Message, wire' = Append(wire, e), NEW kind
  PROVE  /\ NoneOf(kind)' => NoneOf(kind) /\ e.type # kind
         /\ \A i \in 1 .. Len(wire') : LastOf(i, kind)' =>
                \/ wire'[i] = e /\ e.type = kind
                \/ i \in 1 .. Len(wire) /\ LastOf(i, kind) /\ wire'[i] = wire[i]
                   /\ e.type # kind
<1>1. /\ Len(wire) \in Nat /\ Len(wire') = Len(wire) + 1 /\ wire'[Len(wire) + 1] = e
      /\ \A m \in 1 .. Len(wire) : wire'[m] = wire[m]
  OBVIOUS
<1>2. NoneOf(kind)' => NoneOf(kind) /\ e.type # kind
  BY <1>1 DEF NoneOf
<1>3. ASSUME NEW i \in 1 .. Len(wire'), LastOf(i, kind)'
      PROVE  \/ wire'[i] = e /\ e.type = kind
             \/ i \in 1 .. Len(wire) /\ LastOf(i, kind) /\ wire'[i] = wire[i]
                /\ e.type # kind
  <2>1. CASE i = Len(wire) + 1
    BY <1>1, <1>3, <2>1 DEF LastOf
  <2>2. CASE i \in 1 .. Len(wire)
    <3>1. e.type # kind
      BY <1>1, <1>3, <2>2 DEF LastOf
    <3>2. LastOf(i, kind)
      BY <1>1, <1>3, <2>2 DEF LastOf
    <3> QED
      BY <1>1, <2>2, <3>1, <3>2
  <2> QED
    BY <1>1, <2>1, <2>2
<1> QED
  BY <1>2, <1>3

\* What is behind the message that is read has the last of its kind still; when
\* there is none, none was on the way or the one that is read was the last.
LEMMA TailLast ==
  ASSUME wire \in Seq(Message), wire # <<>>, wire' = Tail(wire), NEW kind
  PROVE  /\ NoneOf(kind)' => NoneOf(kind) \/ (LastOf(1, kind) /\ Head(wire).type = kind)
         /\ \A i \in 1 .. Len(wire') : LastOf(i, kind)' =>
                /\ i + 1 \in 1 .. Len(wire) /\ LastOf(i + 1, kind) /\ wire'[i] = wire[i + 1]
<1>1. /\ Len(wire) \in Nat \ {0} /\ Len(wire') = Len(wire) - 1 /\ wire[1] = Head(wire)
      /\ \A m \in 1 .. Len(wire') : wire'[m] = wire[m + 1]
  OBVIOUS
<1>2. \A m \in 1 .. Len(wire) : m > 1 => m - 1 \in 1 .. Len(wire') /\ wire[m] = wire'[m - 1]
  BY <1>1
<1>3. NoneOf(kind)' => NoneOf(kind) \/ (LastOf(1, kind) /\ Head(wire).type = kind)
  <2> SUFFICES ASSUME NoneOf(kind)', Head(wire).type # kind
               PROVE  NoneOf(kind)
    BY <1>1, <1>2 DEF NoneOf, LastOf
  <2> QED
    BY <1>1, <1>2 DEF NoneOf
<1>4. ASSUME NEW i \in 1 .. Len(wire'), LastOf(i, kind)'
      PROVE  i + 1 \in 1 .. Len(wire) /\ LastOf(i + 1, kind) /\ wire'[i] = wire[i + 1]
  <2>1. i + 1 \in 1 .. Len(wire) /\ wire'[i] = wire[i + 1]
    BY <1>1
  <2>2. ASSUME NEW m \in 1 .. Len(wire), m > i + 1
        PROVE  wire[m].type # kind
    <3>1. m - 1 \in 1 .. Len(wire') /\ m - 1 > i /\ wire[m] = wire'[m - 1]
      BY <1>2, <2>2
    <3> QED
      BY <1>4, <3>1 DEF LastOf
  <2> QED
    BY <1>4, <2>1, <2>2 DEF LastOf
<1> QED
  BY <1>3, <1>4

\* What the tablet sends is right about the glass the event leaves.
LEMMA SentTold ==
  ASSUME wire \in Seq(Message), FingersTold, StrokeTold,
         touchEnabled, UNCHANGED <<touchEnabled, contact, penDown>>,
         NEW e \in Message, wire' = Append(wire, e),
         \/ e.type = "touch" /\ e.contacts = Fingers' /\ Stylus = {}
         \/ e.type = "pen" /\ Fingers = {} /\ Fingers' = {} /\ (e.touching => Stylus' # {})
  PROVE  FingersTold' /\ StrokeTold'
<1>1. Down' = Down
  BY DEF Down
<1>2. CASE e.type = "touch" /\ e.contacts = Fingers' /\ Stylus = {}
  <2>1. FingersTold'
    <3>1. ~NoneOf("touch")'
      BY <1>2, AppendLast
    <3>2. \A i \in 1 .. Len(wire') : LastOf(i, "touch")' => wire'[i] = e
      BY <1>2, AppendLast
    <3>3. Reports(e.contacts)'
      BY <1>2 DEF Reports
    <3> QED
      BY <3>1, <3>2, <3>3 DEF FingersTold
  <2>2. StrokeTold'
    <3>1. NoneOf("pen")' => NoneOf("pen")
      BY AppendLast
    <3>2. \A i \in 1 .. Len(wire') : LastOf(i, "pen")' =>
             i \in 1 .. Len(wire) /\ LastOf(i, "pen") /\ wire'[i] = wire[i]
      BY <1>2, AppendLast
    <3>3. ~Strokes
      BY <1>2 DEF Strokes
    <3> QED
      BY <3>1, <3>2, <3>3 DEF StrokeTold
  <2> QED
    BY <2>1, <2>2
<1>3. CASE e.type = "pen" /\ Fingers = {} /\ Fingers' = {} /\ (e.touching => Stylus' # {})
  <2>1. FingersTold'
    <3>1. NoneOf("touch")' => NoneOf("touch")
      BY AppendLast
    <3>2. \A i \in 1 .. Len(wire') : LastOf(i, "touch")' =>
             i \in 1 .. Len(wire) /\ LastOf(i, "touch") /\ wire'[i] = wire[i]
      BY <1>3, AppendLast
    <3>3. \A contacts : Reports(contacts) => Reports(contacts)'
      BY <1>3 DEF Reports
    <3>4. Shows => Shows'
      BY <1>1, <1>3 DEF Shows
    <3> QED
      BY <3>1, <3>2, <3>3, <3>4 DEF FingersTold
  <2>2. StrokeTold'
    <3>1. ~NoneOf("pen")'
      BY <1>3, AppendLast
    <3>2. \A i \in 1 .. Len(wire') : LastOf(i, "pen")' => wire'[i] = e
      BY <1>3, AppendLast
    <3>3. e.touching => Strokes'
      BY <1>3 DEF Strokes
    <3> QED
      BY <3>1, <3>2, <3>3 DEF StrokeTold
  <2> QED
    BY <2>1, <2>2
<1> QED
  BY <1>2, <1>3

\* With touch off the host was told of nothing that could be left behind.
LEMMA UnsentTold ==
  ASSUME FingersTold, StrokeTold, ~touchEnabled, UNCHANGED <<wire, contact, penDown>>
  PROVE  FingersTold' /\ StrokeTold'
<1>1. Down' = Down /\ (\A i, kind : LastOf(i, kind)' <=> LastOf(i, kind))
      /\ \A kind : NoneOf(kind)' <=> NoneOf(kind)
  BY DEF Down, LastOf, NoneOf
<1>2. (\A contacts : Reports(contacts) => Reports(contacts)') /\ (Shows => Shows') /\ ~Strokes
  BY <1>1 DEF Reports, Shows, Strokes
<1> QED
  BY <1>1, <1>2 DEF FingersTold, StrokeTold

\* Taking pointers away brings no pen and finger together.
LEMMA FewerUnmixed ==
  ASSUME NEW pointers, NEW fewer, DOMAIN fewer \subseteq DOMAIN pointers,
         \A c \in DOMAIN fewer : fewer[c] = pointers[c], Mixed(fewer)
  PROVE  Mixed(pointers)
BY DEF Mixed

\* One event of the glass: `pointers` are those the event names, `lifting` those
\* that leave. Before a pointer that goes down was on the glass, the others were.
LEMMA GlassTold ==
  ASSUME TypeOK, ToldInv, up, ~strayed, ~strayed',
         NEW pointers, DOMAIN pointers \subseteq Id, DOMAIN pointers # {}, ~Mixed(pointers),
         NEW lifting, Send(pointers, lifting),
         UNCHANGED <<up, touchEnabled, contact, penDown>>,
         DOMAIN glass \subseteq DOMAIN pointers,
         \A c \in DOMAIN glass : glass[c] = pointers[c],
         DOMAIN glass' = DOMAIN pointers \ lifting,
         \A c \in DOMAIN glass' : glass'[c] = pointers[c]
  PROVE  ToldInv'
<1>1. ~Mixed(glass)'
  BY FewerUnmixed DEF Mixed
<1>2. FingersTold /\ StrokeTold /\ wire \in Seq(Message)
  BY DEF ToldInv, TypeOK
<1>3. CASE touchEnabled
  <2>1. PICK e : e = OnTouchEvent(pointers, lifting)
    OBVIOUS
  <2>2. e \in Message /\ wire' = Append(wire, e)
    BY <1>3, <2>1, MessageType DEF Send
  <2>3. \/ e.type = "touch" /\ e.contacts = Fingers' /\ Stylus = {}
        \/ e.type = "pen" /\ Fingers = {} /\ Fingers' = {} /\ (e.touching => Stylus' # {})
    <3>1. CASE /\ \A c \in DOMAIN pointers : pointers[c] \notin Pen
               /\ e = TouchMessage(pointers, lifting)
      BY <3>1 DEF TouchMessage, Fingers, Stylus
    <3>2. CASE /\ \A c \in DOMAIN pointers : pointers[c] \in Pen
               /\ e = PenMessage(pointers, lifting)
               /\ e.touching => DOMAIN pointers \ lifting # {}
      <4>1. e.type = "pen"
        BY <3>2 DEF PenMessage
      <4>2. Fingers = {} /\ Fingers' = {}
        BY <3>2 DEF Fingers
      <4> QED
        BY <3>2, <4>1, <4>2 DEF Stylus
    <3> QED
      BY <2>1, <3>1, <3>2, EventTells
  <2>4. FingersTold' /\ StrokeTold'
    BY <1>2, <1>3, <2>2, <2>3, SentTold
  <2> QED
    BY <1>1, <2>4 DEF ToldInv, SilentWithoutSession
<1>4. CASE ~touchEnabled
  <2>1. wire' = wire
    BY <1>4 DEF Send
  <2>2. FingersTold' /\ StrokeTold'
    BY <1>2, <1>4, <2>1, UnsentTold
  <2> QED
    BY <1>1, <2>2 DEF ToldInv, SilentWithoutSession
<1> QED
  BY <1>3, <1>4

\* An event of the tablet leaves the host told, or about to be.
LEMMA TabletTold ==
  ASSUME TypeOK, ToldInv, PutDown \/ Move \/ Lift \/ Cancel \/ Switch
  PROVE  ToldInv'
<1>0. UNCHANGED <<up, contact, penDown>> /\ (~up => wire' = wire) /\ (~strayed' => ~strayed)
  <2>1. UNCHANGED <<up, contact, penDown>>
    BY DEF PutDown, Move, Lift, Cancel, Switch, session, kernel, touchDevice
  <2>2. \A pointers, lifting : Send(pointers, lifting) /\ ~up => wire' = wire
    BY DEF Send
  <2>3. ~up => wire' = wire
    BY <2>2 DEF PutDown, Move, Lift, Cancel, Switch
  <2>4. strayed \in BOOLEAN
    BY DEF TypeOK
  <2>5. ~strayed' => ~strayed
    BY <2>4 DEF PutDown, Move, Lift, Cancel, Switch
  <2> QED
    BY <2>1, <2>3, <2>5
<1>1. DOMAIN glass \subseteq Id
  BY DEF TypeOK
<1>2. CASE ~(up /\ ~strayed')
  BY <1>0, <1>2 DEF ToldInv, SilentWithoutSession
<1> SUFFICES ASSUME up, ~strayed' PROVE ToldInv'
  BY <1>2
<1>3. ~strayed /\ ~Mixed(glass)
  BY <1>0 DEF ToldInv
<1>4. CASE PutDown
  <2>1. PICK c \in Id \ DOMAIN glass, t \in Tool :
            /\ glass' = [o \in DOMAIN glass \cup {c} |-> IF o = c THEN t ELSE glass[o]]
            /\ Send(glass', {})
    BY <1>4 DEF PutDown
  <2>2. ~Mixed(glass') /\ UNCHANGED touchEnabled
    BY <1>4 DEF PutDown
  <2>3. PICK pointers : pointers = glass'
    OBVIOUS
  <2>4. /\ DOMAIN pointers = DOMAIN glass \cup {c}
        /\ \A o \in DOMAIN glass : pointers[o] = glass[o]
    BY <2>1, <2>3
  <2>5. Send(pointers, {}) /\ ~Mixed(pointers)
    BY <2>1, <2>2, <2>3
  <2>6. /\ DOMAIN pointers \subseteq Id /\ DOMAIN pointers # {}
        /\ DOMAIN glass \subseteq DOMAIN pointers
        /\ DOMAIN glass' = DOMAIN pointers \ {}
        /\ \A o \in DOMAIN glass' : glass'[o] = pointers[o]
    BY <1>1, <2>3, <2>4
  <2> QED
    BY <1>0, <1>3, <2>2, <2>4, <2>5, <2>6, GlassTold
<1>5. ASSUME NEW lifting, Send(glass, lifting), DOMAIN glass # {}, UNCHANGED touchEnabled,
             DOMAIN glass' = DOMAIN glass \ lifting, \A o \in DOMAIN glass' : glass'[o] = glass[o]
      PROVE  ToldInv'
  BY <1>0, <1>1, <1>3, <1>5, GlassTold
<1>6. CASE Move
  BY <1>5, <1>6 DEF Move, tablet
<1>7. CASE Lift
  <2>1. PICK c \in DOMAIN glass :
            /\ Send(glass, {c})
            /\ glass' = [o \in DOMAIN glass \ {c} |-> glass[o]]
    BY <1>7 DEF Lift
  <2>2. DOMAIN glass' = DOMAIN glass \ {c} /\ \A o \in DOMAIN glass' : glass'[o] = glass[o]
    BY <2>1
  <2>3. UNCHANGED touchEnabled
    BY <1>7 DEF Lift
  <2> QED
    BY <1>5, <2>1, <2>2, <2>3
<1>8. CASE Cancel
  <2>1. DOMAIN glass' = {}
    BY <1>8 DEF Cancel, NoSlots
  <2>2. Send(glass, DOMAIN glass) /\ DOMAIN glass # {} /\ UNCHANGED touchEnabled
    BY <1>8 DEF Cancel
  <2> QED
    BY <1>5, <2>1, <2>2
<1>9. CASE Switch
  <2>1. touchEnabled' = ~touchEnabled /\ UNCHANGED <<glass, wire, up, contact, penDown>>
        /\ (touchEnabled => DOMAIN glass = {})
    BY <1>9 DEF Switch, session, kernel, touchDevice
  <2>2. Down' = Down /\ (\A i, kind : LastOf(i, kind)' <=> LastOf(i, kind))
        /\ \A kind : NoneOf(kind)' <=> NoneOf(kind)
    BY <2>1 DEF Down, LastOf, NoneOf
  <2>3. Fingers' = Fingers /\ Stylus' = Stylus
    BY <2>1 DEF Fingers, Stylus
  <2>4. touchEnabled => Fingers = {} /\ Stylus = {}
    BY <2>1 DEF Fingers, Stylus
  <2>5. ~touchEnabled \/ (Fingers = {} /\ Stylus = {})
    BY <2>4
  <2>6. (\A contacts : Reports(contacts) => Reports(contacts)') /\ (Shows => Shows') /\ ~Strokes
    <3>1. \A contacts : Reports(contacts) => contacts = {}
      BY <2>5 DEF Reports
    <3>2. Shows => Down = {}
      BY <2>5 DEF Shows
    <3> QED
      BY <2>2, <2>5, <3>1, <3>2 DEF Reports, Shows, Strokes
  <2>7. FingersTold /\ StrokeTold
    BY <1>3 DEF ToldInv
  <2>8. \A i \in 1 .. Len(wire) : LastOf(i, "touch") => wire[i].contacts = {}
    BY <2>5, <2>7 DEF FingersTold, Reports
  <2>9. FingersTold'
    BY <2>1, <2>2, <2>6, <2>7, <2>8 DEF FingersTold, Reports
  <2>10. StrokeTold'
    BY <2>1, <2>2, <2>6, <2>7 DEF StrokeTold
  <2> QED
    BY <1>3, <2>1, <2>9, <2>10 DEF ToldInv, SilentWithoutSession, Mixed
<1> QED
  BY <1>4, <1>6, <1>7, <1>8, <1>9

\* A report that is read makes the device show what it says.
LEMMA TouchTold ==
  ASSUME Inv, ToldInv, PollTouch
  PROVE  ToldInv'
<1> DEFINE contacts == Head(wire).contacts
<1>1. /\ contacts \in SUBSET Id /\ up /\ wire # <<>> /\ wire' = Tail(wire)
      /\ wire \in Seq(Message) /\ Head(wire).type = "touch" /\ wire[1] = Head(wire)
      /\ UNCHANGED <<glass, touchEnabled, up, penDown, strayed>>
  BY HeadType DEF Inv, TypeOK, PollTouch, tablet
<1>2. CASE strayed
  BY <1>1, <1>2 DEF ToldInv, SilentWithoutSession
<1> SUFFICES ASSUME ~strayed PROVE ToldInv'
  BY <1>2
<1>3. FingersTold /\ StrokeTold /\ ~Mixed(glass)
  BY <1>1 DEF ToldInv
<1>4. Fingers' = Fingers /\ Stylus' = Stylus
  BY <1>1 DEF Fingers, Stylus
<1>5. (\A c : Reports(c)' <=> Reports(c)) /\ (Strokes' <=> Strokes)
  BY <1>1, <1>4 DEF Reports, Strokes
<1>6. Len(wire) \in Nat /\ 1 \in 1 .. Len(wire)
  BY <1>1
<1>7. Down' \subseteq contacts
      /\ (contacts \subseteq Down' \/ \A n \in Slot : contact'[n] # NoFinger)
  <2>1. contact' = Emit(idSlot, contacts) /\ TypeOK /\ SlotsTold
    BY DEF PollTouch, Inject, Inv
  <2>2. /\ contact' \in [Slot -> contacts \cup {NoFinger}]
        /\ \/ \A c \in contacts : \E n \in Slot : contact'[n] = c
           \/ \A n \in Slot : contact'[n] # NoFinger
    BY <1>1, <2>1, EmitMatches
  <2>3. NoFinger \notin contacts
    BY <1>1, TouchAssumption
  <2>4. Down' = {contact'[n] : n \in Slot} \ {NoFinger}
    BY DEF Down
  <2>5. Down' \subseteq contacts
    BY <2>2, <2>4
  <2>6. (\A c \in contacts : \E n \in Slot : contact'[n] = c) => contacts \subseteq Down'
    BY <2>3, <2>4
  <2> QED
    BY <2>2, <2>5, <2>6
<1>8. Reports(contacts) => Shows'
  BY <1>1, <1>4, <1>7 DEF Reports, Shows
<1>9. FingersTold'
  <2>1. NoneOf("touch")' => Shows'
    <3> SUFFICES ASSUME NoneOf("touch")' PROVE Shows'
      OBVIOUS
    <3>1. LastOf(1, "touch")
      BY <1>1, <1>6, TailLast DEF NoneOf
    <3> QED
      BY <1>1, <1>3, <1>6, <1>8, <3>1 DEF FingersTold
  <2>2. \A i \in 1 .. Len(wire') : LastOf(i, "touch")' =>
           wire'[i].contacts = {} \/ (touchEnabled' /\ wire'[i].contacts = Fingers')
    <3> SUFFICES ASSUME NEW i \in 1 .. Len(wire'), LastOf(i, "touch")'
                 PROVE  wire'[i].contacts = {} \/ (touchEnabled' /\ wire'[i].contacts = Fingers')
      OBVIOUS
    <3>1. i + 1 \in 1 .. Len(wire) /\ LastOf(i + 1, "touch") /\ wire'[i] = wire[i + 1]
      BY <1>1, TailLast
    <3>2. Reports(wire[i + 1].contacts)
      BY <1>3, <3>1 DEF FingersTold
    <3> QED
      BY <1>1, <1>4, <3>1, <3>2 DEF Reports
  <2> QED
    BY <2>1, <2>2 DEF FingersTold, Reports
<1>10. StrokeTold'
  <2>1. NoneOf("pen")' => NoneOf("pen")
    BY <1>1, TailLast
  <2>2. \A i \in 1 .. Len(wire') : LastOf(i, "pen")' /\ wire'[i].touching => Strokes'
    BY <1>1, <1>3, <1>5, TailLast DEF StrokeTold
  <2> QED
    BY <1>1, <1>3, <1>5, <2>1, <2>2 DEF StrokeTold
<1> QED
  BY <1>1, <1>3, <1>9, <1>10 DEF ToldInv, SilentWithoutSession, Mixed

\* A pen event that is read, likewise.
LEMMA PenIsTold ==
  ASSUME TypeOK, ToldInv, PollPen
  PROVE  ToldInv'
<1>1. /\ up /\ wire # <<>> /\ wire' = Tail(wire)
      /\ wire \in Seq(Message) /\ Head(wire).type = "pen" /\ wire[1] = Head(wire)
      /\ penDown' = Head(wire).touching
      /\ UNCHANGED <<glass, touchEnabled, up, contact, strayed>>
  BY DEF TypeOK, PollPen, InjectPen, tablet, touchDevice
<1>2. CASE strayed
  BY <1>1, <1>2 DEF ToldInv, SilentWithoutSession
<1> SUFFICES ASSUME ~strayed PROVE ToldInv'
  BY <1>2
<1>3. FingersTold /\ StrokeTold /\ ~Mixed(glass)
  BY <1>1 DEF ToldInv
<1>4. Fingers' = Fingers /\ Stylus' = Stylus /\ Down' = Down
  BY <1>1 DEF Fingers, Stylus, Down
<1>5. (\A c : Reports(c)' <=> Reports(c)) /\ (Strokes' <=> Strokes) /\ (Shows' <=> Shows)
  BY <1>1, <1>4 DEF Reports, Strokes, Shows
<1>6. Len(wire) \in Nat /\ 1 \in 1 .. Len(wire)
  BY <1>1
<1>7. StrokeTold'
  <2>1. NoneOf("pen")' /\ penDown' => Strokes'
    <3> SUFFICES ASSUME NoneOf("pen")', penDown' PROVE Strokes'
      OBVIOUS
    <3>1. LastOf(1, "pen")
      BY <1>1, <1>6, TailLast DEF NoneOf
    <3> QED
      BY <1>1, <1>3, <1>5, <1>6, <3>1 DEF StrokeTold
  <2>2. \A i \in 1 .. Len(wire') : LastOf(i, "pen")' /\ wire'[i].touching => Strokes'
    BY <1>1, <1>3, <1>5, TailLast DEF StrokeTold
  <2> QED
    BY <2>1, <2>2 DEF StrokeTold
<1>8. FingersTold'
  <2>1. NoneOf("touch")' => NoneOf("touch")
    BY <1>1, TailLast
  <2>2. \A i \in 1 .. Len(wire') : LastOf(i, "touch")' =>
           wire'[i].contacts = {} \/ (touchEnabled' /\ wire'[i].contacts = Fingers')
    <3> SUFFICES ASSUME NEW i \in 1 .. Len(wire'), LastOf(i, "touch")'
                 PROVE  wire'[i].contacts = {} \/ (touchEnabled' /\ wire'[i].contacts = Fingers')
      OBVIOUS
    <3>1. i + 1 \in 1 .. Len(wire) /\ LastOf(i + 1, "touch") /\ wire'[i] = wire[i + 1]
      BY <1>1, TailLast
    <3>2. Reports(wire[i + 1].contacts)
      BY <1>3, <3>1 DEF FingersTold
    <3> QED
      BY <1>1, <1>4, <3>1, <3>2 DEF Reports
  <2> QED
    BY <1>3, <1>5, <2>1, <2>2 DEF FingersTold, Reports
<1> QED
  BY <1>1, <1>3, <1>7, <1>8 DEF ToldInv, SilentWithoutSession, Mixed

\* A session ends with nothing on the way, and the next one starts with nothing
\* down.
LEMMA SessionTold ==
  ASSUME ToldInv, EndSession \/ StartSession
  PROVE  ToldInv'
<1>1. CASE EndSession
  BY <1>1 DEF EndSession, ToldInv, SilentWithoutSession
<1>2. CASE StartSession
  <2>1. /\ wire' = <<>> /\ up' /\ strayed' = Mixed(glass) /\ glass' = glass
        /\ contact' = NoContact /\ penDown' = FALSE
    BY <1>2 DEF StartSession, ToldInv, SilentWithoutSession, tablet
  <2>2. Down' = {}
    BY <2>1 DEF Down, NoContact
  <2>3. Len(wire') = 0
    BY <2>1
  <2>4. FingersTold' /\ StrokeTold'
    BY <2>1, <2>2, <2>3 DEF FingersTold, StrokeTold, Shows
  <2> QED
    BY <2>1, <2>4 DEF ToldInv, SilentWithoutSession, Mixed
<1> QED
  BY <1>1, <1>2

\* Every step keeps the host told.
LEMMA StepTold == Inv /\ ToldInv /\ [Next]_vars => ToldInv'
<1> SUFFICES ASSUME Inv, ToldInv, [Next]_vars PROVE ToldInv'
  OBVIOUS
<1>t. TypeOK
  BY DEF Inv
<1>1. CASE UNCHANGED vars
  <2>1. UNCHANGED <<glass, touchEnabled, wire, up, strayed, contact, penDown>>
    BY <1>1 DEF vars, tablet, session, kernel, touchDevice
  <2> QED
    BY <2>1 DEF ToldInv, SilentWithoutSession, Mixed, FingersTold, StrokeTold, LastOf, NoneOf,
                Reports, Shows, Strokes, Stylus, Fingers, Down
<1>2. CASE Next
  BY <1>2, <1>t, TabletTold, TouchTold, PenIsTold, SessionTold DEF Next
<1> QED
  BY <1>1, <1>2

\* When everything has arrived, no finger and no pen is down that is not on the
\* glass, and a finger is left out only when each slot holds another.
THEOREM NeverStuck == Spec => []NothingStuck
<1>1. Init => Inv /\ ToldInv
  BY InitInv DEF Init, ToldInv, SilentWithoutSession
<1>2. Inv /\ ToldInv /\ [Next]_vars => (Inv /\ ToldInv)'
  BY StepInv, StepTold
<1>3. Inv /\ ToldInv => NothingStuck
  <2> SUFFICES ASSUME Inv, ToldInv, up, wire = <<>>, ~strayed
               PROVE  /\ Down \subseteq Fingers
                      /\ Down = {} \/ Fingers \subseteq Down \/ Cardinality(Down) = MaxSlots
                      /\ penTouch => DOMAIN glass # Fingers
    BY DEF NothingStuck
  <2>1. Len(wire) = 0
    OBVIOUS
  <2>2. Shows /\ (penDown => Strokes)
    BY <2>1 DEF ToldInv, FingersTold, StrokeTold, NoneOf
  <2>3. penTouch => penDown
    BY DEF Inv, PenTold
  <2>4. (\A n \in Slot : contact[n] # NoFinger) => Cardinality(Down) = MaxSlots
    <3> SUFFICES ASSUME \A n \in Slot : contact[n] # NoFinger
                 PROVE  Cardinality(Down) = MaxSlots
      OBVIOUS
    <3>1. contact \in [Slot -> Down] /\ \A d \in Down : \E n \in Slot : contact[n] = d
      BY DEF Down, Inv, TypeOK
    <3>2. \A n, m \in Slot : contact[n] = contact[m] => n = m
      <4> TAKE n \in Slot, m \in Slot
      <4>1. contact[n] \in Id
        BY DEF Inv, TypeOK
      <4> QED
        BY <4>1 DEF Inv, SlotsTold
    <3>3. contact \in Surjection(Slot, Down) /\ contact \in Injection(Slot, Down)
      BY <3>1, <3>2 DEF Surjection, Injection, IsInjective
    <3>4. Cardinality(Down) = Cardinality(Slot)
      BY <3>3, FS_Surjection, Slots
    <3>5. Cardinality(Slot) = MaxSlots
      <4>1. MaxSlots \in Nat \ {0}
        BY TouchAssumption
      <4>2. Cardinality(0 .. MaxSlots - 1) = (MaxSlots - 1) - 0 + 1
        BY <4>1, FS_Interval
      <4> QED
        BY <4>1, <4>2 DEF Slot
    <3> QED
      BY <3>4, <3>5
  <2> QED
    BY <2>2, <2>3, <2>4 DEF Shows, Strokes, Stylus
<1> QED
  BY <1>1, <1>2, <1>3, PTL DEF Spec
=============================================================================
