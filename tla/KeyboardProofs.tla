--------------------------- MODULE KeyboardProofs ---------------------------
(***************************************************************************)
(* Proofs about Keyboard for a ring of any size and any keys: its types,   *)
(* the claimed slot that no interrupt writes, no stuck modifier, and the   *)
(* queue that the ring is for its reader.                                  *)
(*                                                                         *)
(* TypeOK is not inductive: between claim and mask the start cursor may be *)
(* SIZE, and elsewhere it may not.  The claimed slot needs the same fact,  *)
(* start = idx + 1, because the handler compares its cursor with start.    *)
(* The queue needs one more: what check saw holds until claim (ClaimsOne). *)
(***************************************************************************)
EXTENDS Keyboard, SequenceTheorems, TLAPS

\* The start cursor is ahead of the claimed slot until it is masked.
Cursor ==
  IF pc \in {"load", "mask"} THEN keyboard_buffer_start = idx + 1
  ELSE keyboard_buffer_start \in Slots

IInv == TypeOK /\ Cursor /\ NoStuckModifier

(* Every key types a character of the tables.                              *)
LEMMA TypedChars == /\ NUL \in Chars
                    /\ \A k \in CharKeys : character(k) \in Chars
<1>1. NUL \in Chars
  <2>1. "F1" \in CharKeys /\ scancodes["F1"] = NUL
    BY DEF CharKeys, scancodes
  <2> QED BY <2>1 DEF Chars
<1>2. \A k \in CharKeys : character(k) \in Chars
  BY DEF character, Chars
<1> QED BY <1>1, <1>2

(* The first five control keys are those that a break code clears.         *)
LEMMA ReleasedKeys == \A i \in 1..5 : control_map[i] \in DisabledByRelease
BY DEF DisabledByRelease

(* init_keyboard_driver() leaves an empty ring and no bit set.             *)
LEMMA InitInvariant == Init => IInv
<1> SUFFICES ASSUME Init PROVE IInv
  OBVIOUS
<1>1. TypeOK
  <2>1. 0 \in Slots /\ 0 \in 0..SIZE
    BY KeyboardAssumption DEF Slots
  <2> QED BY <2>1, TypedChars DEF Init, TypeOK, Labels
<1>2. Cursor
  BY <1>1, KeyboardAssumption DEF Init, Cursor, Slots
<1>3. NoStuckModifier
  BY DEF Init, NoStuckModifier
<1> QED BY <1>1, <1>2, <1>3 DEF IInv

(* The handler's write: one slot, never the claimed one.                   *)
LEMMA HandlerWrites ==
  ASSUME IInv, NEW k \in CharKeys, press_character(k)
  PROVE  /\ keyboard_buffer' \in [Slots -> Chars] /\ keyboard_buffer_end' \in Slots
         /\ lost' \in BOOLEAN
         /\ pc = "load" => keyboard_buffer'[idx] = keyboard_buffer[idx]
<1>1. CASE HasRoom
  <2>1. /\ keyboard_buffer' = [keyboard_buffer EXCEPT ![keyboard_buffer_end] = character(k)]
        /\ keyboard_buffer_end' = (keyboard_buffer_end + 1) % SIZE
        /\ lost' = (lost \/ keyboard_buffer_end' = keyboard_buffer_start)
    BY <1>1 DEF press_character, Advance
  <2>2. keyboard_buffer_end \in Nat /\ keyboard_buffer_end \in Slots /\ lost \in BOOLEAN
    BY DEF IInv, TypeOK, Slots
  <2>3. keyboard_buffer_end' \in Slots
    BY <2>1, <2>2, KeyboardAssumption DEF Slots
  <2>4. keyboard_buffer' \in [Slots -> Chars]
    BY <2>1, TypedChars DEF IInv, TypeOK
  <2>5. ASSUME pc = "load" PROVE idx # keyboard_buffer_end
    <3>1. keyboard_buffer_start = idx + 1 /\ idx \in Nat
      BY <2>5 DEF IInv, TypeOK, Cursor, Slots
    <3> QED BY <1>1, <2>2, <3>1 DEF HasRoom
  <2>6. pc = "load" => keyboard_buffer'[idx] = keyboard_buffer[idx]
    BY <2>1, <2>5 DEF IInv, TypeOK
  <2>7. lost' \in BOOLEAN
    BY <2>1, <2>2
  <2> QED BY <2>3, <2>4, <2>6, <2>7
<1>2. CASE ~HasRoom
  BY <1>2 DEF press_character, IInv, TypeOK
<1> QED BY <1>1, <1>2

(* The inductive invariant holds throughout.                               *)
THEOREM Invariance == Spec => []IInv
<1>1. IInv /\ [Next]_vars => IInv'
  <2> SUFFICES ASSUME IInv, [Next]_vars PROVE IInv'
    OBVIOUS
  <2> USE DEF IInv
  <2>1. CASE UNCHANGED vars
    BY <2>1 DEF vars, cursors, reader, TypeOK, Cursor, NoStuckModifier
  <2>2. ASSUME NEW k \in Keys, release(k) PROVE IInv'
    <3>1. TypeOK' /\ Cursor'
      BY <2>2 DEF release, TypeOK, Cursor, cursors, reader
    <3>2. NoStuckModifier'
      BY <2>2, ReleasedKeys DEF release, NoStuckModifier
    <3> QED BY <3>1, <3>2
  <2>3. ASSUME NEW k \in Keys, press_control(k) PROVE IInv'
    <3>1. TypeOK' /\ Cursor'
      BY <2>3 DEF press_control, TypeOK, Cursor, cursors, reader
    <3>2. NoStuckModifier'
      BY <2>3 DEF press_control, NoStuckModifier
    <3> QED BY <3>1, <3>2
  <2>4. ASSUME NEW k \in Keys, press_character(k) PROVE IInv'
    <3>1. k \in CharKeys
      BY <2>4 DEF press_character
    <3>2. TypeOK'
      BY <2>4, <3>1, HandlerWrites DEF press_character, TypeOK, reader
    <3>3. Cursor' /\ NoStuckModifier'
      BY <2>4 DEF press_character, Cursor, NoStuckModifier, reader
    <3> QED BY <3>2, <3>3
  <2>5. CASE scanf
    BY <2>5 DEF scanf, cursors, TypeOK, Labels, Cursor, NoStuckModifier
  <2>6. CASE check
    BY <2>6 DEF check, cursors, TypeOK, Labels, Cursor, NoStuckModifier
  <2>7. CASE claim
    <3>1. keyboard_buffer_start \in Slots /\ pc' = "load" /\ idx' = keyboard_buffer_start
          /\ keyboard_buffer_start' = keyboard_buffer_start + 1
      BY <2>7 DEF claim, Cursor
    <3>2. keyboard_buffer_start' \in 0..SIZE
      BY <3>1, KeyboardAssumption DEF Slots
    <3> QED BY <2>7, <3>1, <3>2 DEF claim, TypeOK, Labels, Cursor, NoStuckModifier
  <2>8. CASE load
    BY <2>8 DEF load, cursors, TypeOK, Labels, Cursor, NoStuckModifier
  <2>9. CASE mask
    <3>1. pc' = "use" /\ keyboard_buffer_start' = keyboard_buffer_start % SIZE
          /\ keyboard_buffer_start \in Nat
      BY <2>9 DEF mask, TypeOK
    <3>2. keyboard_buffer_start' \in Slots /\ keyboard_buffer_start' \in 0..SIZE
      BY <3>1, KeyboardAssumption DEF Slots
    <3> QED BY <2>9, <3>1, <3>2 DEF mask, TypeOK, Labels, Cursor, NoStuckModifier
  <2>10. CASE use
    BY <2>10 DEF use, cursors, TypeOK, Labels, Cursor, NoStuckModifier
  <2> QED BY <2>1, <2>2, <2>3, <2>4, <2>5, <2>6, <2>7, <2>8, <2>9, <2>10
    DEF Next, keyboard_handler, Reader
<1> QED BY <1>1, InitInvariant, PTL DEF Spec

(* TypeOK of the Keyboard module, for a ring of any size.                  *)
THEOREM TypeCorrectness == Spec => []TypeOK
BY Invariance, PTL DEF IInv

(* No key sequence leaves one of the modifiers' bits set with its key up,  *)
(* for any set of keys.                                                    *)
THEOREM ModifiersComeUp == Spec => []NoStuckModifier
BY Invariance, PTL DEF IInv

(* keyboard_getchar() loads the character it claimed, whichever interrupts *)
(* come between the two.                                                   *)
THEOREM ClaimedSlotIsSafe == Spec => InFlightIntact
<1>1. IInv /\ [Next]_vars =>
        [pc = "load" => keyboard_buffer'[idx] = keyboard_buffer[idx]]_vars
  <2> SUFFICES ASSUME IInv, Next, pc = "load"
               PROVE  keyboard_buffer'[idx] = keyboard_buffer[idx]
    OBVIOUS
  <2>1. CASE keyboard_handler
    <3>1. PICK k \in Keys : release(k) \/ press_control(k) \/ press_character(k)
      BY <2>1 DEF keyboard_handler
    <3>2. CASE press_character(k)
      BY <3>2, HandlerWrites DEF press_character
    <3>3. CASE release(k) \/ press_control(k)
      BY <3>3 DEF release, press_control, cursors
    <3> QED BY <3>1, <3>2, <3>3
  <2>2. CASE Reader
    BY <2>2 DEF Reader, scanf, check, claim, load, mask, use, cursors
  <2> QED BY <2>1, <2>2 DEF Next
<1> QED BY <1>1, Invariance, PTL DEF Spec, InFlightIntact

-----------------------------------------------------------------------------
(***************************************************************************)
(* The ring is the queue of CharQueue. Its slots are counted around the    *)
(* ring, so the first steps say what % SIZE does to a cursor, to the count *)
(* of characters and to a slot: each is below 2 SIZE.                      *)
(***************************************************************************)

\* A cursor or a slot number, masked.
Slot(k) == IF k < SIZE THEN k ELSE k - SIZE

\* Contents, of any ring, as the module computes it and without %.
Ring(b, s, e) ==
  [i \in 1..((e + SIZE - (s % SIZE)) % SIZE) |-> b[(s + i - 1) % SIZE]]
Filled(s, e) == IF e >= Slot(s) THEN e - Slot(s) ELSE e + SIZE - Slot(s)
Run(b, o, n) == [i \in 1..n |-> b[Slot(o + i - 1)]]

(* What & (SIZE - 1) makes of a number below 2 SIZE.                       *)
LEMMA Masked ==
  ASSUME NEW k \in Nat, k < SIZE + SIZE
  PROVE  k % SIZE = Slot(k) /\ Slot(k) \in Slots
<1>1. SIZE \in Nat /\ SIZE > 1
  BY KeyboardAssumption
<1>2. CASE k < SIZE
  BY <1>1, <1>2 DEF Slot, Slots
<1>3. CASE ~(k < SIZE)
  BY <1>1, <1>3 DEF Slot, Slots
<1> QED BY <1>2, <1>3

(* The ring's characters, counted without a remainder.                     *)
LEMMA RingIs ==
  ASSUME NEW b, NEW s \in 0..SIZE, NEW e \in Slots
  PROVE  /\ Ring(b, s, e) = Run(b, Slot(s), Filled(s, e))
         /\ Filled(s, e) \in Nat /\ Filled(s, e) < SIZE /\ Slot(s) \in Slots
<1>1. SIZE \in Nat /\ SIZE > 1 /\ s \in Nat /\ s <= SIZE /\ e \in Nat /\ e < SIZE
  BY KeyboardAssumption DEF Slots
<1>2. s % SIZE = Slot(s) /\ Slot(s) \in Nat /\ Slot(s) < SIZE /\ Slot(s) \in Slots
  BY <1>1, Masked DEF Slots
<1>3. (e + SIZE - (s % SIZE)) % SIZE = Filled(s, e)
      /\ Filled(s, e) \in Nat /\ Filled(s, e) < SIZE
  <2> DEFINE m == e + SIZE - Slot(s)
  <2>1. m \in Nat /\ m < SIZE + SIZE
    BY <1>1, <1>2
  <2>2. m % SIZE = Slot(m) /\ Slot(m) \in Slots
    BY <2>1, Masked
  <2>3. Slot(m) = Filled(s, e)
    BY <1>1, <1>2 DEF Filled, Slot
  <2> QED BY <1>1, <1>2, <2>2, <2>3 DEF Slots
<1>4. ASSUME NEW i \in 1..Filled(s, e)
      PROVE  (s + i - 1) % SIZE = Slot(Slot(s) + i - 1)
  <2>1. i \in Nat /\ i >= 1 /\ i < SIZE
    BY <1>1, <1>3
  <2>2. s + i - 1 \in Nat /\ s + i - 1 < SIZE + SIZE
    BY <1>1, <2>1
  <2>3. (s + i - 1) % SIZE = Slot(s + i - 1)
    BY <2>2, Masked
  <2>4. Slot(s + i - 1) = Slot(Slot(s) + i - 1)
    BY <1>1, <2>1 DEF Slot
  <2> QED BY <2>3, <2>4
<1>5. Ring(b, s, e) = Run(b, Slot(s), Filled(s, e))
  BY <1>3, <1>4 DEF Ring, Run
<1> QED BY <1>2, <1>3, <1>5

(* A run of slots is a sequence of characters.                             *)
LEMMA RunIs ==
  ASSUME NEW b \in [Slots -> Chars], NEW o \in Nat, NEW n \in Nat,
         \A i \in 1..n : Slot(o + i - 1) \in Slots
  PROVE  /\ Run(b, o, n) \in Seq(Chars) /\ Len(Run(b, o, n)) = n
         /\ \A i \in 1..n : Run(b, o, n)[i] = b[Slot(o + i - 1)]
<1>1. \A i \in 1..n : b[Slot(o + i - 1)] \in Chars
  OBVIOUS
<1>2. PICK r \in [1..n -> Chars] :
        r = Run(b, o, n) /\ \A i \in 1..n : r[i] = b[Slot(o + i - 1)]
  <2> HIDE DEF Slot, Slots, Chars
  <2>1. Run(b, o, n) \in [1..n -> Chars]
    BY <1>1 DEF Run
  <2>2. \A i \in 1..n : Run(b, o, n)[i] = b[Slot(o + i - 1)]
    BY DEF Run
  <2> QED BY <2>1, <2>2
<1>3. r \in Seq(Chars) /\ Len(r) = n
  OBVIOUS
<1> QED BY <1>2, <1>3

(* The handler's write behind the last character appends to the queue,     *)
(* and there was room, when it leaves the cursors apart.                   *)
LEMMA Written ==
  ASSUME NEW b \in [Slots -> Chars], NEW s \in 0..SIZE, NEW e \in Slots,
         NEW ch \in Chars, NEW f, f = Slot(e + 1), e + 1 # s, f # s
  PROVE  /\ Ring([b EXCEPT ![e] = ch], s, f) = Append(Ring(b, s, e), ch)
         /\ Len(Ring(b, s, e)) < SIZE - 1
<1>1. SIZE \in Nat /\ SIZE > 1 /\ s \in Nat /\ s <= SIZE /\ e \in Nat /\ e < SIZE
  BY KeyboardAssumption DEF Slots
<1>2. PICK o \in Slots : o = Slot(s)
  BY RingIs
<1>3. o \in Nat /\ o < SIZE
  BY <1>1, <1>2 DEF Slots
<1>4. PICK n \in Nat : n = Filled(s, e) /\ n < SIZE
  BY RingIs
<1>5. f \in Slots /\ f # o
  BY <1>1, <1>2 DEF Slot, Slots
<1>6. n + 1 = Filled(s, f) /\ n < SIZE - 1
  BY <1>1, <1>2, <1>3, <1>4, <1>5 DEF Filled, Slot, Slots
<1>7. ASSUME NEW i \in 1..n PROVE Slot(o + i - 1) # e /\ Slot(o + i - 1) \in Slots
  BY <1>1, <1>2, <1>3, <1>4, <1>6 DEF Filled, Slot, Slots
<1>8. Slot(o + (n + 1) - 1) = e
  BY <1>1, <1>2, <1>3, <1>4, <1>6 DEF Filled, Slot
<1>9. PICK d \in [Slots -> Chars] : d = [b EXCEPT ![e] = ch]
  OBVIOUS
<1>10. Ring(b, s, e) = Run(b, o, n) /\ Ring(d, s, f) = Run(d, o, n + 1)
  BY <1>2, <1>4, <1>5, <1>6, RingIs
<1>11. Run(d, o, n + 1) = [i \in 1..(n + 1) |-> d[Slot(o + i - 1)]]
  BY DEF Run
<1>12. PICK q \in Seq(Chars) : /\ q = Run(b, o, n) /\ Len(q) = n
                               /\ \A i \in 1..n : q[i] = b[Slot(o + i - 1)]
  BY <1>3, <1>4, <1>7, RunIs
<1>13. ASSUME NEW i \in 1..(n + 1)
       PROVE  d[Slot(o + i - 1)] = IF i = n + 1 THEN ch ELSE q[i]
  <2>1. CASE i = n + 1
    BY <1>8, <1>9, <2>1
  <2>2. CASE i # n + 1
    <3>1. i \in 1..n
      BY <2>2
    <3> QED BY <1>7, <1>9, <1>12, <2>2, <3>1
  <2> QED BY <2>1, <2>2
<1>14. Append(q, ch) = [i \in 1..(n + 1) |-> IF i = n + 1 THEN ch ELSE q[i]]
  <2>1. /\ Append(q, ch) \in Seq(Chars) /\ Len(Append(q, ch)) = n + 1
        /\ \A i \in 1..n : Append(q, ch)[i] = q[i]
        /\ Append(q, ch)[n + 1] = ch
    BY <1>12, AppendProperties
  <2>2. Append(q, ch) \in [1..(n + 1) -> Chars]
    BY <2>1, LenProperties
  <2>3. \A i \in 1..(n + 1) : i = n + 1 \/ i \in 1..n
    OBVIOUS
  <2> QED BY <2>1, <2>2, <2>3
<1>15. Run(d, o, n + 1) = Append(q, ch)
  BY <1>11, <1>13, <1>14
<1> QED BY <1>6, <1>9, <1>10, <1>12, <1>15

(* keyboard_getchar() takes the oldest character and leaves the others.    *)
LEMMA Taken ==
  ASSUME NEW b \in [Slots -> Chars], NEW s \in Slots, NEW e \in Slots, s # e
  PROVE  /\ Ring(b, s, e) # <<>> /\ Head(Ring(b, s, e)) = b[s]
         /\ Tail(Ring(b, s, e)) = Ring(b, s + 1, e)
<1>1. SIZE \in Nat /\ SIZE > 1 /\ s \in Nat /\ s < SIZE /\ e \in Nat /\ e < SIZE
      /\ s \in 0..SIZE /\ s + 1 \in 0..SIZE
  BY KeyboardAssumption DEF Slots
<1>2. Slot(s) = s /\ Slot(s + 1 - 1) = s
  BY <1>1 DEF Slot
<1>3. PICK n \in Nat : n = Filled(s, e) /\ n < SIZE
  BY <1>1, RingIs
<1>4. n > 0 /\ Filled(s + 1, e) = n - 1
  BY <1>1, <1>3 DEF Filled, Slot
<1>5. ASSUME NEW i \in 1..n PROVE Slot(s + i - 1) \in Slots
  BY <1>1, <1>3 DEF Slot, Slots
<1>6. PICK o \in Slots : o = Slot(s + 1) /\ Slot(o) = o
  BY <1>1, RingIs DEF Slot, Slots
<1>7. Ring(b, s, e) = Run(b, s, n) /\ Ring(b, s + 1, e) = Run(b, o, n - 1)
  BY <1>1, <1>2, <1>3, <1>4, <1>6, RingIs
<1>8. PICK q \in Seq(Chars) : q = Run(b, s, n) /\ Len(q) = n
                              /\ \A i \in 1..n : q[i] = b[Slot(s + i - 1)]
  BY <1>1, <1>3, <1>5, RunIs
<1>9. q # <<>> /\ Head(q) = b[s]
  <2>1. 1 \in 1..n /\ q[1] = b[Slot(s + 1 - 1)]
    BY <1>4, <1>8
  <2> QED BY <1>2, <1>4, <1>8, <2>1
<1>10. ASSUME NEW i \in 1..(n - 1) PROVE q[i + 1] = b[Slot(o + i - 1)]
  <2>1. i + 1 \in 1..n /\ i \in Nat /\ i < SIZE
    BY <1>1, <1>3
  <2>2. Slot(s + (i + 1) - 1) = Slot(o + i - 1)
    BY <1>1, <1>3, <1>6, <2>1 DEF Slot
  <2>3. q[i + 1] = b[Slot(s + (i + 1) - 1)]
    BY <1>8, <2>1
  <2> QED BY <2>2, <2>3
<1>11. Tail(q) = [i \in 1..(n - 1) |-> q[i + 1]]
  <2>1. /\ Tail(q) \in Seq(Chars) /\ Len(Tail(q)) = n - 1
        /\ \A i \in 1..(n - 1) : Tail(q)[i] = q[i + 1]
    BY <1>4, <1>8, <1>9, HeadTailProperties
  <2>2. Tail(q) \in [1..(n - 1) -> Chars]
    BY <2>1, LenProperties
  <2> QED BY <2>1, <2>2
<1>12. Tail(q) = Run(b, o, n - 1)
  BY <1>10, <1>11 DEF Run
<1> QED BY <1>7, <1>8, <1>9, <1>12

(* Equal cursors are an empty queue.                                       *)
LEMMA Empty == ASSUME NEW b, NEW s \in Slots PROVE Ring(b, s, s) = <<>>
<1>1. SIZE \in Nat /\ SIZE > 1 /\ s \in Nat /\ s < SIZE /\ s \in 0..SIZE
  BY KeyboardAssumption DEF Slots
<1>2. Filled(s, s) = 0
  BY <1>1 DEF Filled, Slot
<1>3. Ring(b, s, s) = Run(b, Slot(s), 0)
  BY <1>1, <1>2, RingIs
<1>4. Run(b, Slot(s), 0) = <<>>
  BY DEF Run
<1> QED BY <1>3, <1>4

(* Masking the start cursor does not change the queue.                     *)
LEMMA MaskedStart ==
  ASSUME NEW b, NEW s \in 0..SIZE, NEW e \in Slots
  PROVE  Ring(b, s % SIZE, e) = Ring(b, s, e)
<1>1. SIZE \in Nat /\ SIZE > 1 /\ s \in Nat /\ s <= SIZE
  BY KeyboardAssumption
<1>2. s % SIZE = Slot(s) /\ Slot(s) \in 0..SIZE /\ Slot(Slot(s)) = Slot(s)
  <2>1. s % SIZE = Slot(s)
    BY <1>1, Masked
  <2> QED BY <1>1, <2>1 DEF Slot
<1>3. Filled(Slot(s), e) = Filled(s, e)
  BY <1>2 DEF Filled
<1> QED BY <1>2, <1>3, RingIs

\* What check saw still holds at claim, unless an overrun came between them.
ClaimsOne == pc = "claim" /\ ~lost => keyboard_buffer_start # keyboard_buffer_end

(* Handler and reader keep it.                                             *)
LEMMA ClaimsOneHolds == Spec => []ClaimsOne
<1>1. Init => ClaimsOne
  BY DEF Init, ClaimsOne
<1>2. IInv /\ ClaimsOne /\ [Next]_vars => ClaimsOne'
  <2> SUFFICES ASSUME IInv, ClaimsOne, [Next]_vars PROVE ClaimsOne'
    OBVIOUS
  <2>1. CASE UNCHANGED vars
    BY <2>1 DEF vars, cursors, reader, ClaimsOne
  <2>2. ASSUME NEW k \in Keys, release(k) \/ press_control(k) PROVE ClaimsOne'
    BY <2>2 DEF release, press_control, cursors, reader, ClaimsOne
  <2>3. ASSUME NEW k \in Keys, press_character(k) PROVE ClaimsOne'
    <3>1. pc' = pc /\ keyboard_buffer_start' = keyboard_buffer_start
      BY <2>3 DEF press_character, reader
    <3>2. CASE HasRoom
      <4>1. lost' \/ keyboard_buffer_end' # keyboard_buffer_start
        BY <2>3, <3>2, Zenon DEF press_character
      <4> QED BY <3>1, <4>1 DEF ClaimsOne
    <3>3. CASE ~HasRoom
      BY <2>3, <3>1, <3>3 DEF press_character, ClaimsOne
    <3> QED BY <3>2, <3>3
  <2>4. CASE Reader
    BY <2>4 DEF Reader, scanf, check, claim, load, mask, use, cursors, ClaimsOne
  <2> QED BY <2>1, <2>2, <2>3, <2>4 DEF Next, keyboard_handler
<1> QED BY <1>1, <1>2, Invariance, PTL DEF Spec

\* The queue's state, as Queue substitutes it.
got == IF pc = "load" THEN keyboard_buffer[idx] ELSE c

(* The handler's step puts one character, or none.                         *)
LEMMA HandlerPuts ==
  ASSUME IInv, keyboard_handler, ~lost'
  PROVE  \/ /\ Len(Contents) < SIZE - 1
            /\ \E ch \in Chars : Contents' = Append(Contents, ch)
            /\ got' = got
         \/ Contents' = Contents /\ got' = got
<1>1. PICK k \in Keys : release(k) \/ press_control(k) \/ press_character(k)
  BY DEF keyboard_handler
<1>2. CASE release(k) \/ press_control(k)
  BY <1>2 DEF release, press_control, cursors, reader, Contents, got
<1>3. CASE press_character(k)
  <2>1. /\ UNCHANGED <<keyboard_buffer_start, pc, idx, c>> /\ k \in CharKeys
        /\ pc = "load" => keyboard_buffer'[idx] = keyboard_buffer[idx]
    BY <1>3, HandlerWrites DEF press_character, reader
  <2>2. got' = got
    BY <2>1 DEF got
  <2>3. CASE HasRoom
    <3>1. PICK ch \in Chars : ch = character(k)
      BY <2>1, TypedChars
    <3>2. keyboard_buffer' = [keyboard_buffer EXCEPT ![keyboard_buffer_end] = ch]
          /\ keyboard_buffer_end' = (keyboard_buffer_end + 1) % SIZE
      BY <1>3, <2>3, <3>1 DEF press_character, Advance
    <3>3. keyboard_buffer_end' # keyboard_buffer_start
      BY <1>3, <2>3, Zenon DEF press_character
    <3>4. /\ keyboard_buffer \in [Slots -> Chars] /\ keyboard_buffer_start \in 0..SIZE
          /\ keyboard_buffer_end \in Slots
          /\ keyboard_buffer_end + 1 # keyboard_buffer_start
      BY <2>3 DEF IInv, TypeOK, HasRoom
    <3>5. keyboard_buffer_end' = Slot(keyboard_buffer_end + 1)
      <4>1. keyboard_buffer_end + 1 \in Nat /\ keyboard_buffer_end + 1 < SIZE + SIZE
        BY <3>4, KeyboardAssumption DEF Slots
      <4> QED BY <3>2, <4>1, Masked
    <3>6. /\ Contents = Ring(keyboard_buffer, keyboard_buffer_start, keyboard_buffer_end)
          /\ Contents' = Ring(keyboard_buffer', keyboard_buffer_start, keyboard_buffer_end')
      BY <2>1 DEF Contents, Ring
    <3>7. Contents' = Append(Contents, ch) /\ Len(Contents) < SIZE - 1
      BY <3>2, <3>3, <3>4, <3>5, <3>6, Written
    <3> QED BY <2>2, <3>7
  <2>4. CASE ~HasRoom
    BY <1>3, <2>1, <2>2, <2>4 DEF press_character, Contents
  <2> QED BY <2>3, <2>4
<1> QED BY <1>1, <1>2, <1>3

(* The reader's step takes the oldest character, finds none when there is  *)
(* none, or changes neither the queue nor the answer.                      *)
LEMMA ReaderTakes ==
  ASSUME IInv, ClaimsOne, Reader, ~lost'
  PROVE  \/ Contents # <<>> /\ got' = Head(Contents) /\ Contents' = Tail(Contents)
         \/ Contents = <<>> /\ got' = NUL /\ Contents' = Contents
         \/ Contents' = Contents /\ got' = got
<1>0. /\ keyboard_buffer \in [Slots -> Chars] /\ keyboard_buffer_start \in 0..SIZE
      /\ keyboard_buffer_end \in Slots
      /\ Contents = Ring(keyboard_buffer, keyboard_buffer_start, keyboard_buffer_end)
  BY DEF IInv, TypeOK, Contents, Ring
<1>1. CASE scanf \/ use
  BY <1>1 DEF scanf, use, cursors, Contents, got
<1>2. CASE check
  <2>1. Contents' = Contents /\ keyboard_buffer_start \in Slots
    BY <1>2 DEF check, cursors, Contents, IInv, Cursor
  <2>2. CASE keyboard_buffer_start = keyboard_buffer_end
    <3>1. Contents = <<>>
      BY <1>0, <2>1, <2>2, Empty
    <3>2. got' = NUL
      BY <1>2, <2>2 DEF check, got
    <3> QED BY <2>1, <3>1, <3>2
  <2>3. CASE keyboard_buffer_start # keyboard_buffer_end
    BY <1>2, <2>1, <2>3 DEF check, got
  <2> QED BY <2>2, <2>3
<1>3. CASE claim
  <2>1. /\ pc = "claim" /\ pc' = "load" /\ idx' = keyboard_buffer_start
        /\ keyboard_buffer_start' = keyboard_buffer_start + 1
        /\ UNCHANGED <<keyboard_buffer, keyboard_buffer_end, lost>>
    BY <1>3 DEF claim
  <2>2. keyboard_buffer_start \in Slots /\ keyboard_buffer_start # keyboard_buffer_end
    BY <2>1 DEF IInv, Cursor, ClaimsOne
  <2>3. Contents' = Ring(keyboard_buffer, keyboard_buffer_start + 1, keyboard_buffer_end)
    BY <2>1 DEF Contents, Ring
  <2>4. got' = keyboard_buffer[keyboard_buffer_start]
    BY <2>1 DEF got
  <2> QED BY <1>0, <2>2, <2>3, <2>4, Taken
<1>4. CASE load
  BY <1>4 DEF load, cursors, Contents, got
<1>5. CASE mask
  <2>1. /\ pc = "mask" /\ pc' = "use" /\ keyboard_buffer_start' = (keyboard_buffer_start % SIZE)
        /\ UNCHANGED <<keyboard_buffer, keyboard_buffer_end, c>>
    BY <1>5 DEF mask
  <2>2. Contents' = Ring(keyboard_buffer, (keyboard_buffer_start % SIZE), keyboard_buffer_end)
    BY <2>1 DEF Contents, Ring
  <2> QED BY <1>0, <2>1, <2>2, MaskedStart DEF got
<1> QED BY <1>1, <1>2, <1>3, <1>4, <1>5 DEF Reader

(* keyboard_buffer, between the handler's interrupts and the shell's reads,*)
(* is a bounded queue for as long as no write makes a full buffer look     *)
(* empty: nothing is lost, read twice or read out of order.                *)
THEOREM RingIsAQueue == Spec => QueueUntilOverrun
<1>1. Init => Queue!Init
  <2> SUFFICES ASSUME Init PROVE Queue!Init
    OBVIOUS
  <2>1. Contents = <<>>
    <3>1. 0 \in Slots /\ Contents = Ring(keyboard_buffer, 0, 0)
      BY KeyboardAssumption DEF Init, Contents, Ring, Slots
    <3> QED BY <3>1, Empty
  <2> QED BY <2>1 DEF Init, Queue!Init
<1>2. IInv /\ ClaimsOne /\ [Next]_vars => [Queue!Next \/ lost']_(Queue!qvars)
  <2> SUFFICES ASSUME IInv, ClaimsOne, [Next]_vars, ~lost'
               PROVE  [Queue!Next]_(Queue!qvars)
    OBVIOUS
  <2>1. CASE UNCHANGED vars
    BY <2>1 DEF vars, cursors, reader, Queue!qvars, Contents
  <2>2. CASE keyboard_handler
    BY <2>2, HandlerPuts DEF got, Queue!qvars, Queue!Next, Queue!Put
  <2>3. CASE Reader
    BY <2>3, ReaderTakes DEF got, Queue!qvars, Queue!Next, Queue!Take, Queue!TakeNothing
  <2> QED BY <2>1, <2>2, <2>3 DEF Next
<1> QED BY <1>1, <1>2, Invariance, ClaimsOneHolds, PTL DEF Spec, QueueUntilOverrun
=============================================================================
