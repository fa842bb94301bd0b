------------------------------- MODULE Keyboard ------------------------------
(***************************************************************************)
(* The keyboard (hardware/keyboard/keyboard.c): the interrupt handler puts *)
(* scan codes into a ring, a task takes them out and makes events of them. *)
(* Both change the number of codes with a load and a store and no lock, on *)
(* the same processor or on two.                                           *)
(***************************************************************************)
EXTENDS Integers, Sequences, FiniteSets, SequencesExt

CONSTANTS KeyCodes,     \* the bytes the keyboard sends
          BufferSize,   \* HW_Keyboard_BufferSize
          MaxKeys       \* bound on the bytes sent

VARIABLES
  data,     \* the ring
  head, tail, size,
  kpc,      \* the handler: "none", "load", "store"
  kload,    \* the size it loaded
  rpc,      \* the task: "event", "key", "take", "load", "store"
  rload,    \* the size it loaded
  codes,    \* the bytes of the event it has taken
  keys,     \* the events it has returned
  sent,     \* ghost: every byte that was put
  late,     \* ghost: puts that were not counted, as a take wrote over the count
  torn      \* ghost: was a take not counted, or a byte that waited written over?

keyVars == <<data, head, tail, size, kpc, kload, rpc, rload, codes, keys, sent, late, torn>>

-----------------------------------------------------------------------------
(* What getEvent makes of a byte, and of one after 0xE0.  A code it does not *)
(* know after 0xE0 leaves what the event's block held.                      *)
Low7(x) == x % 128
Extended == [i \in {91, 92, 29, 56, 72, 80, 75, 77, 99} |->
  CASE i = 91 -> "SuperL" [] i = 92 -> "SuperR" [] i = 29 -> "CtrlR" [] i = 56 -> "AltR" [] i = 72 -> "Up"
    [] i = 80 -> "Down" [] i = 75 -> "Left" [] i = 77 -> "Right" [] i = 99 -> "Fn"]
Controls == [i \in {1, 29, 42, 54, 56, 58} \cup (59..68) \cup {87, 88} |->
  CASE i = 1 -> "Esc" [] i = 29 -> "CtrlL" [] i = 42 -> "ShiftL" [] i = 54 -> "ShiftR" [] i = 56 -> "AltL"
    [] i = 58 -> "CapsLock" [] i \in 59..68 -> <<"F", i - 58>> [] i \in {87, 88} -> <<"F", i - 76>>]
Event(bytes) ==
  LET x == Last(bytes)
      at(map, none) == IF Low7(x) \in DOMAIN map THEN map[Low7(x)] ELSE none
  IN  IF Len(bytes) = 2
        THEN [isKeyUp |-> x >= 128, isCtrlKey |-> TRUE, keyCode |-> at(Extended, "unset")]
        ELSE [isKeyUp |-> x >= 128, isCtrlKey |-> Low7(x) \in DOMAIN Controls,
              keyCode |-> at(Controls, <<"normal", Low7(x)>>)]

(* HW_Keyboard_init                                                         *)
KeyboardInit ==
  /\ data = [i \in 0..(BufferSize - 1) |-> 0] /\ head = 0 /\ tail = 0 /\ size = 0
  /\ kpc = "none" /\ kload = 0 /\ rpc = "event" /\ rload = 0
  /\ codes = <<>> /\ keys = <<>> /\ sent = <<>> /\ late = 0 /\ torn = FALSE

(* The bytes that went into the ring and were not taken                     *)
TakenBytes == FoldLeft(LAMBDA n, e : n + e, Len(codes), [i \in DOMAIN keys |-> keys[i].bytes])
Waiting == Len(sent) - TakenBytes

-----------------------------------------------------------------------------
(* HW_Keyboard_handler: the byte, then the size, in two accesses            *)
Wrapped(i) == IF i = BufferSize THEN 0 ELSE i
HandlerPuts(x) ==
  /\ kpc = "none" /\ Len(sent) < MaxKeys
  /\ data' = [data EXCEPT ![Wrapped(tail)] = x] /\ tail' = Wrapped(tail) + 1
  /\ kpc' = "load" /\ sent' = Append(sent, x)
  /\ torn' = (torn \/ Waiting >= BufferSize)
  /\ UNCHANGED <<head, size, kload, rpc, rload, codes, keys, late>>
HandlerLoads ==
  /\ kpc = "load" /\ kpc' = "store" /\ kload' = size
  /\ UNCHANGED <<data, head, tail, size, rpc, rload, codes, keys, sent, late, torn>>
HandlerStores ==
  /\ kpc = "store" /\ kpc' = "none" /\ size' = kload + 1
  /\ late' = IF rpc = "store" THEN late + 1 ELSE late
  /\ UNCHANGED <<data, head, tail, kload, rpc, rload, codes, keys, sent, torn>>

(* HW_Keyboard_getEvent returns at once if there is nothing, and asks again  *)
(* after the task gave the processor up.  _getKeyCode waits.                *)
GetEvent ==
  /\ rpc = "event" /\ size # 0 /\ rpc' = "key"
  /\ UNCHANGED <<data, head, tail, size, kpc, kload, rload, codes, keys, sent, late, torn>>
ArrivedNot == TRUE              \* a faulty variant: the second byte is not waited for
Arrived == size # 0
KeyWait ==
  /\ rpc = "key" /\ Arrived /\ rpc' = "take"
  /\ UNCHANGED <<data, head, tail, size, kpc, kload, rload, codes, keys, sent, late, torn>>
TakeKey ==
  /\ rpc = "take" /\ rpc' = "load"
  /\ codes' = Append(codes, data[head]) /\ head' = head + 1
  /\ UNCHANGED <<data, tail, size, kpc, kload, rload, keys, sent, late, torn>>
TakerLoads ==
  /\ rpc = "load" /\ rpc' = "store" /\ rload' = size
  /\ UNCHANGED <<data, head, tail, size, kpc, kload, codes, keys, sent, late, torn>>
(* The size is stored, and unless the byte is 0xE0 and the first the event   *)
(* is made.                                                                 *)
TakerStores ==
  /\ rpc = "store" /\ size' = rload - 1 /\ head' = Wrapped(head)
  /\ torn' = (torn \/ kpc = "store")
  /\ IF codes = <<224>>
       THEN rpc' = "key" /\ UNCHANGED <<codes, keys>>
       ELSE rpc' = "event" /\ codes' = <<>>
              /\ keys' = Append(keys, [event |-> Event(codes), bytes |-> Len(codes)])
  /\ UNCHANGED <<data, tail, kpc, kload, rload, sent, late>>

-----------------------------------------------------------------------------
(* The events in a sequence of bytes: each ends at a byte that is not a      *)
(* prefix, or that a prefix comes before.                                   *)
Meant(bytes) ==
  LET prefix == [i \in 0..Len(bytes) |-> i > 0 /\ bytes[i] = 224
                   /\ Cardinality({j \in 1..i : \A k \in j..i : bytes[k] = 224}) % 2 = 1]
      ends == SetToSortSeq({i \in DOMAIN bytes : ~prefix[i]}, <)
  IN  [e \in DOMAIN ends |->
         Event(IF prefix[ends[e] - 1] THEN <<224, bytes[ends[e]]>> ELSE <<bytes[ends[e]]>>)]

(* What the task returns is what was typed, in order, and the count is that *)
(* of the bytes in the ring less those a take wrote over, as long as no put *)
(* wrote over a take's count and the ring had room (keyboard.c:43-61).      *)
KeysRead ==
  ~torn =>
    /\ TakenBytes <= Len(sent)
    /\ [i \in DOMAIN keys |-> keys[i].event] = Meant(SubSeq(sent, 1, TakenBytes - Len(codes)))
    /\ codes = SubSeq(sent, TakenBytes - Len(codes) + 1, TakenBytes)
    /\ kpc = "none" /\ rpc \in {"event", "key", "take"} => size + late = Waiting
    /\ size >= 0 /\ late <= Waiting
==============================================================================
