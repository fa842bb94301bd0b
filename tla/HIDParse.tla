------------------------------ MODULE HIDParse -------------------------------
(***************************************************************************)
(* hardware/USB/HID/parse.c: from a report descriptor to the places of a   *)
(* mouse's or keyboard's fields, and from a report to their values.  A     *)
(* descriptor is a sequence of items [tag, data]; the data of a global     *)
(* item is a number n >= 0 in 0, 1, 2 or 4 bytes.  Usages are names: read  *)
(* as signed numbers, different ones stay different, and those the parser  *)
(* looks for are below 0x80.  The places are slots, as the items of a      *)
(* mouse and of a keyboard share memory (a union).                         *)
(***************************************************************************)
EXTENDS Integers, Sequences, FiniteSets, SequencesExt, Functions

CONSTANTS U8,          \* 256: what a byte holds
          OctetBits,    \* 8
          WindowBits   \* 32: a field is read from the word at its first byte

btnSlot == 0  xSlot == 1  ySlot == 2  wheelSlot == 3   \* of a keyboard: 0 its control keys, 1..6 keys
Slots == 0..7
NoItem == [off |-> 0, size |-> 0, rel |-> FALSE]

MainTags   == {"Input", "Output", "Coll", "EndColl", "Feature"}
GlobalTags == {"UsagePage", "LogicalMin", "LogicalMax", "ReportCnt", "ReportSize", "ReportId"}
LocalTags  == {"Usage", "UsageMin", "UsageMax"}
ButtonPage == 9     \* HID_UsagePage_Button
KeyboardPage == 7   \* HID_UsagePage_Keyboard

-----------------------------------------------------------------------------
(* HW_USB_HID_genParseHelper: a state d of the descriptor read so far       *)
(* (DataState) with the helper h that is built                              *)
Start ==
  [d |-> [cnt |-> 0, sz |-> 0, id |-> 0, page |-> 0, top |-> 0,
          usage |-> [l \in -1..7 |-> <<>>]],
   h |-> [type |-> "none", inSz |-> 0, outSz |-> 0, slot |-> [i \in Slots |-> NoItem]],
   ok |-> TRUE]

(* _countUsage                                                              *)
HasUsage(d, from, u) == \E l \in from..d.top : u \in Range(d.usage[l])

(* regDefaultModifier: the modifiers in the order they are registered       *)
Modifiers == <<"btn", "x", "y", "wheel", "keyboard">>
(* When a modifier applies to an input item; none applies to an output item *)
Applies(mod, d, flags) ==
  /\ ~flags.const
  /\ CASE mod = "btn"   -> HasUsage(d, 0, "Mouse") /\ d.page = ButtonPage
       [] mod = "x"     -> HasUsage(d, 0, "Mouse") /\ HasUsage(d, d.top, "X")
       [] mod = "y"     -> HasUsage(d, 0, "Mouse") /\ HasUsage(d, d.top, "Y")
       [] mod = "wheel" -> HasUsage(d, 0, "Mouse") /\ HasUsage(d, d.top, "Wheel")
       [] mod = "keyboard" -> d.page = KeyboardPage

(* _applyItem                                                               *)
Item(off, size, flags) == [off |-> off % U8, size |-> size % U8, rel |-> flags.rel]

(* What a modifier does with the helper, and how many of the fields it uses *)
Modify(mod, d, h, flags) ==
  CASE mod = "btn" -> [h EXCEPT !.slot[btnSlot] = Item(h.inSz, d.cnt * d.sz, flags)]
    [] mod = "x" -> [h EXCEPT !.slot[xSlot] = Item(h.inSz, d.sz, flags),
                              !.type = IF flags.rel THEN "mouse" ELSE "touchpad"]
    [] mod = "y" -> [h EXCEPT !.slot[ySlot] = Item(h.inSz, d.sz, flags)]
    [] mod = "wheel" -> [h EXCEPT !.slot[wheelSlot] = Item(h.inSz, d.sz, flags)]
    [] mod = "keyboard" ->
         [h EXCEPT !.type = "keyboard",
            !.slot = IF d.sz = 1 THEN [@ EXCEPT ![0] = Item(h.inSz, d.cnt * d.sz, flags)]
                     ELSE [i \in Slots |-> IF i \in 1..d.cnt
                             THEN Item(h.inSz + (i - 1) * d.sz, d.sz, flags) ELSE @[i]]]
Used(mod, d) == IF mod \in {"btn", "keyboard"} THEN d.cnt ELSE 1

InputUsage(d, h, flags) ==
  LET step(a, mod) ==
        IF a.done \/ ~Applies(mod, d, flags) THEN a
        ELSE [used |-> a.used + Used(mod, d), done |-> a.used + Used(mod, d) = d.cnt,
              h |-> [Modify(mod, d, a.h, flags) EXCEPT !.inSz = @ + Used(mod, d) * d.sz]]
      all == FoldLeft(step, [used |-> 0, done |-> FALSE, h |-> h], Modifiers)
  IN  IF d.cnt = 0 THEN all.h ELSE [all.h EXCEPT !.inSz = @ + d.sz * (d.cnt - all.used)]

(* _getItemData: the number is read as a signed one of its width.           *)
GetItemData(v) ==
  IF v.n >= (U8 ^ v.bytes) \div 2 /\ v.bytes > 0 THEN v.n - U8 ^ v.bytes ELSE v.n

(* _parseMain, _parseGlobal, _parseLocal; any other tag ends the descriptor. *)
(* The page is kept in a byte; UsageMin, UsageMax and the logical bounds are *)
(* kept but never used.                                                      *)
ParseItem(s, item) ==
  LET d == s.d  h == s.h  v == item.data
      cleared == [d EXCEPT !.usage[d.top] = <<>>]
  IN  IF ~s.ok THEN s ELSE
      CASE item.tag = "Input"  -> [s EXCEPT !.h = InputUsage(d, h, v), !.d = cleared]
        [] item.tag = "Output" -> [s EXCEPT !.h.outSz = @ + d.sz * d.cnt, !.d = cleared]
        [] item.tag = "Coll"    -> [s EXCEPT !.d.top = @ + 1]
        [] item.tag = "EndColl" -> [s EXCEPT !.d.top = @ - 1]
        [] item.tag = "UsagePage"  -> [s EXCEPT !.d.page = GetItemData(v) % U8]
        [] item.tag = "ReportCnt"  -> [s EXCEPT !.d.cnt = GetItemData(v)]
        [] item.tag = "ReportSize" -> [s EXCEPT !.d.sz = GetItemData(v)]
        [] item.tag = "ReportId"   -> [s EXCEPT !.d.id = GetItemData(v)]
        [] item.tag = "Usage"   -> [s EXCEPT !.d.usage[d.top] = Append(@, v)]
        [] item.tag \in {"Feature", "LogicalMin", "LogicalMax", "UsageMin", "UsageMax"} -> s
        [] item.tag \notin MainTags \cup GlobalTags \cup LocalTags ->
             [s EXCEPT !.ok = FALSE, !.h.type = "none"]

Helper(desc) == FoldLeft(ParseItem, Start, desc).h

-----------------------------------------------------------------------------
(* HW_USB_HID_parseReport: a report is a sequence of bits, lowest first.    *)
ValueOf(bits) == FoldLeft(LAMBDA n, b : 2 * n + b, 0, Reverse(bits))
(* _parseItem: the bits of the field that lie in the window, and the sign   *)
(* of a relative field                                                      *)
Field(raw, item) ==
  LET first == item.off - (item.off % OctetBits)
      last  == IF item.off + item.size < first + WindowBits
               THEN item.off + item.size ELSE first + WindowBits
      v == ValueOf(SubSeq(raw, item.off + 1, last))
  IN  IF item.size > 0 /\ item.rel /\ v >= 2^(item.size - 1) THEN v - 2^item.size ELSE v

ParseReport(raw, h) ==
  IF h.type \notin {"mouse", "keyboard"} THEN <<>>
  ELSE [i \in 1..(IF h.type = "mouse" THEN 4 ELSE 7) |-> Field(raw, h.slot[i - 1])]

-----------------------------------------------------------------------------
(* Reference: what the descriptor says, field by field.  A global item holds *)
(* until the next of its tag, usages hold for one main item.                *)
Inputs(desc, tag) == {i \in DOMAIN desc : desc[i].tag = tag}
Global(desc, i, tag) ==
  LET before == {j \in 1..(i - 1) : desc[j].tag = tag}
  IN  IF before = {} THEN 0 ELSE desc[CHOOSE j \in before : \A k \in before : k <= j].data.n
Cnt(desc, i)  == Global(desc, i, "ReportCnt")
Size(desc, i) == Global(desc, i, "ReportSize")
Total(desc, tag, n) ==
  FoldLeft(LAMBDA t, i : IF desc[i].tag = tag THEN t + Cnt(desc, i) * Size(desc, i) ELSE t,
           0, [i \in 1..n |-> i])
UsagesOf(desc, i) ==
  LET since == {j \in 1..(i - 1) : /\ desc[j].tag = "Usage"
                                   /\ \A k \in j..(i - 1) : desc[k].tag \notin MainTags}
  IN  [n \in 1..Cardinality(since) |->
         desc[CHOOSE j \in since : Cardinality({k \in since : k <= j}) = n].data]
Data(desc) == {i \in Inputs(desc, "Input") : ~desc[i].data.const}
(* where the fields with usage u start                                      *)
Declared(desc, u) ==
  {Total(desc, "Input", i - 1) + (k - 1) * Size(desc, i) : <<i, k>> \in
     {p \in Data(desc) \X (1..8) :
        p[2] <= Cnt(desc, p[1]) /\ p[2] <= Len(UsagesOf(desc, p[1]))
                                /\ UsagesOf(desc, p[1])[p[2]] = u}}
OnPage(desc, page) == {i \in Data(desc) : Global(desc, i, "UsagePage") = page}
Keys(desc) == {i \in OnPage(desc, KeyboardPage) : Size(desc, i) # 1}
Newest(S) == CHOOSE i \in S : \A j \in S : j <= i

(* No count or size is read as a negative number, which the parser does     *)
(* from 0x80 on when it has one byte, from 0x8000 on when it has two.       *)
CountsKept(desc) ==
  \A i \in Inputs(desc, "ReportCnt") \cup Inputs(desc, "ReportSize") : GetItemData(desc[i].data) >= 0
(* No usage is named for fields of which there are none: a modifier takes   *)
(* one all the same.                                                        *)
Filled(desc) == \A i \in Data(desc) : UsagesOf(desc, i) # <<>> => Cnt(desc, i) # 0

(* The devices the parser is made for: usages in the order in which the     *)
(* modifiers are registered, pages of one byte, no report number in front   *)
(* of the fields, not mouse and keyboard at once, a report no longer than a *)
(* byte counts.                                                             *)
Ordinary(desc) ==
  /\ CountsKept(desc) /\ Filled(desc)
  /\ \A i \in Inputs(desc, "UsagePage") : desc[i].data.n < U8
  /\ Inputs(desc, "ReportId") = {} /\ Total(desc, "Input", Len(desc)) < U8
  /\ OnPage(desc, KeyboardPage) # {} => \A i \in Inputs(desc, "Usage") : desc[i].data # "Mouse"
  /\ \A i \in Data(desc) : \E S \in SUBSET {"X", "Y", "Wheel"} :
       UsagesOf(desc, i) \in {SelectSeq(<<"X", "Y", "Wheel">>, LAMBDA u : u \in S) \o t :
                                t \in {<<>>, <<"other">>}}

(* The counted length of a report, which the drivers ask the device for, is the *)
(* length its fields have together, whatever modifiers match, when no count or  *)
(* size is read as a negative number.  When one is, as the 0x80 keys and more   *)
(* of a keyboard with a bit for each, the drivers ask for too little, never for *)
(* more than the device has.                                                    *)
LengthsExact(desc) ==
  LET h == Helper(desc)  in == Total(desc, "Input", Len(desc))  out == Total(desc, "Output", Len(desc)) IN
  Filled(desc) =>
    /\ CountsKept(desc) => h.inSz = in /\ h.outSz = out
    /\ h.inSz <= in /\ h.outSz <= out

(* For an ordinary device every slot is the place of the last field with its    *)
(* usage; buttons, control keys and keys are found by their page.               *)
FieldsFound(desc) ==
  LET h == Helper(desc)
      at(i, u) == IF Declared(desc, u) = {} THEN h.slot[i].size = 0
                  ELSE h.slot[i].off = Newest(Declared(desc, u))
      start(i) == Total(desc, "Input", i - 1)
  IN Ordinary(desc) =>
     /\ h.type \in {"mouse", "touchpad"} =>
          /\ at(xSlot, "X") /\ at(ySlot, "Y") /\ at(wheelSlot, "Wheel")
          /\ LET b == OnPage(desc, ButtonPage) IN
             b # {} => /\ h.slot[btnSlot].off = start(Newest(b))
                       /\ h.slot[btnSlot].size = Cnt(desc, Newest(b)) * Size(desc, Newest(b))
     /\ h.type = "keyboard" /\ Keys(desc) # {} =>
          LET k == Newest(Keys(desc)) IN
          \A n \in 1..Cnt(desc, k) : h.slot[n].off = start(k) + (n - 1) * Size(desc, k)

(* The value of a field is its bits', with a sign if it is relative, unless the *)
(* field does not fit in the word that is read.                                 *)
ValueFound(raw, item) ==
  (item.off % OctetBits) + item.size <= WindowBits /\ item.size > 0 =>
    LET v == Field(raw, item)
        bit(k) == raw[item.off + k]
        negative == item.rel /\ bit(item.size) = 1
    IN  /\ IF negative THEN v \in -(2^(item.size - 1))..-1 ELSE v \in 0..(2^item.size - 1)
        /\ \A k \in 1..item.size : (v \div 2^(k - 1)) % 2 = bit(k)
=============================================================================
