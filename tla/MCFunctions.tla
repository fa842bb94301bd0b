---------------------------- MODULE MCFunctions -----------------------------
(* Code that computes something from its input, once and undisturbed: each *)
(* state is an input, each property is about the inputs of one kind.  And   *)
(* the entries of one processor, the steps of Frames, and the keyboard's.   *)
EXTENDS BootMemory, HIDParse, DiskSetup, Screen, DriverStart, KernelLib, Frames, Keyboard

VARIABLES kind, arg

-----------------------------------------------------------------------------
(* Memory maps of up to four entries that start and end within pages, of    *)
(* RAM, reserved memory and the type that ends the list.                    *)
MCCuts == {5, 8, 72, 88, 100, 104, 110, 128, 162, 190}
MCTypes(n) == {t \in [1..n -> {1, 2, 5}] : \A i \in 1..(n - 1) : t[i] # 5}
MCMap(cuts, types) ==
  LET c == <<0>> \o SetToSortSeq(cuts, <)
  IN  [i \in 1..Cardinality(cuts) |-> [addr |-> c[i], size |-> c[i + 1] - c[i], type |-> types[i]]]
MCMaps == UNION {{MCMap(c, t) : t \in MCTypes(n)} :
                 <<n, c>> \in {<<Cardinality(c), c>> : c \in {d \in SUBSET MCCuts : Cardinality(d) \in 1..4}}}

(* Descriptors of a mouse, a keyboard or something else with three blocks:   *)
(* buttons, padding, axes in several orders, keys, lights, a report number.  *)
(* With U8 = 32 a count or size from 16 on is read as a negative number,     *)
(* unless it has a second byte, and a page of two bytes looks like Button.   *)
MCFlags(c, r) == [const |-> c, rel |-> r]
MCItem(t, v) == [tag |-> t, data |-> v]
MCNum(n, bytes) == [n |-> n, bytes |-> bytes]
MCGlobal(t, n) == MCItem(t, MCNum(n, 1))
MCFieldsOf(page, usages, sz, cnt, main, flags) ==
  <<MCItem("UsagePage", page)>> \o [i \in DOMAIN usages |-> MCItem("Usage", usages[i])]
  \o <<MCItem("ReportSize", sz), MCItem("ReportCnt", cnt), MCItem(main, flags)>>
MCBlock(page, usages, sz, cnt, main, flags) ==
  MCFieldsOf(MCNum(page, 1), usages, MCNum(sz, 1), MCNum(cnt, 1), main, flags)
MCDesktop == 1  MCLed == 8
MCBlocks ==
  {MCBlock(ButtonPage, <<>>, 1, 3, "Input", MCFlags(FALSE, FALSE)),
   MCBlock(ButtonPage, <<>>, 5, 1, "Input", MCFlags(TRUE, FALSE)),
   MCBlock(MCDesktop, <<"X", "Y">>, 3, 2, "Input", MCFlags(FALSE, TRUE)),
   MCBlock(MCDesktop, <<"X", "Y">>, 4, 2, "Input", MCFlags(FALSE, FALSE)),
   MCBlock(MCDesktop, <<"X", "Y", "Wheel", "other">>, 2, 4, "Input", MCFlags(FALSE, TRUE)),
   MCBlock(MCDesktop, <<"X", "Y", "Wheel">>, 2, 2, "Input", MCFlags(FALSE, TRUE)),
   MCBlock(MCDesktop, <<"Y", "X">>, 2, 2, "Input", MCFlags(FALSE, TRUE)),
   MCBlock(MCDesktop, <<"Wheel">>, 4, 1, "Input", MCFlags(FALSE, TRUE)),
   MCBlock(MCDesktop, <<"Wheel">>, 4, 0, "Input", MCFlags(FALSE, TRUE)),
   MCBlock(MCDesktop, <<"X">>, 17, 1, "Input", MCFlags(FALSE, TRUE)),
   MCBlock(KeyboardPage, <<>>, 1, 4, "Input", MCFlags(FALSE, FALSE)),
   MCBlock(KeyboardPage, <<>>, 4, 3, "Input", MCFlags(FALSE, FALSE)),
   MCBlock(KeyboardPage, <<"X">>, 4, 1, "Input", MCFlags(FALSE, FALSE)),
   MCBlock(KeyboardPage, <<>>, 1, 18, "Input", MCFlags(FALSE, FALSE)),
   MCFieldsOf(MCNum(KeyboardPage, 1), <<>>, MCNum(1, 1), MCNum(18, 2), "Input", MCFlags(FALSE, FALSE)),
   MCFieldsOf(MCNum(U8 + ButtonPage, 2), <<>>, MCNum(2, 1), MCNum(0, 0), "Input", MCFlags(FALSE, FALSE)),
   MCFieldsOf(MCNum(U8 + ButtonPage, 2), <<>>, MCNum(2, 4), MCNum(2, 1), "Input", MCFlags(FALSE, FALSE)),
   MCBlock(MCLed, <<>>, 1, 5, "Output", MCFlags(FALSE, FALSE)),
   MCBlock(MCLed, <<>>, 1, 30, "Output", MCFlags(FALSE, FALSE)),
   <<MCGlobal("ReportId", 1)>>, <<MCItem("Feature", 0)>>,
   <<MCItem("Usage", "Pointer"), MCItem("Coll", 0)>>, <<MCItem("EndColl", 0)>>}
MCDescs ==
  {<<MCGlobal("UsagePage", MCDesktop), MCItem("Usage", u), MCItem("Coll", 1)>>
     \o a \o b \o c \o <<MCItem("EndColl", 0)>> :
   u \in {"Mouse", "Keyboard"}, a \in MCBlocks, b \in MCBlocks, c \in MCBlocks}
MCBalanced(desc) ==
  \A i \in DOMAIN desc : Cardinality({j \in 1..i : desc[j].tag = "EndColl"})
                         <= Cardinality({j \in 1..i : desc[j].tag = "Coll"})
MCFields == [off : 0..4, size : 0..4, rel : BOOLEAN]

(* Disks of 70 or 90 sectors with up to four partitions, some too small, some *)
(* with the first usable sector, some beyond the disk's end.                  *)
MCExtents == {<<0, 0>>, <<8, 12>>, <<8, 41>>, <<9, 41>>, <<42, 60>>, <<44, 89>>, <<61, 89>>}
MCDisjoint(t) == \A i, j \in DOMAIN t : i # j => t[i][1] = 0 \/ t[i][2] < t[j][1] \/ t[j][2] < t[i][1]
MCDisks ==
  {[hdr |-> [signed |-> g, parNum |-> n, firLba |-> 8, lstLba |-> sectors - 3],
    entries |-> [i \in 1..4 |-> [st |-> t[i][1], ed |-> t[i][2]]],
    lba |-> [s \in 0..(sectors - 1) |-> "old"]] :
   g \in BOOLEAN, n \in {0, 2, 3, 4}, sectors \in {70, 90},
   t \in {u \in [1..4 -> MCExtents] : MCDisjoint(u)}}

(* Texts with what moves the cursor, and calls to clear the screen.          *)
MCTexts == UNION {[1..n -> {"a", "newline", "return", "back", "tab", "clear"}] : n \in 1..6}

(* Firmware's lists of up to four processors, of both types and in any order. *)
MCEntries == {[type |-> t, id |-> n, apic |-> n, on |-> o] : t \in {0, 9}, n \in 1..4, o \in BOOLEAN}
MCMadts == {l \in UNION {[1..n -> MCEntries] : n \in 1..4} :
              \A i, j \in DOMAIN l : i # j /\ l[i].id = l[j].id => l[i].type # l[j].type /\ l[i].on = l[j].on}

(* One to three processors, and two slots of two functions each.             *)
MCFn(class, msix, msi, fit, intrs, nsp, fails) ==
  [class |-> class, msix |-> msix, msi |-> msi, fit |-> fit, intrs |-> intrs, nsp |-> nsp, fails |-> fails]
MCFns == {MCFn("absent", 0, 0, FALSE, 0, 0, 0), MCFn("bridge", 0, 0, FALSE, 0, 0, 0),
          MCFn("xhci", 1, 2, TRUE, 2, 0, 0), MCFn("xhci", 4, 0, TRUE, 2, 0, 0),
          MCFn("xhci", 0, 2, TRUE, 2, 0, 0), MCFn("xhci", 0, 1, TRUE, 2, 0, 0),
          MCFn("xhci", 2, 0, FALSE, 2, 0, 0),
          MCFn("nvme", 3, 0, TRUE, 0, 2, 0), MCFn("nvme", 2, 0, TRUE, 0, 2, 7),
          MCFn("nvme", 0, 4, TRUE, 0, 1, 0), MCFn("nvme", 0, 0, TRUE, 0, 1, 0)}
MCSlots == [multi : BOOLEAN, func : [1..2 -> MCFns]]
MCBuses == {[n |-> n, slots |-> s] : n \in 1..2, s \in [1..2 -> MCSlots]}

(* Directives of sprintf; areas, strings, numbers and lists.                 *)
MCDirectives ==
  [flags : SUBSET {"zero", "left", "space", "sign", "special"}, star : BOOLEAN, width : {0, 1, 4, 7},
   prec : {-1, 0, 3}, long : BOOLEAN, conv : {"d", "u", "x", "o", "p"}, arg : {0, 5, 8, 15, 16, 130, 255}]
  \cup [flags : SUBSET {"zero", "left"}, star : {TRUE}, width : {-5, 0, 3}, prec : {-1, 2}, long : {FALSE},
        conv : {"d", "p", "c", "s"}, arg : {0, 2, 5, 9}]
MCAreas == [src : 0..9, dst : 0..9, n : 0..17]
MCStrings == [1..3 -> {-1, 0, 1}]
MCLists == {s \in UNION {[1..n -> 1..4] : n \in 0..3} : IsInjective(s)}

-----------------------------------------------------------------------------
InputInit ==
  \/ kind = "map" /\ arg \in MCMaps
  \/ kind = "descriptor" /\ arg \in {d \in MCDescs : MCBalanced(d)}
  \/ kind = "disk" /\ arg \in MCDisks
  \/ kind = "report" /\ arg \in [1..8 -> {0, 1}]
  \/ kind = "cpus" /\ arg \in [bsp : 1..4, madt : MCMadts]
  \/ kind = "devices" /\ arg \in MCBuses
  \/ kind = "text" /\ arg \in MCTexts
  \/ kind = "directive" /\ arg \in MCDirectives
  \/ kind = "areas" /\ arg \in MCAreas
  \/ kind = "strings" /\ arg \in [a : MCStrings, b : MCStrings, n : 0..3]
  \/ kind = "number" /\ arg \in 0..(2^LongBits - 1)
  \/ kind = "list" /\ arg \in MCLists
Init ==
  /\ FramesInit /\ KeyboardInit
  /\ \/ InputInit /\ user = {}
     \/ kind = "keys" /\ arg = 0 /\ user = {}
     \/ kind = "entries" /\ arg = 0
Entry == kind = "entries"
Same == UNCHANGED <<kind, arg, keyVars>>
Key == kind = "keys"
Others == UNCHANGED <<kind, arg, vars>>
Next ==
  \/ Entry /\ Call /\ Same
  \/ Entry /\ Irq /\ Same
  \/ Entry /\ Syscall /\ Same
  \/ Entry /\ ToUser /\ Same
  \/ Entry /\ Return /\ Same
  \/ Entry /\ SyscallReturns /\ Same
  \/ \E v \in Faults : Entry /\ Fault(v) /\ Same
  \/ \E t \in Tasks : Entry /\ HandlerReturns(t) /\ Same
  \/ \E x \in KeyCodes : Key /\ HandlerPuts(x) /\ Others
  \/ Key /\ HandlerLoads /\ Others
  \/ Key /\ HandlerStores /\ Others
  \/ Key /\ GetEvent /\ Others
  \/ Key /\ KeyWait /\ Others
  \/ Key /\ TakeKey /\ Others
  \/ Key /\ TakerLoads /\ Others
  \/ Key /\ TakerStores /\ Others
Spec == Init /\ [][Next]_<<kind, arg, vars, keyVars>>

-----------------------------------------------------------------------------
(* What boot leaves for the page allocator (SoundZones, initmm.c).          *)
BootLeavesSoundZones == kind = "map" => SoundZones(arg)


(* What boot does with a disk (FormattedAndElseIntact, gpt/api.c, jrfs/api.c). *)
DisksFormatted == kind = "disk" => FormattedAndElseIntact(arg)

(* The table of processors (TableSound, smp.c).                             *)
ProcessorsKnown == kind = "cpus" => TableSound(arg.bsp, arg.madt)

(* The start of the drivers (DevicesReach, PCIe.c, XHCI and NVMe process.c). *)
InterruptsReachDrivers ==
  kind = "devices" =>
    DevicesReach(Cpus(1, [i \in 1..arg.n |-> [type |-> 0, id |-> i, apic |-> i, on |-> TRUE]]), arg.slots)

(* What the screen shows of a text (ShownWhole, printk.c).                  *)
ScreenShowsText == kind = "text" => ShownWhole(arg)

(* What the library computes (NumbersRead of sprintf, printk.c; MemoryMoved *)
(* and StringsOrdered, memop.c; LogsBound, algorithm.c; ListsLinked, ds.h). *)
LibraryExact ==
  /\ kind = "directive" => NumbersRead(arg)
  /\ kind = "areas" => MemoryMoved(arg.src, arg.dst, arg.n)
  /\ kind = "strings" => StringsOrdered(Append(arg.a, 0), Append(arg.b, 0), arg.n)
  /\ kind = "number" => LogsBound(arg)
  /\ kind = "list" => ListsLinked(arg, 4)
=============================================================================
