------------------------------ MODULE KernelLib ------------------------------
(***************************************************************************)
(* The kernel's library: memory and strings (lib/memop.c), logarithms      *)
(* (lib/algorithm.c), lists (lib/ds.h) and the conversions of sprintf      *)
(* (log/printk.c).  Each is a function; what it is to do is defined beside *)
(* it by other means.  Characters are numbers, digits by their value.      *)
(***************************************************************************)
EXTENDS Integers, Sequences, FiniteSets, SequencesExt

CONSTANTS IntBits,   \* 32
          LongBits,  \* 64, a power of two
          PtrDigits  \* 2 * sizeof(void *)

LBit(n, i) == (n \div 2^i) % 2
Most(a, b) == IF a > b THEN a ELSE b
Least(a, b) == IF a < b THEN a ELSE b
-----------------------------------------------------------------------------
(* memset and memcpy: string instructions of 8 bytes, then of 4, 2 and 1 by *)
(* the bits of the length                                                   *)
Units(n) ==
  [i \in 1..(n \div 8) |-> 8] \o (IF LBit(n, 2) = 1 THEN <<4>> ELSE <<>>)
    \o (IF LBit(n, 1) = 1 THEN <<2>> ELSE <<>>) \o (IF LBit(n, 0) = 1 THEN <<1>> ELSE <<>>)
Area(a, n) == a..(a + n - 1)
(* a unit is read, then written, and the pointers move on                   *)
Memcpy(mem, src, dst, n) ==
  LET unit(s, u) ==
        [mem |-> [a \in DOMAIN mem |-> s.mem[IF a \in Area(dst + s.at, u) THEN a - dst + src ELSE a]],
         at |-> s.at + u]
  IN  FoldLeft(unit, [mem |-> mem, at |-> 0], Units(n)).mem
Memset(mem, addr, v, n) ==
  LET unit(s, u) ==
        [mem |-> [a \in DOMAIN mem |-> IF a \in Area(addr + s.at, u) THEN v ELSE s.mem[a]],
         at |-> s.at + u]
  IN  FoldLeft(unit, [mem |-> mem, at |-> 0], Units(n)).mem

(* Exactly n bytes are set or copied; areas may overlap if the bytes move   *)
(* to lower addresses.                                                      *)
MemoryMoved(src, dst, n) ==
  LET mem == [a \in 0..(src + dst + 2 * n) |-> a]
  IN  /\ Memset(mem, dst, -1, n) = [a \in DOMAIN mem |-> IF a \in Area(dst, n) THEN -1 ELSE a]
      /\ dst <= src \/ src + n <= dst =>
           Memcpy(mem, src, dst, n) = [a \in DOMAIN mem |-> IF a \in Area(dst, n) THEN a - dst + src ELSE a]

(* strlen, and strcmp, strncmp and memcmp (of at least one byte): the first *)
(* pair that differs decides, as signed bytes; strings end with 0.          *)
Strlen(s) == (CHOOSE i \in DOMAIN s : s[i] = 0 /\ \A j \in 1..(i - 1) : s[j] # 0) - 1
Cmp(a, b, n, ends) ==
  LET byte(r, i) == IF r.over THEN r
                    ELSE IF a[i] # b[i] THEN [over |-> TRUE, res |-> IF b[i] < a[i] THEN 1 ELSE -1]
                    ELSE [over |-> ends /\ a[i] = 0, res |-> 0]
  IN  FoldLeft(byte, [over |-> FALSE, res |-> 0], [i \in 1..n |-> i]).res
Strcmp(a, b) == Cmp(a, b, Least(Len(a), Len(b)), TRUE)
Strncmp(a, b, n) == Cmp(a, b, Least(n, Least(Len(a), Len(b))), TRUE)
Memcmp(a, b, n) == Cmp(a, b, n, FALSE)

(* They order strings: equal only if equal, and each against the other.     *)
Text(s) == SubSeq(s, 1, Strlen(s))
Cut(s, n) == SubSeq(Text(s), 1, Least(n, Strlen(s)))
StringsOrdered(a, b, n) ==
  /\ (Strcmp(a, b) = 0) <=> (Text(a) = Text(b))
  /\ (Strncmp(a, b, n) = 0) <=> (Cut(a, n) = Cut(b, n))
  /\ (Memcmp(a, b, 2) = 0) <=> (SubSeq(a, 1, 2) = SubSeq(b, 1, 2))
  /\ Strcmp(a, b) = -Strcmp(b, a) /\ Memcmp(a, b, 2) = -Memcmp(b, a, 2)
  /\ Strncmp(a, b, n) \in {0, Strcmp(a, b)}

-----------------------------------------------------------------------------
(* log2 halves the width that is left, log2Ceil tests for a power of two,   *)
(* and Bit_ffs numbers from 1, with 0 for none.                             *)
Halves(w) == SetToSortSeq({h \in 1..(w \div 2) : \E k \in 0..7 : h = 2^k}, LAMBDA a, b : a > b)
Log2(n) ==
  LET half(s, h) == IF s.n \div 2^h = 0 THEN s ELSE [n |-> s.n \div 2^h, res |-> s.res + h]
  IN  FoldLeft(half, [n |-> n, res |-> 0], Halves(LongBits)).res
LowestBit(n) == CHOOSE i \in 0..(LongBits - 1) : LBit(n, i) = 1 /\ \A j \in 0..(i - 1) : LBit(n, j) = 0
Log2Ceil(n) == Log2(n) + (IF n # 2^LowestBit(n) THEN 1 ELSE 0)
BitFfs(n) == IF n = 0 THEN 0 ELSE LowestBit(n) + 1
LogsBound(n) ==
  /\ n > 0 => 2^Log2(n) <= n /\ n < 2^(Log2(n) + 1)
  /\ n > 0 => n <= 2^Log2Ceil(n) /\ n > 2^Log2Ceil(n) \div 2
  /\ n > 0 => n % 2^(BitFfs(n) - 1) = 0 /\ n % 2^BitFfs(n) # 0

-----------------------------------------------------------------------------
(* Lists: next and prev of every element; an element alone is a list.       *)
ListInit(n) == [next |-> [e \in 0..n |-> e], prev |-> [e \in 0..n |-> e]]
InsBehind(l, e, pos) ==
  [next |-> [l.next EXCEPT ![e] = l.next[pos], ![pos] = e],
   prev |-> [l.prev EXCEPT ![e] = pos, ![l.next[pos]] = e]]
InsBefore(l, e, pos) ==
  [prev |-> [l.prev EXCEPT ![e] = l.prev[pos], ![pos] = e],
   next |-> [l.next EXCEPT ![e] = pos, ![l.prev[pos]] = e]]
ListDel(l, e) ==
  [next |-> [l.next EXCEPT ![l.prev[e]] = l.next[e], ![e] = e],
   prev |-> [l.prev EXCEPT ![l.next[e]] = l.prev[e], ![e] = e]]
ListOf(s, n) == FoldLeft(LAMBDA l, e : InsBefore(l, e, 0), ListInit(n), s)
(* the list of a sequence, with element 0 for its head, by position         *)
Ring0(s, n) ==
  LET c == <<0>> \o s
      at(e) == CHOOSE i \in DOMAIN c : c[i] = e
      step(e, d) == IF e \in ToSet(c) THEN c[((at(e) - 1 + d) % Len(c)) + 1] ELSE e
  IN  [next |-> [e \in 0..n |-> step(e, 1)], prev |-> [e \in 0..n |-> step(e, Len(c) - 1)]]
(* Operations on lists are those on sequences.                              *)
ListsLinked(s, n) ==
  /\ ListOf(s, n) = Ring0(s, n)
  /\ \A e \in (1..n) \ ToSet(s), i \in DOMAIN s :
       /\ InsBehind(Ring0(s, n), e, s[i]) = Ring0(InsertAt(s, i + 1, e), n)
       /\ InsBefore(Ring0(s, n), e, s[i]) = Ring0(InsertAt(s, i, e), n)
  /\ \A i \in DOMAIN s : ListDel(Ring0(s, n), s[i]) = Ring0(RemoveAt(s, i), n)

-----------------------------------------------------------------------------
(* A directive of sprintf: flags, width (0 for none), precision (-1 for     *)
(* none), whether width and precision come from the arguments, where they   *)
(* may be negative, long or not, conversion and argument.                   *)
BlankCh == -1
MinusCh == -2
XCh == -3
Times(ch, n) == [i \in 1..Most(n, 0) |-> ch]

(* the argument, taken as wide as the conversion says                       *)
Bits(d) == IF d.conv = "p" \/ d.long THEN LongBits ELSE IntBits
Unsigned(d) == d.arg % 2^Bits(d)
SignedAt(n, bits) == IF n >= 2^(bits - 1) THEN n - 2^bits ELSE n
Value(d) == IF d.conv = "d" THEN SignedAt(Unsigned(d), Bits(d)) ELSE Unsigned(d)
Radix(conv) == CASE conv = "o" -> 8 [] conv \in {"x", "p"} -> 16 [] OTHER -> 10
Digits(n, base) ==
  LET k == CHOOSE i \in 1..LongBits : n < base^i /\ \A j \in 1..(i - 1) : n >= base^j
  IN  [i \in 1..k |-> (n \div base^(k - i)) % base]

(* _number, which takes its argument as an i64: with the flag of the sign, + *)
(* or that of %d, a long whose top bit is set is negative.                  *)
PaddingPlain(size, taken, shown) == size - shown   \* a faulty variant: signs and marks not counted
Padding(size, taken, shown) == size - taken - shown
Number(value, base, size, precision, type) ==
  LET num == IF "sign" \in type THEN SignedAt(value % 2^LongBits, LongBits) ELSE value
      zero == "zero" \in type /\ "left" \notin type
      sign == IF "sign" \notin type THEN <<>> ELSE IF num < 0 THEN <<MinusCh>>
              ELSE IF "space" \in type THEN <<BlankCh>> ELSE <<>>
      mark == IF "special" \notin type THEN <<>>
              ELSE CASE base = 16 -> <<0, XCh>> [] base = 8 -> <<0>> [] OTHER -> <<>>
      digits == Digits(IF num < 0 THEN -num ELSE num, base)
      shown == Most(Len(digits), precision)
      pad == Padding(size, Len(sign) + Len(mark), shown)
  IN  mark \o Times(BlankCh, IF zero \/ "left" \in type THEN 0 ELSE pad) \o sign
        \o Times(0, IF zero THEN pad ELSE 0) \o Times(0, shown - Len(digits)) \o digits
        \o Times(BlankCh, IF "left" \in type THEN pad ELSE 0)

Unsized(d) == d.width = 0 /\ ~d.star
Type(d) == d.flags \cup (IF d.star /\ d.width < 0 THEN {"left"} ELSE {})
             \cup (IF d.conv = "d" THEN {"sign"} ELSE {}) \cup (IF d.conv = "p" /\ Unsized(d) THEN {"zero"} ELSE {})
Width(d) == IF d.width < 0 THEN -d.width ELSE IF d.conv = "p" /\ Unsized(d) THEN PtrDigits ELSE d.width
Precision(d) == IF d.star /\ d.prec < 0 THEN 0 ELSE d.prec
Converted(d) ==
  LET pad(n) == Times(BlankCh, Width(d) - n)
      text(s) == IF "left" \in Type(d) THEN s \o pad(Len(s)) ELSE pad(Len(s)) \o s
  IN  CASE d.conv = "c" -> text(<<d.arg>>)
        [] d.conv = "s" -> text(Times(7, IF Precision(d) >= 0 THEN Least(d.arg, Precision(d)) ELSE d.arg))
        [] OTHER -> Number(Value(d), Radix(d.conv), Width(d), Precision(d), Type(d))

(* What is printed of a number reads as that number (as the same bits, when  *)
(* + is used with an unsigned conversion), fills the width and no more than *)
(* it must, and stands at the side it should.                               *)
ReadBack(s, base) ==
  LET n == FoldLeft(LAMBDA r, ch : IF ch >= 0 THEN r * base + ch ELSE r, 0, s)
  IN  IF MinusCh \in ToSet(s) THEN -n ELSE n
Visible(s) == SelectSeq(s, LAMBDA ch : ch # BlankCh)
NumbersRead(d) ==
  LET s == Converted(d)
      least == Converted([d EXCEPT !.width = 0, !.conv = IF @ = "p" THEN "x" ELSE @, !.long = Bits(d) = LongBits])
  IN  IF d.conv = "c" THEN Visible(s) = <<d.arg>> /\ Len(s) = Most(1, Width(d))
      ELSE IF d.conv = "s"
        THEN Len(Visible(s)) = Len(least) /\ Len(s) = Most(Len(least), Width(d))
      ELSE /\ ReadBack(s, Radix(d.conv)) % 2^Bits(d) = Unsigned(d)
           /\ d.conv = "d" \/ "sign" \notin d.flags => ReadBack(s, Radix(d.conv)) = Value(d)
           /\ Len(s) = Most(Len(least), Width(d))
           /\ Precision(d) >= 0 => Len(SelectSeq(s, LAMBDA ch : ch >= 0)) >= Precision(d)
           /\ "left" \in Type(d) \/ Last(s) >= 0
==============================================================================
