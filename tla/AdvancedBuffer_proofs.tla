----------------------- MODULE AdvancedBuffer_proofs -----------------------
(***************************************************************************)
(* Proofs about AdvancedBuffer, for any number of downstreams, any size of *)
(* the buffer, any alignment and any stream; and, below, that it           *)
(* implements StreamTap.                                                   *)
(***************************************************************************)
EXTENDS BufferTap, FiniteSetTheorems, TLAPS

(***************************************************************************)
(* The inductive invariant.  TypeOK and the safety invariants say nothing  *)
(* of how far a partial write may have got, so none is inductive by        *)
(* itself: the next write of a downstream stays inside the buffer because  *)
(* the packet it has begun does (Inside), which survives a skip because    *)
(* less than a packet is left of it (Settings), and survives the disconnect*)
(* because the close point is a packet boundary too (Closing).             *)
(***************************************************************************)
Settings(s) ==
  /\ opt[s].aligned => opt[s] \in Options
  /\ remain_unaligned[s] < AlignOf(s)
  /\ ~(opt[s].aligned /\ opt[s].use_retval) => remain_unaligned[s] = 0

Inside(s) ==
  Live(s) =>
    /\ pos[s] + remain_unaligned[s] <= buf_used
    /\ (Base + pos[s] + remain_unaligned[s] - start[s]) % AlignOf(s) = 0

Closing(s) ==
  s \in close_flg /\ remain_to_close[s] > 0 =>
    /\ Base + pos[s] + remain_to_close[s] = stop[s]
    /\ stop[s] <= input_total
    /\ (stop[s] - start[s]) % AlignOf(s) = 0

Books(s) ==
  /\ s \notin close_flg => Base + pos[s] = start[s] + delivered[s] + dropped[s]
  /\ s \in close_flg => stop[s] - remain_to_close[s] = start[s] + delivered[s] + dropped[s]
  /\ dropped[s] >= 0
  /\ s \in close_flg /\ remain_to_close[s] < 0 => dropped[s] + remain_to_close[s] > 0

Reader(s) == Settings(s) /\ Inside(s) /\ Closing(s) /\ Books(s)

Ring ==
  /\ buf_used <= input_total
  /\ input_total % Align = 0
  /\ RingAddress

NoRetval == \A o \in Options : o.aligned => ~o.use_retval

IInv ==
  /\ TypeOK
  /\ Ring
  /\ CountedInUse
  /\ NoRetval => carry = 0
  /\ \A s \in in_use : Reader(s)

-----------------------------------------------------------------------------
(* Division: the multiples of a around x.                                  *)
LEMMA DivBounds ==
  ASSUME NEW x \in Int, NEW a \in Nat \ {0}
  PROVE  /\ x \div a \in Int
         /\ (x \div a) * a \in Int
         /\ (x \div a) * a <= x
         /\ x < (x \div a) * a + a
         /\ x % a \in 0 .. a - 1
         /\ x % a = x - (x \div a) * a
BY SMT

LEMMA ModOfMultiple ==
  ASSUME NEW k \in Int, NEW a \in Nat \ {0}
  PROVE  k * a \in Int /\ (k * a) % a = 0
BY SMT

LEMMA MultipleExists ==
  ASSUME NEW x \in Int, NEW a \in Nat \ {0}, x % a = 0
  PROVE  \E k \in Int : x = k * a
<1>1. x \div a \in Int /\ x = (x \div a) * a
  BY DivBounds, SMT
<1>2. QED  BY <1>1

(* Multiples of a are closed under addition and subtraction.               *)
LEMMA ModAdd ==
  ASSUME NEW x \in Int, NEW y \in Int, NEW a \in Nat \ {0}, x % a = 0, y % a = 0
  PROVE  (x + y) % a = 0 /\ (x - y) % a = 0
<1>1. PICK k \in Int : x = k * a  BY MultipleExists
<1>2. PICK l \in Int : y = l * a  BY MultipleExists
<1>3. x + y = (k + l) * a /\ x - y = (k - l) * a
  BY <1>1, <1>2, SMT
<1>4. ((k + l) * a) % a = 0 /\ ((k - l) * a) % a = 0
  BY ModOfMultiple, SMT
<1>5. QED  BY <1>3, <1>4

(* Between 0 and a there is no multiple of a.                              *)
LEMMA ModGap ==
  ASSUME NEW x \in Int, NEW a \in Nat \ {0}, x % a = 0, - a < x
  PROVE  x >= 0
<1>1. PICK k \in Int : x = k * a  BY MultipleExists
<1>2. k > - 1
  <2>1. SUFFICES ASSUME k <= - 1 PROVE FALSE  BY SMT
  <2>2. k * a <= (- 1) * a  BY <2>1, SMT
  <2>3. QED  BY <1>1, <2>2, SMT
<1>3. k * a >= 0  BY <1>2, SMT
<1>4. QED  BY <1>1, <1>3

LEMMA FloorFacts ==
  ASSUME NEW x \in Int, NEW a \in Nat \ {0}
  PROVE  /\ AlignFloor(x, a) \in Int
         /\ AlignFloor(x, a) % a = 0
         /\ x >= 0 => 0 <= AlignFloor(x, a) /\ AlignFloor(x, a) <= x
         /\ x <= 0 => AlignFloor(x, a) <= 0
         /\ a = 1 => AlignFloor(x, a) = x
<1>1. CASE x >= 0
  <2>1. AlignFloor(x, a) = (x \div a) * a  BY <1>1 DEF AlignFloor
  <2>2. ((x \div a) * a) % a = 0  BY DivBounds, ModOfMultiple
  <2>3. (x \div a) * a >= 0
    <3>1. - a < (x \div a) * a  BY <1>1, DivBounds, SMT
    <3>2. QED  BY <2>2, <3>1, DivBounds, ModGap
  <2>4. a = 1 => (x \div a) * a = x  BY DivBounds, SMT
  <2>5. QED  BY <1>1, <2>1, <2>2, <2>3, <2>4, DivBounds, SMT
<1>2. CASE x < 0
  <2>1. AlignFloor(x, a) = - (((- x) \div a) * a)  BY <1>2, SMT DEF AlignFloor
  <2>2. - x \in Int  BY SMT
  <2>3. ((- x) \div a) * a \in Int /\ (((- x) \div a) * a) % a = 0
    BY <2>2, DivBounds, ModOfMultiple
  <2>4. ((- x) \div a) * a >= 0
    <3>1. - a < ((- x) \div a) * a  BY <1>2, <2>2, DivBounds, SMT
    <3>2. QED  BY <2>3, <3>1, ModGap
  <2>5. (- (((- x) \div a) * a)) % a = 0
    <3>1. ASSUME NEW z \in Int, z % a = 0  PROVE (- z) % a = 0
      <4>1. PICK k \in Int : z = k * a  BY <3>1, MultipleExists
      <4>2. - z = (- k) * a  BY <4>1, SMT
      <4>3. ((- k) * a) % a = 0  BY ModOfMultiple, SMT
      <4>4. QED  BY <4>2, <4>3
    <3>2. QED  BY <2>3, <3>1
  <2>6. a = 1 => ((- x) \div a) * a = - x  BY <2>2, DivBounds, SMT
  <2>7. QED  BY <1>2, <2>1, <2>3, <2>4, <2>5, <2>6, SMT
<1>3. QED  BY <1>1, <1>2, SMT

LEMMA CeilFacts ==
  ASSUME NEW x \in Int, NEW a \in Nat \ {0}
  PROVE  /\ AlignCeil(x, a) \in Int
         /\ AlignCeil(x, a) % a = 0
         /\ x <= AlignCeil(x, a) /\ AlignCeil(x, a) < x + a
         /\ \A y \in Int : x <= y /\ y % a = 0 => AlignCeil(x, a) <= y
<1>1. PICK u \in Int : u = x + a - 1  BY SMT
<1>2. AlignCeil(x, a) = (u \div a) * a  BY <1>1 DEF AlignCeil
<1>3. /\ AlignCeil(x, a) \in Int
      /\ AlignCeil(x, a) % a = 0
      /\ AlignCeil(x, a) <= x + a - 1
      /\ x + a - 1 < AlignCeil(x, a) + a
  <2>1. /\ u \div a \in Int
        /\ (u \div a) * a \in Int
        /\ (u \div a) * a <= u
        /\ u < (u \div a) * a + a
    BY DivBounds
  <2>2. ((u \div a) * a) % a = 0  BY <2>1, ModOfMultiple
  <2>3. QED  BY <1>1, <1>2, <2>1, <2>2
<1>4. ASSUME NEW y \in Int, x <= y, y % a = 0
      PROVE  AlignCeil(x, a) <= y
  <2>1. (y - AlignCeil(x, a)) % a = 0  BY <1>3, <1>4, ModAdd
  <2>2. - a < y - AlignCeil(x, a)  BY <1>3, <1>4, SMT
  <2>3. y - AlignCeil(x, a) >= 0  BY <1>3, <2>1, <2>2, ModGap, SMT
  <2>4. QED  BY <1>3, <2>3, SMT
<1>5. QED  BY <1>3, <1>4, SMT

-----------------------------------------------------------------------------
LEMMA AlignOfType ==
  ASSUME TypeOK, NEW s \in Slots
  PROVE  /\ AlignOf(s) \in Nat \ {0}
         /\ AlignOf(s) <= Align
         /\ opt[s].aligned => AlignOf(s) = Align
         /\ ~opt[s].aligned => AlignOf(s) = 1
BY SizeAssumption, SMT DEF AlignOf, TypeOK, Option

(* What is left of a packet is told from the downstream itself, never from *)
(* the one visited before: the variable carry is used only where it is 0   *)
(* or where nothing depends on it.                                         *)
LEMMA UnalignedIsOwn ==
  ASSUME IInv, NEW s \in in_use
  PROVE  /\ Unaligned(s) \in Nat
         /\ opt[s].aligned => Unaligned(s) = remain_unaligned[s]
<1>1. s \in Slots /\ Settings(s) /\ opt[s] \in Option
  BY DEF IInv, TypeOK, Reader
<1>2. Unaligned(s) \in Nat
  BY <1>1 DEF IInv, TypeOK, Unaligned
<1>3. ASSUME opt[s].aligned, ~opt[s].use_retval
      PROVE  carry = 0 /\ remain_unaligned[s] = 0
  <2>1. NoRetval
    BY <1>1, <1>3, RetvalAssumption DEF NoRetval, Settings
  <2>2. QED  BY <1>1, <1>3, <2>1 DEF IInv, Settings
<1>4. QED  BY <1>2, <1>3 DEF Unaligned

(* A downstream a step leaves alone.                                       *)
LEMMA ReaderFrame ==
  ASSUME NEW t \in Slots, Reader(t),
         t \in in_use <=> t \in in_use',
         t \in close_flg <=> t \in close_flg',
         opt'[t] = opt[t], pos'[t] = pos[t],
         remain_to_close'[t] = remain_to_close[t],
         remain_unaligned'[t] = remain_unaligned[t],
         start'[t] = start[t], stop'[t] = stop[t],
         delivered'[t] = delivered[t], dropped'[t] = dropped[t],
         input_total' = input_total, buf_used' = buf_used
  PROVE  Reader(t)'
BY DEF Reader, Settings, Inside, Closing, Books, Live, Drained, Base, AlignOf

LEMMA InitIInv == Init => IInv
<1> SUFFICES ASSUME Init PROVE IInv  OBVIOUS
<1>1. TypeOK
  BY SizeAssumption DEF Init, TypeOK, NoOption, Option, Idle, CheckClose, Deleted
<1>2. Ring
  <2>1. 0 % BufSize = 0 /\ 0 % Align = 0  BY SizeAssumption, SMT
  <2>2. QED  BY <2>1, SizeAssumption, SMT DEF Init, Ring, RingAddress, Base
<1>3. CountedInUse
  BY FS_EmptySet DEF Init, CountedInUse
<1>4. QED  BY <1>1, <1>2, <1>3 DEF Init, IInv

LEMMA ConnectAt ==
  ASSUME IInv, NEW o \in Option, NEW backward \in Nat, backward <= input_total
  PROVE  Raised(buf_used + ConnectDiff(o, backward)) \in 0 .. buf_used
<1>1. /\ input_total \in Nat /\ buf_used \in Nat
      /\ input_total % Align = 0
      /\ Align \in Nat \ {0}
  BY SizeAssumption DEF IInv, TypeOK, Ring
<1>2. ConnectDiff(o, backward) \in Int /\ ConnectDiff(o, backward) <= 0
  <2> DEFINE remain == (input_total - backward) % Align
  <2>1. PICK x \in Int : x = input_total - backward  BY <1>1, SMT
  <2>2. PICK q \in Int : remain = x - q * Align /\ q * Align \in Int /\ remain \in 0 .. Align - 1
    BY <1>1, <2>1, DivBounds
  <2>3. ASSUME remain > 0 PROVE Align - remain - backward <= 0
    <3> HIDE DEF remain
    <3>1. (q + 1) * Align = x - remain + Align  BY <1>1, <2>2, SMT
    <3>2. ((q + 1) * Align) \in Int /\ ((q + 1) * Align) % Align = 0
      BY <1>1, <2>2, ModOfMultiple, SMT
    <3>3. PICK y \in Int : y = x - remain + Align /\ y % Align = 0  BY <3>1, <3>2
    <3>4. (input_total - y) % Align = 0
      <4>1. input_total \in Int  BY <1>1, SMT
      <4>2. y % Align = 0  BY <3>3
      <4>3. QED  BY <1>1, <4>1, <4>2, ModAdd
    <3>5. - Align < input_total - y  BY <1>1, <2>1, <2>2, <2>3, <3>3, SMT
    <3>6. input_total - y >= 0  BY <1>1, <3>3, <3>4, <3>5, ModGap, SMT
    <3>7. QED  BY <1>1, <2>1, <2>2, <3>3, <3>6, SMT
  <2>4. QED  BY <1>1, <2>1, <2>2, <2>3, SMT DEF ConnectDiff
<1>3. QED  BY <1>1, <1>2, SMT DEF Raised

LEMMA ConnectStep ==
  ASSUME IInv, NEW s \in Slots, NEW o \in Options, NEW backward \in Nat,
         Connect(s, o, backward)
  PROVE  IInv'
<1> DEFINE at == Raised(buf_used + ConnectDiff(o, backward))
<1>1. o \in Option /\ backward \in Nat /\ backward <= input_total /\ scan = Idle
  BY OptionAssumption DEF Connect
<1>2. at \in 0 .. buf_used  BY <1>1, ConnectAt
<1>3. Base + at \in Nat
  BY <1>2, SMT DEF IInv, TypeOK, Ring, Base
<1>4. TypeOK'
  BY <1>1, <1>2, <1>3, SizeAssumption DEF IInv, TypeOK, Connect, buffer, pass
<1>5. Ring'
  BY DEF IInv, Ring, RingAddress, Base, Connect, buffer
<1>6. CountedInUse'
  <2>1. IsFiniteSet(in_use) /\ s \notin in_use
    <3>1. IsFiniteSet(Slots)  BY SizeAssumption, FS_Interval, SMT DEF Slots
    <3>2. QED  BY <3>1, FS_Subset DEF IInv, TypeOK, Connect
  <2>2. scan # Deleted  BY <1>1 DEF Idle, Deleted
  <2>3. Cardinality(in_use \cup {s}) = Cardinality(in_use) + 1  BY <2>1, FS_AddElement
  <2>4. QED  BY <2>2, <2>3 DEF IInv, CountedInUse, Connect
<1>7. (NoRetval => carry = 0)'
  BY DEF IInv, Connect, pass, NoRetval
<1>8. ASSUME NEW t \in in_use' PROVE Reader(t)'
  <2>1. CASE t # s
    <3>1. t \in Slots /\ t \in in_use  BY <1>8, <2>1 DEF IInv, TypeOK, Connect
    <3>2. QED
      BY <2>1, <3>1, ReaderFrame DEF IInv, TypeOK, Connect, buffer
  <2>2. CASE t = s
    <3>1. /\ opt'[s] = o /\ pos'[s] = at /\ start'[s] = Base + at
          /\ remain_unaligned'[s] = 0 /\ delivered'[s] = 0 /\ dropped'[s] = 0
          /\ s \notin close_flg'
          /\ buf_used' = buf_used /\ input_total' = input_total
      BY DEF IInv, TypeOK, Connect, buffer
    <3>2. AlignOf(s)' \in Nat \ {0}
      BY <3>1, SizeAssumption, SMT DEF AlignOf
    <3>3. Settings(s)'  BY <3>1, <3>2, SMT DEF Settings
    <3>4. Inside(s)'
      <4>1. Base' = Base  BY <3>1 DEF Base
      <4>2. (Base + at + 0 - (Base + at)) = 0  BY <1>2, <1>3, SMT DEF IInv, TypeOK, Base
      <4>3. 0 % (AlignOf(s)') = 0  BY <3>2, SMT
      <4>4. QED  BY <1>2, <3>1, <4>1, <4>2, <4>3, SMT DEF Inside, IInv, TypeOK
    <3>5. Closing(s)' /\ Books(s)'
      BY <1>2, <1>3, <3>1, SMT DEF Closing, Books, Base
    <3>6. QED  BY <2>2, <3>3, <3>4, <3>5 DEF Reader
  <2>3. QED  BY <2>1, <2>2
<1>9. QED  BY <1>4, <1>5, <1>6, <1>7, <1>8 DEF IInv

-----------------------------------------------------------------------------
(* What ab_clear_buf clears, when low is the lowest position in use.       *)
ClearSize(low, require) ==
  IF buf_used + require - low > BufSize THEN buf_used + require - BufSize ELSE low

LEMMA ClearSizeFacts ==
  ASSUME IInv, NEW require \in Nat, require + 2 * (Align - 1) <= BufSize,
         NEW low \in Unread, \A p \in Unread : low <= p
  PROVE  /\ ClearSize(low, require) \in 0 .. buf_used
         /\ buf_used - ClearSize(low, require) + require <= BufSize
         /\ \A s \in in_use : pos[s] < ClearSize(low, require) =>
              buf_used - ClearSize(low, require) = BufSize - require
<1>1. /\ buf_used \in Nat /\ BufSize \in Nat /\ Align \in Nat \ {0}
      /\ \A s \in in_use : pos[s] \in Nat
  BY SizeAssumption DEF IInv, TypeOK
<1>2. low \in Nat /\ low <= buf_used /\ \A s \in in_use : low <= pos[s]
  BY <1>1 DEF Unread
<1>3. require <= BufSize  BY <1>1, SMT
<1>4. QED  BY <1>1, <1>2, <1>3, SMT DEF ClearSize

(* Moving the start of the data in the ring keeps it at its address.       *)
LEMMA RingAdvanceFacts ==
  ASSUME NEW base \in Int, NEW off \in Nat, NEW clear \in Nat,
         off <= BufSize, clear <= BufSize, (base - off) % BufSize = 0
  PROVE  /\ RingAdvance(off + clear) \in Nat
         /\ RingAdvance(off + clear) <= BufSize
         /\ ((base + clear) - RingAdvance(off + clear)) % BufSize = 0
<1>1. BufSize \in Nat \ {0} /\ BufSize \in Int  BY SizeAssumption, SMT
<1>2. PICK d \in Int : d = base - off /\ d % BufSize = 0  BY SMT
<1>3. CASE off + clear > BufSize
  <2>1. RingAdvance(off + clear) = (off + clear) - BufSize  BY <1>3 DEF RingAdvance
  <2>2. (1 * BufSize) % BufSize = 0 /\ 1 * BufSize = BufSize  BY <1>1, ModOfMultiple, SMT
  <2>3. (d + BufSize) % BufSize = 0  BY <1>1, <1>2, <2>2, ModAdd
  <2>4. (base + clear) - ((off + clear) - BufSize) = d + BufSize  BY <1>1, <1>2, SMT
  <2>5. (off + clear) - BufSize \in Nat /\ (off + clear) - BufSize <= BufSize
    BY <1>1, <1>3, SMT
  <2>6. QED  BY <2>1, <2>3, <2>4, <2>5
<1>4. CASE ~(off + clear > BufSize)
  <2>1. RingAdvance(off + clear) = off + clear  BY <1>4 DEF RingAdvance
  <2>2. (base + clear) - (off + clear) = d  BY <1>2, SMT
  <2>3. off + clear \in Nat /\ off + clear <= BufSize  BY <1>1, <1>4, SMT
  <2>4. QED  BY <1>2, <2>1, <2>2, <2>3
<1>5. QED  BY <1>3, <1>4

(* What a downstream has to skip when clear bytes are cleared.             *)
LEMMA SkipFacts ==
  ASSUME TypeOK, NEW clear \in Nat, NEW s \in Slots
  PROVE  /\ Skip(s, clear) \in Nat
         /\ Skip(s, clear) % AlignOf(s) = 0
         /\ Skip(s, clear) > 0 => Live(s) /\ clear > pos[s]
         /\ Live(s) => pos[s] - clear + Skip(s, clear) \in Nat
         /\ Skip(s, clear) > 0 => pos[s] - clear + Skip(s, clear) <= AlignOf(s) - 1
<1>1. pos[s] \in Nat /\ AlignOf(s) \in Nat \ {0}
  BY AlignOfType DEF TypeOK
<1>2. CASE Live(s) /\ clear > pos[s]
  <2>1. PICK x \in Int : x = clear - pos[s] /\ x > 0  BY <1>1, <1>2, SMT
  <2>2. Skip(s, clear) = AlignCeil(x, AlignOf(s))  BY <1>2, <2>1 DEF Skip
  <2>3. /\ Skip(s, clear) \in Int
        /\ Skip(s, clear) % AlignOf(s) = 0
        /\ x <= Skip(s, clear) /\ Skip(s, clear) < x + AlignOf(s)
    BY <1>1, <2>1, <2>2, CeilFacts
  <2>4. /\ Skip(s, clear) \in Nat
        /\ pos[s] - clear + Skip(s, clear) \in Nat
        /\ pos[s] - clear + Skip(s, clear) <= AlignOf(s) - 1
    BY <1>1, <2>1, <2>3, SMT
  <2>5. QED  BY <1>2, <2>3, <2>4
<1>3. CASE ~(Live(s) /\ clear > pos[s])
  <2>1. Skip(s, clear) = 0  BY <1>3 DEF Skip
  <2>2. 0 % AlignOf(s) = 0  BY <1>1, SMT
  <2>3. QED  BY <1>1, <1>3, <2>1, <2>2, SMT
<1>4. QED  BY <1>2, <1>3

LEMMA ClearStep ==
  ASSUME IInv, NEW require \in Nat, require + 2 * (Align - 1) <= BufSize,
         NEW size \in {0, require}, size % Align = 0,
         NEW low \in Unread, \A p \in Unread : low <= p,
         ClearAndInput(low, require, size),
         input_total' = input_total + size,
         UNCHANGED <<slots, remain_unaligned, pass, start, stop, delivered>>
  PROVE  IInv'
<1> DEFINE clear == ClearSize(low, require)
<1>1. /\ clear \in 0 .. buf_used
      /\ buf_used - clear + require <= BufSize
      /\ \A s \in in_use : pos[s] < clear => buf_used - clear = BufSize - require
  BY ClearSizeFacts
<1>2. /\ buf_off' = RingAdvance(buf_off + clear)
      /\ buf_used' = buf_used - clear + size
      /\ pos' = [s \in Slots |->
                   IF Live(s) THEN pos[s] - clear + Skip(s, clear) ELSE pos[s]]
      /\ remain_to_close' = [s \in Slots |-> RemainAfterSkip(s, clear)]
      /\ dropped' = [s \in Slots |-> dropped[s] + Skip(s, clear)]
  BY DEF ClearAndInput, ClearSize
<1>3. /\ input_total \in Nat /\ buf_used \in Nat /\ buf_off \in Nat
      /\ BufSize \in Nat \ {0} /\ Align \in Nat \ {0} /\ size \in Nat
      /\ buf_used <= input_total /\ buf_used <= BufSize /\ buf_off <= BufSize
      /\ input_total % Align = 0 /\ (Base - buf_off) % BufSize = 0
      /\ size <= require
  BY SizeAssumption, SMT DEF IInv, TypeOK, Ring, RingAddress
<1> HIDE DEF clear
<1>4. clear \in Nat /\ Base' = Base + clear /\ Base \in Nat
  BY <1>1, <1>2, <1>3, SMT DEF Base
<1>5. \A s \in Slots : /\ Skip(s, clear) \in Nat
                       /\ Skip(s, clear) % AlignOf(s) = 0
                       /\ Skip(s, clear) > 0 => Live(s) /\ clear > pos[s]
                       /\ Live(s) => pos[s] - clear + Skip(s, clear) \in Nat
                       /\ Skip(s, clear) > 0 =>
                            pos[s] - clear + Skip(s, clear) <= AlignOf(s) - 1
  BY <1>4, SkipFacts DEF IInv
<1>6. TypeOK'
  <2>1. buf_used' \in Nat /\ input_total' \in Nat
    <3>1. buf_used - clear + size \in Nat /\ input_total + size \in Nat
      BY <1>1, <1>3, SMT
    <3>2. QED  BY <1>2, <3>1
  <2>2. buf_off' \in Nat  BY <1>2, <1>3, <1>4, SMT DEF RingAdvance
  <2>3. pos' \in [Slots -> Nat]  BY <1>2, <1>5 DEF IInv, TypeOK
  <2>4. remain_to_close' \in [Slots -> Int]
    BY <1>2, <1>5, SMT DEF IInv, TypeOK, RemainAfterSkip
  <2>5. dropped' \in [Slots -> Int]  BY <1>2, <1>5, SMT DEF IInv, TypeOK
  <2>6. QED  BY <2>1, <2>2, <2>3, <2>4, <2>5 DEF IInv, TypeOK, slots, pass
<1>7. Ring'
  <2>1. buf_used' <= input_total' /\ buf_used' <= BufSize
    <3>1. /\ clear \in Nat /\ buf_used - clear + require <= BufSize
          /\ input_total \in Nat /\ buf_used \in Nat /\ buf_used <= input_total
          /\ size \in Nat /\ size <= require /\ BufSize \in Nat
      BY <1>1, <1>3, <1>4
    <3>2. /\ buf_used - clear + size <= input_total + size
          /\ buf_used - clear + size <= BufSize
      BY <3>1, SMT
    <3>3. QED  BY <1>2, <3>2
  <2>2. buf_off' <= BufSize  BY <1>1, <1>2, <1>3, SMT DEF RingAdvance
  <2>3. (input_total') % Align = 0
    <3>1. input_total \in Int /\ size \in Int  BY <1>3, SMT
    <3>2. (input_total + size) % Align = 0  BY <1>3, <3>1, ModAdd
    <3>3. QED  BY <3>2
  <2>4. ((Base + clear) - RingAdvance(buf_off + clear)) % BufSize = 0
    <3>1. Base \in Int /\ clear <= BufSize  BY <1>1, <1>3, <1>4, SMT
    <3>2. QED  BY <1>3, <1>4, <3>1, RingAdvanceFacts
  <2>5. (Base' - buf_off') % BufSize = 0
    <3>1. Base' = Base + clear /\ buf_off' = RingAdvance(buf_off + clear)
      BY <1>2, <1>4
    <3>2. Base' - buf_off' = (Base + clear) - RingAdvance(buf_off + clear)
      BY <3>1
    <3>3. QED  BY <2>4, <3>2
  <2>6. QED  BY <2>1, <2>2, <2>3, <2>5 DEF Ring, RingAddress
<1>8. CountedInUse' /\ (NoRetval => carry = 0)'
  BY DEF IInv, CountedInUse, NoRetval, slots, pass
<1>9. ASSUME NEW s \in in_use' PROVE Reader(s)'
  <2> DEFINE skip == Skip(s, clear)
  <2>1. s \in in_use /\ s \in Slots /\ Reader(s)
    BY DEF IInv, TypeOK, slots
  <2>2. /\ opt'[s] = opt[s] /\ remain_unaligned'[s] = remain_unaligned[s]
        /\ start'[s] = start[s] /\ stop'[s] = stop[s] /\ delivered'[s] = delivered[s]
        /\ s \in close_flg' <=> s \in close_flg
        /\ s \in in_use'
        /\ AlignOf(s)' = AlignOf(s)
    BY DEF slots, AlignOf
  <2>3. /\ pos'[s] = IF Live(s) THEN pos[s] - clear + skip ELSE pos[s]
        /\ remain_to_close'[s] = IF s \in close_flg THEN remain_to_close[s] - skip
                                                    ELSE remain_to_close[s]
        /\ dropped'[s] = dropped[s] + skip
    BY <1>2, <2>1 DEF RemainAfterSkip
  <2>4. /\ pos[s] \in Nat /\ remain_to_close[s] \in Int /\ dropped[s] \in Int
        /\ start[s] \in Nat /\ stop[s] \in Nat /\ delivered[s] \in Nat
        /\ remain_unaligned[s] \in Nat
        /\ AlignOf(s) \in Nat \ {0} /\ AlignOf(s) <= Align
    BY <2>1, AlignOfType DEF IInv, TypeOK
  <2>5. /\ skip \in Nat /\ skip % AlignOf(s) = 0
        /\ skip > 0 => Live(s) /\ clear > pos[s]
        /\ skip > 0 => pos[s] - clear + skip <= AlignOf(s) - 1
    BY <1>5, <2>1
  <2> HIDE DEF skip
  <2>6. Settings(s)'
    BY <2>1, <2>2 DEF Reader, Settings
  <2>7. Live(s)' => Live(s)
    BY <2>1, <2>2, <2>3, <2>4, <2>5, SMT DEF Live, Drained
  <2>8. Inside(s)'
    <3> SUFFICES ASSUME Live(s)'
                 PROVE  /\ pos'[s] + remain_unaligned'[s] <= buf_used'
                        /\ ((Base + pos[s] + remain_unaligned[s] - start[s])') % (AlignOf(s)') = 0
      BY DEF Inside
    <3>1. /\ Live(s)
          /\ pos[s] + remain_unaligned[s] <= buf_used
          /\ (Base + pos[s] + remain_unaligned[s] - start[s]) % AlignOf(s) = 0
          /\ remain_unaligned[s] < AlignOf(s)
      BY <2>1, <2>7 DEF Reader, Inside, Settings
    <3>2. pos'[s] = pos[s] - clear + skip  BY <2>3, <3>1
    <3>3. pos'[s] + remain_unaligned'[s] <= buf_used'
      <4>1. CASE skip = 0
        BY <1>2, <1>3, <1>4, <2>2, <2>4, <3>1, <3>2, <4>1, SMT
      <4>2. CASE skip > 0
        <5>1. buf_used - clear = BufSize - require  BY <1>1, <2>1, <2>5, <4>2
        <5>2. pos'[s] <= AlignOf(s) - 1  BY <2>5, <3>2, <4>2
        <5>3. 2 * (Align - 1) <= buf_used'
          BY <1>2, <1>3, <1>4, <5>1, SMT
        <5>4. QED
          BY <1>2, <1>3, <1>4, <2>2, <2>4, <2>5, <3>1, <3>2, <5>2, <5>3, SMT
      <4>3. QED  BY <2>5, <4>1, <4>2, SMT
    <3>4. ((Base + pos[s] + remain_unaligned[s] - start[s])') % (AlignOf(s)') = 0
      <4>1. PICK d \in Int : /\ d = Base + pos[s] + remain_unaligned[s] - start[s]
                             /\ d % AlignOf(s) = 0
        BY <1>4, <2>4, <3>1, SMT
      <4>2. (d + skip) % AlignOf(s) = 0
        BY <2>4, <2>5, <4>1, ModAdd, SMT
      <4>3. (Base + pos[s] + remain_unaligned[s] - start[s])' = d + skip
        BY <1>4, <2>2, <2>4, <2>5, <3>2, <4>1, SMT
      <4>4. QED  BY <2>2, <4>2, <4>3
    <3>5. QED  BY <3>3, <3>4
  <2>9. Closing(s)'
    <3> SUFFICES ASSUME s \in close_flg', remain_to_close'[s] > 0
                 PROVE  /\ (Base + pos[s] + remain_to_close[s] = stop[s])'
                        /\ (stop[s] <= input_total)'
                        /\ ((stop[s] - start[s])') % (AlignOf(s)') = 0
      BY DEF Closing
    <3>1. s \in close_flg /\ remain_to_close[s] > 0 /\ Live(s)
      BY <2>1, <2>2, <2>3, <2>4, <2>5, SMT DEF Live, Drained
    <3>2. /\ Base + pos[s] + remain_to_close[s] = stop[s]
          /\ stop[s] <= input_total
          /\ (stop[s] - start[s]) % AlignOf(s) = 0
      BY <2>1, <3>1 DEF Reader, Closing
    <3>3. pos'[s] = pos[s] - clear + skip /\ remain_to_close'[s] = remain_to_close[s] - skip
      BY <2>3, <3>1
    <3>4. (Base + pos[s] + remain_to_close[s] = stop[s])' /\ (stop[s] <= input_total)'
      <4>1. Base + clear + (pos[s] - clear + skip) + (remain_to_close[s] - skip) = stop[s]
        BY <1>4, <2>4, <2>5, <3>2, SMT
      <4>2. stop[s] <= input_total + size
        BY <1>3, <2>4, <3>2, SMT
      <4>3. QED  BY <1>4, <2>2, <3>3, <4>1, <4>2
    <3>5. QED  BY <2>2, <3>2, <3>4
  <2>10. Books(s)'
    <3>1. s \notin close_flg => Live(s)  BY <2>1 DEF Live, Drained
    <3>2. s \in close_flg /\ skip > 0 => remain_to_close[s] > 0
      BY <2>4, <2>5, SMT DEF Live, Drained
    <3>3. Books(s)  BY <2>1 DEF Reader
    <3>4. CASE s \notin close_flg
      <4>1. pos'[s] = pos[s] - clear + skip /\ dropped'[s] = dropped[s] + skip
        BY <2>3, <3>1, <3>4
      <4>2. QED
        BY <1>4, <2>2, <2>4, <2>5, <3>3, <3>4, <4>1, SMT DEF Books
    <3>5. CASE s \in close_flg
      <4>1. remain_to_close'[s] = remain_to_close[s] - skip /\ dropped'[s] = dropped[s] + skip
        BY <2>3, <3>5
      <4>2. QED
        <5>1. stop[s] - remain_to_close'[s] = start[s] + delivered[s] + dropped'[s]
          BY <2>4, <2>5, <3>3, <3>5, <4>1, SMT DEF Books
        <5>2. dropped'[s] >= 0
          BY <2>4, <2>5, <3>3, <4>1, SMT DEF Books
        <5>3. remain_to_close'[s] < 0 => dropped'[s] + remain_to_close'[s] > 0
          <6>1. CASE skip = 0
            BY <2>4, <3>3, <3>5, <4>1, <6>1, SMT DEF Books
          <6>2. CASE skip > 0
            BY <2>4, <2>5, <3>2, <3>3, <3>5, <4>1, <6>2, SMT DEF Books
          <6>3. QED  BY <2>5, <6>1, <6>2, SMT
        <5>4. QED
          BY <2>2, <3>5, <5>1, <5>2, <5>3 DEF Books
    <3>6. QED  BY <3>4, <3>5
  <2>11. QED  BY <2>6, <2>8, <2>9, <2>10 DEF Reader
<1>10. QED  BY <1>6, <1>7, <1>8, <1>9 DEF IInv

LEMMA ClearBufStep ==
  ASSUME IInv, NEW require \in ClearSizes, ClearBuf(require)
  PROVE  IInv'
<1>1. require \in Nat /\ require + 2 * (Align - 1) <= BufSize
  BY InputAssumption
<1>2. 0 % Align = 0  BY SizeAssumption, SMT
<1>3. PICK low \in Unread : /\ \A p \in Unread : low <= p
                            /\ ClearAndInput(low, require, 0)
  BY DEF ClearBuf
<1>4. input_total' = input_total + 0
  BY SMT DEF ClearBuf, IInv, TypeOK
<1>5. QED
  BY <1>1, <1>2, <1>3, <1>4, ClearStep DEF ClearBuf

(* A downstream when bytes arrive and none has to be cleared for them.     *)
LEMMA ReaderGrow ==
  ASSUME TypeOK, NEW t \in Slots, Reader(t), NEW size \in Nat,
         input_total' = input_total + size, buf_used' = buf_used + size,
         UNCHANGED <<slots, cursor, ghost>>
  PROVE  Reader(t)'
<1>1. /\ input_total \in Nat /\ buf_used \in Nat /\ pos[t] \in Nat
      /\ remain_unaligned[t] \in Nat /\ stop[t] \in Nat
  BY DEF TypeOK
<1>2. Base' = Base  BY <1>1, SMT DEF Base
<1>3. AlignOf(t)' = AlignOf(t) /\ Live(t)' = Live(t)
  BY DEF AlignOf, Live, Drained, slots, cursor
<1>4. Settings(t)' /\ Books(t)'
  BY <1>2, <1>3 DEF Reader, Settings, Books, slots, cursor, ghost
<1>5. Inside(t)'
  <2>1. ASSUME pos[t] + remain_unaligned[t] <= buf_used
        PROVE  pos[t] + remain_unaligned[t] <= buf_used + size
    BY <1>1, <2>1, SMT
  <2>2. QED  BY <1>2, <1>3, <2>1 DEF Reader, Inside, cursor, ghost
<1>6. Closing(t)'
  <2>1. ASSUME stop[t] <= input_total  PROVE stop[t] <= input_total + size
    BY <1>1, <2>1, SMT
  <2>2. QED  BY <1>2, <1>3, <2>1 DEF Reader, Closing, slots, cursor, ghost
<1>7. QED  BY <1>4, <1>5, <1>6 DEF Reader

LEMMA InputBufStep ==
  ASSUME IInv, NEW size \in InputSizes, InputBuf(size)
  PROVE  IInv'
<1>1. size \in Nat /\ size % Align = 0 /\ size + 2 * (Align - 1) <= BufSize
  BY InputAssumption
<1>2. CASE buf_used + size > BufSize
  <2>1. PICK low \in Unread : /\ \A p \in Unread : low <= p
                              /\ ClearAndInput(low, size, size)
    BY <1>2 DEF InputBuf
  <2>2. QED  BY <1>1, <2>1, ClearStep DEF InputBuf
<1>3. CASE ~(buf_used + size > BufSize)
  <2>1. /\ buf_used' = buf_used + size /\ input_total' = input_total + size
        /\ UNCHANGED <<buf_off, pos, remain_to_close, dropped>>
        /\ UNCHANGED <<slots, remain_unaligned, pass, start, stop, delivered>>
    BY <1>3 DEF InputBuf
  <2>2. /\ input_total \in Nat /\ buf_used \in Nat /\ buf_off \in Nat
        /\ BufSize \in Nat \ {0} /\ Align \in Nat \ {0}
        /\ buf_used <= input_total
    BY SizeAssumption DEF IInv, TypeOK, Ring
  <2>3. buf_used + size \in Nat /\ input_total + size \in Nat
        /\ buf_used + size <= BufSize /\ buf_used + size <= input_total + size
    BY <1>1, <1>3, <2>2, SMT
  <2>4. TypeOK'
    BY <2>1, <2>3 DEF IInv, TypeOK, slots, pass
  <2>5. Ring'
    <3>1. Base' = Base  BY <1>1, <2>1, <2>2, SMT DEF Base
    <3>2. (input_total + size) % Align = 0
      <4>1. input_total \in Int /\ size \in Int  BY <1>1, <2>2, SMT
      <4>2. QED  BY <1>1, <2>2, <4>1, ModAdd DEF IInv, Ring
    <3>3. QED
      BY <2>1, <2>3, <3>1, <3>2 DEF IInv, Ring, RingAddress
  <2>6. CountedInUse' /\ (NoRetval => carry = 0)'
    BY <2>1 DEF IInv, CountedInUse, NoRetval, slots, pass
  <2>7. ASSUME NEW t \in in_use' PROVE Reader(t)'
    <3>1. t \in Slots /\ Reader(t)  BY <2>1 DEF IInv, TypeOK, slots
    <3>2. QED
      BY <1>1, <2>1, <3>1, ReaderGrow DEF IInv, slots, cursor, ghost
  <2>8. QED  BY <2>4, <2>5, <2>6, <2>7 DEF IInv
<1>4. QED  BY <1>2, <1>3

-----------------------------------------------------------------------------
(* The next downstream to visit.                                           *)
LEMMA GotoType ==
  ASSUME TypeOK, NEW j \in Int, Goto(j)
  PROVE  scan' \in Slots \cup {Idle, CheckClose, Deleted} /\ scan' # Deleted
BY SizeAssumption, SMT DEF Goto, TypeOK, Slots, CheckClose, Deleted

(* A step that only moves scan, carry and busy.                            *)
LEMMA PassStep ==
  ASSUME IInv, scan # Deleted,
         scan' \in Slots \cup {Idle, CheckClose, Deleted},
         carry' \in Nat, NoRetval => carry' = 0,
         busy' \in SUBSET Slots,
         UNCHANGED <<buffer, n_downstreams, in_use, close_flg, opt, cursor, ghost>>
  PROVE  IInv'
<1>1. TypeOK'
  BY DEF IInv, TypeOK, buffer, cursor, ghost
<1>2. Ring'
  BY DEF IInv, Ring, RingAddress, Base, buffer
<1>3. CountedInUse' /\ (NoRetval => carry = 0)'
  BY DEF IInv, CountedInUse, NoRetval
<1>4. ASSUME NEW t \in in_use' PROVE Reader(t)'
  <2>1. t \in Slots /\ Reader(t)  BY DEF IInv, TypeOK
  <2>2. QED
    BY <2>1, ReaderFrame DEF buffer, cursor, ghost
<1>5. QED  BY <1>1, <1>2, <1>3, <1>4 DEF IInv

LEMMA BeginOutputStep ==
  ASSUME IInv, BeginOutput
  PROVE  IInv'
<1>1. scan' \in Slots \cup {Idle, CheckClose, Deleted}
  BY GotoType DEF BeginOutput, IInv
<1>2. scan # Deleted  BY SMT DEF BeginOutput, Idle, Deleted
<1>3. QED  BY <1>1, <1>2, PassStep DEF BeginOutput, slots, IInv, TypeOK

(* What the visit of a downstream leaves in scan and carry.                *)
LEMMA VisitFacts ==
  ASSUME IInv, NEW s \in Slots, Visit(s)
  PROVE  /\ s \in in_use /\ scan = s /\ scan # Deleted
         /\ scan' \in Slots \cup {Idle, CheckClose, Deleted}
         /\ carry' = Unaligned(s) /\ carry' \in Nat
         /\ NoRetval => carry' = 0
<1>1. s \in in_use /\ scan = s /\ scan # Deleted /\ s + 1 \in Int
  BY SMT DEF Visit, Slots, Deleted
<1>2. scan' \in Slots \cup {Idle, CheckClose, Deleted}
  BY <1>1, GotoType DEF Visit, IInv
<1>3. carry' = Unaligned(s) /\ Unaligned(s) \in Nat
  BY <1>1, UnalignedIsOwn DEF Visit
<1>4. ASSUME NoRetval PROVE Unaligned(s) = 0
  <2>1. opt[s].aligned => opt[s] \in Options  BY <1>1 DEF IInv, Reader, Settings
  <2>2. QED  BY <1>4, <2>1 DEF Unaligned, NoRetval, IInv
<1>5. QED  BY <1>1, <1>2, <1>3, <1>4

LEMMA VisitHeldBackStep ==
  ASSUME IInv, NEW s \in Slots, VisitHeldBack(s)
  PROVE  IInv'
<1>1. busy' \in SUBSET Slots
  BY DEF VisitHeldBack, IInv, TypeOK, slots
<1>2. QED
  BY <1>1, VisitFacts, PassStep DEF VisitHeldBack, slots

LEMMA VisitBusyStep ==
  ASSUME IInv, NEW s \in Slots, NEW acceptable \in Nat, VisitBusy(s, acceptable)
  PROVE  IInv'
<1>1. busy' \in SUBSET Slots
  BY DEF VisitBusy, IInv, TypeOK
<1>2. QED
  BY <1>1, VisitFacts, PassStep DEF VisitBusy

(***************************************************************************)
(* The size of a write: it ends in the buffer, at or before the close      *)
(* point, and at the end of a packet.                                      *)
(***************************************************************************)
LEMMA FloorToPacket ==
  ASSUME IInv, NEW s \in in_use, NEW x \in Int
  PROVE  LET w == AlignFloor(x - Unaligned(s), AlignOf(s)) + Unaligned(s)
         IN /\ w \in Int
            /\ (w - remain_unaligned[s]) % AlignOf(s) = 0
            /\ remain_unaligned[s] <= x => w <= x
<1> DEFINE w == AlignFloor(x - Unaligned(s), AlignOf(s)) + Unaligned(s)
<1>1. /\ s \in Slots /\ AlignOf(s) \in Nat \ {0}
      /\ remain_unaligned[s] \in Nat /\ Unaligned(s) \in Nat
      /\ opt[s].aligned => Unaligned(s) = remain_unaligned[s]
      /\ ~opt[s].aligned => AlignOf(s) = 1
  BY AlignOfType, UnalignedIsOwn DEF IInv, TypeOK
<1>2. PICK y \in Int : y = x - Unaligned(s)  BY <1>1, SMT
<1>3. PICK f \in Int : f = AlignFloor(y, AlignOf(s))  BY <1>1, FloorFacts
<1>4. /\ f % AlignOf(s) = 0
      /\ y >= 0 => f <= y
      /\ AlignOf(s) = 1 => f = y
  BY <1>1, <1>3, FloorFacts
<1>5. w = f + Unaligned(s)  BY <1>2, <1>3
<1>6. CASE opt[s].aligned
  <2>1. w - remain_unaligned[s] = f  BY <1>1, <1>5, <1>6, SMT
  <2>2. remain_unaligned[s] <= x => w <= x  BY <1>1, <1>2, <1>4, <1>5, <1>6, SMT
  <2>3. QED  BY <1>1, <1>4, <1>5, <2>1, <2>2, SMT
<1>7. CASE ~opt[s].aligned
  <2>1. w = x  BY <1>1, <1>2, <1>4, <1>5, <1>7, SMT
  <2>2. (x - remain_unaligned[s]) % 1 = 0  BY <1>1, SMT
  <2>3. QED  BY <1>1, <1>7, <2>1, <2>2
<1>8. QED  BY <1>6, <1>7

LEMMA WriteSizeFacts ==
  ASSUME IInv, NEW s \in in_use, NEW acceptable \in Nat
  PROVE  /\ WriteSize(s, acceptable) \in Int
         /\ Live(s) => WriteSize(s, acceptable) <= Avail(s)
         /\ s \in close_flg => WriteSize(s, acceptable) <= remain_to_close[s]
         /\ Live(s) => (WriteSize(s, acceptable) - remain_unaligned[s]) % AlignOf(s) = 0
<1>1. /\ s \in Slots /\ AlignOf(s) \in Nat \ {0}
      /\ remain_unaligned[s] \in Nat /\ pos[s] \in Nat /\ buf_used \in Nat
      /\ remain_to_close[s] \in Int /\ Base \in Nat /\ start[s] \in Nat /\ stop[s] \in Nat
  BY AlignOfType, SMT DEF IInv, TypeOK, Ring, Base
<1>2. Reader(s)  BY DEF IInv
<1>3. Avail(s) \in Int /\ (Live(s) => remain_unaligned[s] <= Avail(s))
  <2>1. Live(s) => pos[s] + remain_unaligned[s] <= buf_used  BY <1>2 DEF Reader, Inside
  <2>2. QED  BY <1>1, <2>1, SMT DEF Avail
<1>4. /\ MaxWrite(s, acceptable) \in Int
      /\ (MaxWrite(s, acceptable) - remain_unaligned[s]) % AlignOf(s) = 0
  <2>1. acceptable \in Int  BY SMT
  <2>2. QED  BY <2>1, FloorToPacket DEF MaxWrite
<1>5. /\ PacketWrite(s, acceptable) \in Int
      /\ (PacketWrite(s, acceptable) - remain_unaligned[s]) % AlignOf(s) = 0
      /\ Live(s) => PacketWrite(s, acceptable) <= Avail(s)
  <2> DEFINE p == AlignFloor(Avail(s) - Unaligned(s), AlignOf(s)) + Unaligned(s)
  <2>1. /\ p \in Int
        /\ (p - remain_unaligned[s]) % AlignOf(s) = 0
        /\ Live(s) => p <= Avail(s)
    BY <1>3, FloorToPacket
  <2> HIDE DEF p
  <2>2. PacketWrite(s, acceptable) =
          IF MaxWrite(s, acceptable) > 0 /\ Avail(s) > MaxWrite(s, acceptable)
          THEN MaxWrite(s, acceptable) ELSE p
    BY DEF PacketWrite, p
  <2>3. CASE MaxWrite(s, acceptable) > 0 /\ Avail(s) > MaxWrite(s, acceptable)
    BY <1>3, <1>4, <2>2, <2>3, SMT
  <2>4. CASE ~(MaxWrite(s, acceptable) > 0 /\ Avail(s) > MaxWrite(s, acceptable))
    BY <2>1, <2>2, <2>4
  <2>5. QED  BY <2>3, <2>4
<1>6. ASSUME Live(s), s \in close_flg
      PROVE  (remain_to_close[s] - remain_unaligned[s]) % AlignOf(s) = 0
  <2>1. remain_to_close[s] > 0  BY <1>1, <1>6, SMT DEF Live, Drained
  <2>2. /\ Base + pos[s] + remain_to_close[s] = stop[s]
        /\ (stop[s] - start[s]) % AlignOf(s) = 0
        /\ (Base + pos[s] + remain_unaligned[s] - start[s]) % AlignOf(s) = 0
    BY <1>2, <1>6, <2>1 DEF Reader, Inside, Closing
  <2>3. PICK d \in Int : d = stop[s] - start[s] /\ d % AlignOf(s) = 0
    BY <1>1, <2>2, SMT
  <2>4. PICK e \in Int : /\ e = Base + pos[s] + remain_unaligned[s] - start[s]
                         /\ e % AlignOf(s) = 0
    BY <1>1, <2>2, SMT
  <2>5. (d - e) % AlignOf(s) = 0  BY <1>1, <2>3, <2>4, ModAdd
  <2>6. d - e = remain_to_close[s] - remain_unaligned[s]
    BY <1>1, <2>2, <2>3, <2>4, SMT
  <2>7. QED  BY <2>5, <2>6
<1>7. CASE s \in close_flg /\ PacketWrite(s, acceptable) > remain_to_close[s]
  <2>1. WriteSize(s, acceptable) = remain_to_close[s]  BY <1>7 DEF WriteSize
  <2>2. Live(s) => remain_to_close[s] <= Avail(s)  BY <1>1, <1>3, <1>5, <1>7, SMT
  <2>3. QED  BY <1>1, <1>6, <1>7, <2>1, <2>2, SMT
<1>8. CASE ~(s \in close_flg /\ PacketWrite(s, acceptable) > remain_to_close[s])
  <2>1. WriteSize(s, acceptable) = PacketWrite(s, acceptable)  BY <1>8 DEF WriteSize
  <2>2. s \in close_flg => PacketWrite(s, acceptable) <= remain_to_close[s]
    BY <1>1, <1>5, <1>8, SMT
  <2>3. QED  BY <1>5, <2>1, <2>2
<1>9. QED  BY <1>7, <1>8

(* What is left of the packet after done of the bytes offered were taken.  *)
LEMMA TakenFacts ==
  ASSUME IInv, NEW s \in in_use, NEW acceptable \in Nat,
         NEW done \in Taken(s, acceptable), done > 0
  PROVE  /\ done \in Nat
         /\ Live(s)
         /\ s \in close_flg => done <= remain_to_close[s]
         /\ StillUnaligned(s, done) \in Nat
         /\ StillUnaligned(s, done) < AlignOf(s)
         /\ ~(opt[s].aligned /\ opt[s].use_retval) => StillUnaligned(s, done) = 0
         /\ pos[s] + done + StillUnaligned(s, done) <= buf_used
         /\ (done + StillUnaligned(s, done) - remain_unaligned[s]) % AlignOf(s) = 0
<1> DEFINE w == WriteSize(s, acceptable)
           r == remain_unaligned[s]
           left == StillUnaligned(s, done)
           a == AlignOf(s)
<1>1. /\ s \in Slots /\ a \in Nat \ {0} /\ r \in Nat /\ pos[s] \in Nat
      /\ buf_used \in Nat /\ remain_to_close[s] \in Int /\ Align \in Nat \ {0}
      /\ opt[s].aligned => a = Align
      /\ ~opt[s].aligned => a = 1
      /\ r < a
      /\ ~(opt[s].aligned /\ opt[s].use_retval) => r = 0
  BY AlignOfType, SizeAssumption DEF IInv, TypeOK, Reader, Settings
<1>2. /\ w \in Int
      /\ Live(s) => w <= Avail(s)
      /\ s \in close_flg => w <= remain_to_close[s]
      /\ Live(s) => (w - r) % a = 0
  BY WriteSizeFacts
<1>3. left = IF opt[s].use_retval /\ opt[s].aligned
             THEN AlignCeil(done - r, Align) - (done - r) ELSE r
  BY DEF StillUnaligned
<1>4. /\ w > 0
      /\ IF opt[s].use_retval THEN done \in 0 .. w ELSE done = w
  BY <1>2, SMT DEF Taken
<1> HIDE DEF w, r, left, a
<1>5. done \in Nat /\ done <= w  BY <1>2, <1>4, SMT
<1>6. Live(s)  BY <1>1, <1>2, <1>4, SMT DEF Live, Drained
<1>7. pos[s] + w <= buf_used  BY <1>1, <1>2, <1>6, SMT DEF Avail
<1>8. s \in close_flg => done <= remain_to_close[s]  BY <1>1, <1>2, <1>5, SMT
<1>9. CASE opt[s].use_retval /\ opt[s].aligned
  <2>1. PICK x \in Int : x = done - r  BY <1>1, <1>5, SMT
  <2>2. PICK c \in Int : c = AlignCeil(x, a)  BY <1>1, CeilFacts
  <2>3. /\ c % a = 0 /\ x <= c /\ c < x + a
        /\ \A y \in Int : x <= y /\ y % a = 0 => c <= y
    BY <1>1, <2>2, CeilFacts
  <2>4. left = c - x  BY <1>1, <1>3, <1>9, <2>1, <2>2
  <2>5. c <= w - r
    <3>1. w - r \in Int /\ x <= w - r  BY <1>1, <1>2, <1>5, <2>1, SMT
    <3>2. QED  BY <1>2, <1>6, <2>3, <3>1
  <2>6. left \in Nat /\ left < a /\ pos[s] + done + left <= buf_used
    BY <1>1, <1>2, <1>5, <1>7, <2>1, <2>3, <2>4, <2>5, SMT
  <2>7. done + left - r = c  BY <1>1, <1>5, <2>1, <2>4, SMT
  <2>8. QED  BY <1>5, <1>6, <1>8, <1>9, <2>3, <2>6, <2>7 DEF r, left, a
<1>10. CASE ~(opt[s].use_retval /\ opt[s].aligned)
  <2>1. left = 0 /\ r = 0  BY <1>1, <1>3, <1>10
  <2>2. pos[s] + done + left <= buf_used  BY <1>1, <1>2, <1>5, <1>7, <2>1, SMT
  <2>3. done + left - r = done  BY <1>5, <2>1, SMT
  <2>4. done % a = 0
    <3>1. CASE ~opt[s].aligned
      <4>1. done % 1 = 0  BY <1>5, SMT
      <4>2. QED  BY <1>1, <3>1, <4>1
    <3>2. CASE opt[s].aligned
      <4>1. w - r = done  BY <1>2, <1>4, <1>5, <1>10, <2>1, <3>2, SMT
      <4>2. QED  BY <1>2, <1>6, <4>1
    <3>3. QED  BY <3>1, <3>2
  <2>5. left \in Nat /\ left < a  BY <1>1, <2>1, SMT
  <2>6. QED  BY <1>5, <1>6, <1>8, <2>1, <2>2, <2>3, <2>4, <2>5 DEF r, left, a
<1>11. QED  BY <1>9, <1>10

LEMMA VisitWriteStep ==
  ASSUME IInv, NEW s \in Slots, NEW acceptable \in Nat, NEW done \in Nat,
         VisitWrite(s, acceptable, done)
  PROVE  IInv'
<1>1. /\ s \in in_use /\ scan = s /\ scan # Deleted
      /\ scan' \in Slots \cup {Idle, CheckClose, Deleted}
      /\ carry' \in Nat
      /\ NoRetval => carry' = 0
  BY VisitFacts DEF VisitWrite
<1>2. busy' \in SUBSET Slots
  BY DEF VisitWrite, IInv, TypeOK
<1>3. /\ pos \in [Slots -> Nat] /\ remain_to_close \in [Slots -> Int]
      /\ remain_unaligned \in [Slots -> Nat] /\ delivered \in [Slots -> Nat]
      /\ dropped \in [Slots -> Int] /\ start \in [Slots -> Nat] /\ stop \in [Slots -> Nat]
      /\ buf_used \in Nat
  BY DEF IInv, TypeOK
<1>4. CASE done = 0
  <2>1. pos' = pos /\ delivered' = delivered
    BY <1>3, <1>4, SMT DEF VisitWrite
  <2>2. remain_to_close' = remain_to_close
    BY <1>3, <1>4, SMT DEF VisitWrite
  <2>3. remain_unaligned' = remain_unaligned
    BY <1>3, <1>4, SMT DEF VisitWrite, StillUnaligned
  <2>4. QED
    BY <1>1, <1>2, <2>1, <2>2, <2>3, PassStep DEF VisitWrite, cursor, ghost
<1>5. CASE done > 0
  <2> DEFINE left == StillUnaligned(s, done)
  <2>1. /\ Live(s)
        /\ s \in close_flg => done <= remain_to_close[s]
        /\ left \in Nat
        /\ left < AlignOf(s)
        /\ ~(opt[s].aligned /\ opt[s].use_retval) => left = 0
        /\ pos[s] + done + left <= buf_used
        /\ (done + left - remain_unaligned[s]) % AlignOf(s) = 0
    BY <1>1, <1>5, TakenFacts DEF VisitWrite
  <2> HIDE DEF left
  <2>2. /\ pos' = [pos EXCEPT ![s] = @ + done]
        /\ remain_to_close' = IF s \in close_flg
                              THEN [remain_to_close EXCEPT ![s] = @ - done]
                              ELSE remain_to_close
        /\ remain_unaligned' = [remain_unaligned EXCEPT ![s] = left]
        /\ delivered' = [delivered EXCEPT ![s] = @ + done]
        /\ UNCHANGED <<buffer, n_downstreams, in_use, close_flg, opt, start, stop, dropped>>
    BY DEF VisitWrite, left
  <2>3. TypeOK'
    <3>1. pos' \in [Slots -> Nat] /\ delivered' \in [Slots -> Nat]
      BY <1>3, <2>2, SMT
    <3>2. remain_to_close' \in [Slots -> Int] /\ remain_unaligned' \in [Slots -> Nat]
      BY <1>3, <2>1, <2>2, SMT
    <3>3. QED
      BY <1>1, <1>2, <2>2, <3>1, <3>2 DEF IInv, TypeOK, buffer
  <2>4. Ring'
    BY <2>2 DEF IInv, Ring, RingAddress, Base, buffer
  <2>5. CountedInUse' /\ (NoRetval => carry = 0)'
    BY <1>1, <2>2 DEF IInv, CountedInUse, NoRetval
  <2>6. ASSUME NEW t \in in_use', t # s PROVE Reader(t)'
    <3>1. t \in in_use /\ t \in Slots /\ Reader(t)
      BY <2>2 DEF IInv, TypeOK
    <3>2. QED
      BY <1>3, <2>2, <2>6, <3>1, ReaderFrame DEF buffer
  <2>7. Reader(s)'
    <3>1. /\ pos'[s] = pos[s] + done
          /\ remain_to_close'[s] = IF s \in close_flg THEN remain_to_close[s] - done
                                   ELSE remain_to_close[s]
          /\ remain_unaligned'[s] = left
          /\ delivered'[s] = delivered[s] + done
          /\ opt'[s] = opt[s] /\ AlignOf(s)' = AlignOf(s)
          /\ start'[s] = start[s] /\ stop'[s] = stop[s] /\ dropped'[s] = dropped[s]
          /\ buf_used' = buf_used /\ input_total' = input_total /\ Base' = Base
          /\ s \in close_flg' <=> s \in close_flg
      BY <1>3, <2>2 DEF buffer, AlignOf, Base
    <3>2. /\ pos[s] \in Nat /\ remain_to_close[s] \in Int /\ remain_unaligned[s] \in Nat
          /\ delivered[s] \in Nat /\ dropped[s] \in Int /\ start[s] \in Nat /\ stop[s] \in Nat
          /\ Base \in Nat /\ AlignOf(s) \in Nat \ {0}
      BY <1>3, AlignOfType, SMT DEF IInv, Ring, TypeOK, Base
    <3>3. Reader(s)  BY <1>1 DEF IInv
    <3>4. Settings(s)'
      BY <2>1, <3>1, <3>3 DEF Reader, Settings
    <3>5. Inside(s)'
      <4>1. PICK d \in Int : /\ d = Base + pos[s] + remain_unaligned[s] - start[s]
                             /\ d % AlignOf(s) = 0
        BY <2>1, <3>2, <3>3, SMT DEF Reader, Inside
      <4>2. PICK e \in Int : /\ e = done + left - remain_unaligned[s]
                             /\ e % AlignOf(s) = 0
        BY <2>1, <3>2, SMT
      <4>3. (d + e) % AlignOf(s) = 0  BY <3>2, <4>1, <4>2, ModAdd
      <4>4. d + e = Base + (pos[s] + done) + left - start[s]
        <5>1. left \in Nat  BY <2>1
        <5>2. /\ d = Base + pos[s] + remain_unaligned[s] - start[s]
              /\ e = done + left - remain_unaligned[s]
          BY <4>1, <4>2
        <5>3. QED  BY <3>2, <5>1, <5>2, SMT
      <4>5. QED  BY <2>1, <3>1, <4>3, <4>4 DEF Inside
    <3>6. Closing(s)'
      <4> SUFFICES ASSUME s \in close_flg', remain_to_close'[s] > 0
                   PROVE  /\ Base + (pos[s] + done) + remain_to_close'[s] = stop[s]
                          /\ stop[s] <= input_total
                          /\ (stop[s] - start[s]) % AlignOf(s) = 0
        BY <3>1 DEF Closing
      <4>1. s \in close_flg /\ remain_to_close'[s] = remain_to_close[s] - done
        BY <3>1
      <4>2. remain_to_close[s] > 0  BY <1>5, <3>2, <4>1, SMT
      <4>3. /\ Base + pos[s] + remain_to_close[s] = stop[s]
            /\ stop[s] <= input_total
            /\ (stop[s] - start[s]) % AlignOf(s) = 0
        BY <3>3, <4>1, <4>2 DEF Reader, Closing
      <4>4. Base + (pos[s] + done) + (remain_to_close[s] - done) = stop[s]
        BY <3>2, <4>3, SMT
      <4>5. QED  BY <4>1, <4>3, <4>4
    <3>7. Books(s)'
      <4>1. Books(s)  BY <3>3 DEF Reader
      <4>2. CASE s \notin close_flg
        <5>1. Base + pos[s] = start[s] + delivered[s] + dropped[s] /\ dropped[s] >= 0
          BY <4>1, <4>2 DEF Books
        <5>2. Base + (pos[s] + done) = start[s] + (delivered[s] + done) + dropped[s]
          BY <3>2, <5>1, SMT
        <5>3. QED  BY <3>1, <4>2, <5>1, <5>2 DEF Books
      <4>3. CASE s \in close_flg
        <5>1. /\ stop[s] - remain_to_close[s] = start[s] + delivered[s] + dropped[s]
              /\ dropped[s] >= 0
          BY <4>1, <4>3 DEF Books
        <5>2. stop[s] - (remain_to_close[s] - done) = start[s] + (delivered[s] + done) + dropped[s]
          BY <3>2, <5>1, SMT
        <5>3. ~(remain_to_close[s] - done < 0)
          <6>1. done <= remain_to_close[s]  BY <2>1, <4>3
          <6>2. QED  BY <3>2, <6>1, SMT
        <5>4. QED  BY <3>1, <4>3, <5>1, <5>2, <5>3 DEF Books
      <4>4. QED  BY <4>2, <4>3
    <3>8. QED  BY <3>4, <3>5, <3>6, <3>7 DEF Reader
  <2>8. QED  BY <2>3, <2>4, <2>5, <2>6, <2>7 DEF IInv
<1>6. QED  BY <1>4, <1>5, SMT

LEMMA EndOutputStep ==
  ASSUME IInv, EndOutput
  PROVE  IInv'
<1>1. /\ IsFiniteSet(in_use) /\ ToClose \subseteq in_use /\ in_use \subseteq Slots
      /\ scan # Deleted
  <2>1. IsFiniteSet(Slots)  BY SizeAssumption, FS_Interval, SMT DEF Slots
  <2>2. CheckClose # Deleted  BY SizeAssumption, SMT DEF CheckClose, Deleted
  <2>3. QED  BY <2>1, <2>2, FS_Subset DEF IInv, TypeOK, ToClose, EndOutput
<1>2. /\ Cardinality(ToClose) \in Nat
      /\ Cardinality(ToClose) <= Cardinality(in_use)
      /\ Cardinality(in_use \ ToClose) = Cardinality(in_use) - Cardinality(ToClose)
  <2>1. IsFiniteSet(ToClose) /\ Cardinality(ToClose) <= Cardinality(in_use)
    BY <1>1, FS_Subset
  <2>2. in_use \cap ToClose = ToClose  BY <1>1
  <2>3. QED  BY <1>1, <2>1, <2>2, FS_CardinalityType, FS_Difference
<1>3. n_downstreams = Cardinality(in_use) /\ n_downstreams' = n_downstreams - Cardinality(ToClose)
  BY <1>1 DEF IInv, CountedInUse, EndOutput, NClosed
<1>4. TypeOK'
  <2>1. n_downstreams' \in 0 .. MaxDownstreams
    BY <1>2, <1>3, SizeAssumption, SMT DEF IInv, TypeOK
  <2>2. opt' \in [Slots -> Option]
    BY SMT DEF IInv, TypeOK, EndOutput, NoOption, Option
  <2>3. pos' \in [Slots -> Nat]  BY SMT DEF IInv, TypeOK, EndOutput
  <2>4. /\ remain_to_close' \in [Slots -> Int] /\ remain_unaligned' \in [Slots -> Nat]
        /\ start' \in [Slots -> Nat] /\ stop' \in [Slots -> Nat]
        /\ delivered' \in [Slots -> Nat] /\ dropped' \in [Slots -> Int]
    BY SMT DEF IInv, TypeOK, EndOutput, Forget
  <2>5. QED
    BY <2>1, <2>2, <2>3, <2>4 DEF IInv, TypeOK, EndOutput, buffer
<1>5. Ring'
  BY DEF IInv, Ring, RingAddress, Base, EndOutput, buffer
<1>6. CountedInUse'
  BY <1>2, <1>3 DEF CountedInUse, EndOutput
<1>7. (NoRetval => carry = 0)'
  BY DEF EndOutput
<1>8. ASSUME NEW t \in in_use' PROVE Reader(t)'
  <2>1. t \in in_use /\ t \in Slots /\ t \notin ToClose /\ Reader(t)
    BY <1>1 DEF EndOutput, IInv
  <2>2. /\ opt'[t] = opt[t] /\ AlignOf(t)' = AlignOf(t)
        /\ remain_to_close'[t] = remain_to_close[t]
        /\ remain_unaligned'[t] = remain_unaligned[t]
        /\ start'[t] = start[t] /\ stop'[t] = stop[t]
        /\ delivered'[t] = delivered[t] /\ dropped'[t] = dropped[t]
        /\ t \in close_flg' <=> t \in close_flg
        /\ buf_used' = buf_used /\ input_total' = input_total
    BY <2>1 DEF EndOutput, Forget, buffer, AlignOf
  <2>3. CASE ~Drained(t)
    <3>1. pos'[t] = pos[t]  BY <2>1, <2>3 DEF EndOutput
    <3>2. QED  BY <1>8, <2>1, <2>2, <3>1, ReaderFrame
  <2>4. CASE Drained(t)
    <3>1. Settings(t)'  BY <2>1, <2>2 DEF Reader, Settings
    <3>2. Inside(t)'  BY <2>2, <2>4 DEF Inside, Live, Drained
    <3>3. remain_to_close[t] \in Int /\ ~(remain_to_close[t] > 0)
      BY <2>1, <2>4, SMT DEF Drained, IInv, TypeOK
    <3>4. Closing(t)'  BY <2>2, <3>3 DEF Closing
    <3>5. Books(t)'  BY <2>1, <2>2, <2>4 DEF Reader, Books, Drained
    <3>6. QED  BY <3>1, <3>2, <3>4, <3>5 DEF Reader
  <2>5. QED  BY <2>3, <2>4
<1>9. QED  BY <1>4, <1>5, <1>6, <1>7, <1>8 DEF IInv

LEMMA DisconnectStep ==
  ASSUME IInv, NEW s \in Slots, Disconnect(s)
  PROVE  IInv'
<1> DEFINE r == remain_unaligned[s]
           remain == RemainAtClose(s)
<1>1. /\ s \in in_use /\ s \notin close_flg /\ Live(s) /\ Reader(s)
  BY DEF IInv, Disconnect, Live, Drained
<1>2. /\ r \in Nat /\ pos[s] \in Nat /\ start[s] \in Nat /\ buf_used \in Nat
      /\ Base \in Nat /\ AlignOf(s) \in Nat \ {0} /\ input_total \in Nat
      /\ remain_to_close \in [Slots -> Int] /\ stop \in [Slots -> Nat]
  BY AlignOfType, SMT DEF IInv, Ring, TypeOK, Base
<1>3. /\ pos[s] + r <= buf_used
      /\ (Base + pos[s] + r - start[s]) % AlignOf(s) = 0
  BY <1>1 DEF Reader, Inside
<1>4. PICK x \in Int : x = Avail(s) - r /\ x >= 0  BY <1>2, <1>3, SMT DEF Avail
<1>5. PICK f \in Int : f = AlignFloor(x, AlignOf(s))  BY <1>2, <1>4, FloorFacts
<1>6. f % AlignOf(s) = 0 /\ 0 <= f /\ f <= x
  BY <1>2, <1>4, <1>5, FloorFacts
<1>7. remain = f + r
  <2>1. ~opt[s].use_retval => r = 0  BY <1>1 DEF Reader, Settings
  <2>2. remain = AlignFloor(Avail(s) - r, AlignOf(s)) + r  BY <2>1 DEF RemainAtClose
  <2>3. QED  BY <1>4, <1>5, <2>2
<1> HIDE DEF r, remain
<1>8. PICK end \in Nat : /\ end = Base + pos[s] + remain
                         /\ end <= input_total
                         /\ remain \in Nat
  BY <1>2, <1>3, <1>4, <1>6, <1>7, SMT DEF Avail, Base
<1>9. /\ close_flg' = close_flg \cup {s}
      /\ remain_to_close' = [remain_to_close EXCEPT ![s] = remain]
      /\ stop' = [stop EXCEPT ![s] = end]
      /\ UNCHANGED <<buffer, n_downstreams, in_use, busy, opt, pos,
                     remain_unaligned, pass, start, delivered, dropped>>
  BY <1>8 DEF Disconnect, remain
<1>10. TypeOK'
  <2>1. remain_to_close' \in [Slots -> Int] /\ stop' \in [Slots -> Nat]
    BY <1>2, <1>8, <1>9, SMT
  <2>2. QED  BY <1>9, <2>1 DEF IInv, TypeOK, buffer, pass
<1>11. Ring' /\ CountedInUse' /\ (NoRetval => carry = 0)'
  BY <1>9 DEF IInv, Ring, RingAddress, Base, CountedInUse, NoRetval, buffer, pass
<1>12. ASSUME NEW t \in in_use', t # s PROVE Reader(t)'
  <2>1. t \in in_use /\ t \in Slots /\ Reader(t)
    BY <1>9 DEF IInv, TypeOK
  <2>2. QED
    BY <1>2, <1>9, <1>12, <2>1, ReaderFrame DEF buffer
<1>13. Reader(s)'
  <2>1. /\ s \in close_flg' /\ remain_to_close'[s] = remain /\ stop'[s] = end
        /\ opt'[s] = opt[s] /\ AlignOf(s)' = AlignOf(s) /\ pos'[s] = pos[s]
        /\ remain_unaligned'[s] = r /\ start'[s] = start[s]
        /\ delivered'[s] = delivered[s] /\ dropped'[s] = dropped[s]
        /\ buf_used' = buf_used /\ input_total' = input_total /\ Base' = Base
    BY <1>2, <1>9 DEF buffer, AlignOf, Base, r
  <2>2. Settings(s)'  BY <1>1, <2>1 DEF Reader, Settings, r
  <2>3. Inside(s)'  BY <1>3, <2>1 DEF Inside
  <2>4. Closing(s)'
    <3>1. PICK d \in Int : /\ d = Base + pos[s] + r - start[s]
                           /\ d % AlignOf(s) = 0
      BY <1>2, <1>3, SMT
    <3>2. (d + f) % AlignOf(s) = 0  BY <1>2, <1>6, <3>1, ModAdd
    <3>3. d + f = end - start[s]  BY <1>2, <1>7, <1>8, <3>1, SMT
    <3>4. QED  BY <1>8, <2>1, <3>2, <3>3 DEF Closing
  <2>5. Books(s)'
    <3>1. /\ Base + pos[s] = start[s] + delivered[s] + dropped[s]
          /\ dropped[s] >= 0
      BY <1>1 DEF Reader, Books
    <3>2. end - remain = Base + pos[s] /\ ~(remain < 0)  BY <1>2, <1>8, SMT
    <3>3. QED  BY <2>1, <3>1, <3>2 DEF Books
  <2>6. QED  BY <2>2, <2>3, <2>4, <2>5 DEF Reader
<1>14. QED  BY <1>10, <1>11, <1>12, <1>13 DEF IInv

LEMMA DisconnectNowStep ==
  ASSUME IInv, NEW s \in Slots, DisconnectNow(s)
  PROVE  IInv'
<1>1. /\ s \in in_use /\ s \in close_flg /\ Reader(s)
  BY DEF IInv, DisconnectNow
<1>2. /\ remain_to_close \in [Slots -> Int] /\ dropped \in [Slots -> Int]
      /\ start[s] \in Nat /\ stop[s] \in Nat /\ delivered[s] \in Nat
  BY DEF IInv, TypeOK
<1>3. /\ dropped' = [dropped EXCEPT ![s] = @ + remain_to_close[s]]
      /\ remain_to_close' = [remain_to_close EXCEPT ![s] = 0]
      /\ UNCHANGED <<buffer, slots, pos, remain_unaligned, pass, start, stop, delivered>>
  BY DEF DisconnectNow
<1>4. TypeOK'
  <2>1. remain_to_close' \in [Slots -> Int] /\ dropped' \in [Slots -> Int]
    BY <1>2, <1>3, SMT
  <2>2. QED  BY <1>3, <2>1 DEF IInv, TypeOK, buffer, slots, pass
<1>5. Ring' /\ CountedInUse' /\ (NoRetval => carry = 0)'
  BY <1>3 DEF IInv, Ring, RingAddress, Base, CountedInUse, NoRetval, buffer, slots, pass
<1>6. ASSUME NEW t \in in_use', t # s PROVE Reader(t)'
  <2>1. t \in in_use /\ t \in Slots /\ Reader(t)
    BY <1>3 DEF IInv, TypeOK, slots
  <2>2. QED
    BY <1>2, <1>3, <1>6, <2>1, ReaderFrame DEF buffer, slots
<1>7. Reader(s)'
  <2>1. /\ s \in close_flg' /\ remain_to_close'[s] = 0
        /\ dropped'[s] = dropped[s] + remain_to_close[s]
        /\ opt'[s] = opt[s] /\ AlignOf(s)' = AlignOf(s)
        /\ remain_unaligned'[s] = remain_unaligned[s]
        /\ start'[s] = start[s] /\ stop'[s] = stop[s] /\ delivered'[s] = delivered[s]
    BY <1>1, <1>2, <1>3 DEF slots, AlignOf
  <2>2. Settings(s)'  BY <1>1, <2>1 DEF Reader, Settings
  <2>3. Inside(s)' /\ Closing(s)'
    BY <2>1, SMT DEF Inside, Live, Drained, Closing
  <2>4. Books(s)'
    <3>1. /\ stop[s] - remain_to_close[s] = start[s] + delivered[s] + dropped[s]
          /\ dropped[s] >= 0
          /\ remain_to_close[s] < 0 => dropped[s] + remain_to_close[s] > 0
      BY <1>1 DEF Reader, Books
    <3>2. /\ stop[s] - 0 = start[s] + delivered[s] + (dropped[s] + remain_to_close[s])
          /\ dropped[s] + remain_to_close[s] >= 0
          /\ ~(0 < 0)
      BY <1>2, <3>1, SMT
    <3>3. QED  BY <2>1, <3>2 DEF Books
  <2>5. QED  BY <2>2, <2>3, <2>4 DEF Reader
<1>8. QED  BY <1>4, <1>5, <1>6, <1>7 DEF IInv

LEMMA CloseBufStep ==
  ASSUME IInv, CloseBuf
  PROVE  IInv'
<1>1. TypeOK'
  BY DEF IInv, TypeOK, CloseBuf, buffer, cursor, ghost
<1>2. Ring' /\ CountedInUse' /\ (NoRetval => carry = 0)'
  BY DEF IInv, Ring, RingAddress, Base, CountedInUse, NoRetval, CloseBuf, buffer
<1>3. in_use' = {}  BY DEF CloseBuf
<1>4. QED  BY <1>1, <1>2, <1>3 DEF IInv

(* A step that changes nothing.                                            *)
LEMMA StutterStep ==
  ASSUME IInv, UNCHANGED vars
  PROVE  IInv'
<1>1. TypeOK' /\ Ring' /\ CountedInUse' /\ (NoRetval => carry = 0)'
  BY DEF IInv, TypeOK, Ring, RingAddress, Base, CountedInUse, NoRetval,
         vars, buffer, slots, cursor, pass, ghost
<1>2. ASSUME NEW t \in in_use' PROVE Reader(t)'
  <2>1. t \in in_use /\ t \in Slots /\ Reader(t)
    BY DEF IInv, TypeOK, vars, slots
  <2>2. QED  BY <2>1, ReaderFrame DEF vars, buffer, slots, cursor, pass, ghost
<1>3. QED  BY <1>1, <1>2 DEF IInv

LEMMA NextIInv ==
  ASSUME IInv, [Next]_vars
  PROVE  IInv'
<1>1. ASSUME NEW s \in Slots, NEW o \in Options, NEW b \in Backwards, Connect(s, o, b)
      PROVE  IInv'
  <2>1. b \in Nat  BY InputAssumption
  <2>2. QED  BY <1>1, <2>1, ConnectStep
<1>2. ASSUME NEW n \in ClearSizes, ClearBuf(n) PROVE IInv'
  BY <1>2, ClearBufStep
<1>3. ASSUME NEW n \in InputSizes, InputBuf(n) PROVE IInv'
  BY <1>3, InputBufStep
<1>4. CASE BeginOutput  BY <1>4, BeginOutputStep
<1>5. CASE EndOutput  BY <1>5, EndOutputStep
<1>6. ASSUME NEW s \in Slots, VisitHeldBack(s) PROVE IInv'
  BY <1>6, VisitHeldBackStep
<1>7. ASSUME NEW s \in Slots, VisitBusy(s, opt[s].maxsize) PROVE IInv'
  <2>1. opt[s].maxsize \in Nat  BY DEF IInv, TypeOK, Option
  <2>2. QED  BY <1>7, <2>1, VisitBusyStep
<1>8. ASSUME NEW s \in Slots, NEW done \in 0 .. BufSize, VisitWrite(s, opt[s].maxsize, done)
      PROVE  IInv'
  <2>1. opt[s].maxsize \in Nat  BY DEF IInv, TypeOK, Option
  <2>2. done \in Nat  BY SMT
  <2>3. QED  BY <1>8, <2>1, <2>2, VisitWriteStep
<1>9. ASSUME NEW s \in Slots, Disconnect(s) PROVE IInv'
  BY <1>9, DisconnectStep
<1>10. ASSUME NEW s \in Slots, DisconnectNow(s) PROVE IInv'
  BY <1>10, DisconnectNowStep
<1>11. CASE CloseBuf  BY <1>11, CloseBufStep
<1>12. CASE Terminated  BY <1>12, StutterStep DEF Terminated
<1>13. CASE UNCHANGED vars  BY <1>13, StutterStep
<1>14. QED
  BY <1>1, <1>2, <1>3, <1>4, <1>5, <1>6, <1>7, <1>8, <1>9, <1>10, <1>11, <1>12, <1>13
     DEF Next, Output

-----------------------------------------------------------------------------
(* Every reachable state of the buffer, whatever the sizes and the         *)
(* handlers' answers, satisfies the inductive invariant.                   *)
THEOREM Invariance == Spec => []IInv
<1>1. Init => IInv  BY InitIInv
<1>2. IInv /\ [Next]_vars => IInv'  BY NextIInv
<1>3. QED  BY <1>1, <1>2, PTL DEF Spec

(* No count of advanced_buffer.c that is used as a size or an offset ever  *)
(* goes negative, and the slots keep their types.                          *)
THEOREM TypeCorrect == Spec => []TypeOK
<1>1. IInv => TypeOK  BY DEF IInv
<1>2. QED  BY <1>1, Invariance, PTL

(* ab_clear_buf keeps every byte at its address of the ring, and no input  *)
(* reaches past the second mapping of the magic ring buffer.               *)
THEOREM RingStaysAddressed == Spec => []RingAddress
<1>1. IInv => RingAddress  BY DEF IInv, Ring
<1>2. QED  BY <1>1, Invariance, PTL

(* n_downstreams is the number of slots in use, over connections and       *)
(* closes in any order.                                                    *)
THEOREM CountIsRight == Spec => []CountedInUse
<1>1. IInv => CountedInUse  BY DEF IInv
<1>2. QED  BY <1>1, Invariance, PTL

(* However far ab_clear_buf makes a downstream skip, the packet it has     *)
(* begun is still in the buffer.                                           *)
THEOREM PacketStaysInBuffer == Spec => []ReadsInBuffer
<1>1. IInv => ReadsInBuffer  BY DEF IInv, Reader, Inside, ReadsInBuffer
<1>2. QED  BY <1>1, Invariance, PTL

(* ab_output_buf never hands a downstream bytes past the end of the data.  *)
THEOREM WriteStaysInBuffer == Spec => []WritesInBuffer
<1>1. ASSUME IInv PROVE WritesInBuffer
  <2> SUFFICES ASSUME NEW s \in in_use
               PROVE  LET w == WriteSize(s, opt[s].maxsize)
                      IN  w <= 0 \/ pos[s] + w <= buf_used
    BY DEF WritesInBuffer
  <2>1. /\ s \in Slots /\ opt[s].maxsize \in Nat /\ pos[s] \in Nat
        /\ buf_used \in Nat /\ remain_to_close[s] \in Int
    BY <1>1 DEF IInv, TypeOK, Option
  <2>2. PICK w \in Int : w = WriteSize(s, opt[s].maxsize)
    BY <1>1, <2>1, WriteSizeFacts
  <2>3. /\ Live(s) => w <= Avail(s)
        /\ s \in close_flg => w <= remain_to_close[s]
    BY <1>1, <2>1, <2>2, WriteSizeFacts
  <2>4. CASE Live(s)  BY <2>1, <2>2, <2>3, <2>4, SMT DEF Avail
  <2>5. CASE ~Live(s)  BY <2>1, <2>2, <2>3, <2>5, SMT DEF Live, Drained
  <2>6. QED  BY <2>4, <2>5
<1>2. QED  BY <1>1, Invariance, PTL

(* No input, skip or output reaches outside the data.                      *)
THEOREM NothingOutsideBuffer == Spec => []StaysInBuffer
BY RingStaysAddressed, PacketStaysInBuffer, WriteStaysInBuffer, PTL DEF StaysInBuffer

(* What a downstream was given, what it was told it missed and what is     *)
(* still to come add up to the whole stream since it was connected.        *)
THEOREM EveryByteAccountedFor == Spec => []Accounting
<1>1. IInv => Accounting  BY DEF IInv, Reader, Books, Accounting
<1>2. QED  BY <1>1, Invariance, PTL

(* The close point ab_disconnect_downstream computes stays where it was,   *)
(* over partial writes and skips.                                          *)
THEOREM ClosePointStays == Spec => []StopsAtClosePoint
<1>1. ASSUME IInv PROVE StopsAtClosePoint
  <2> SUFFICES ASSUME NEW s \in in_use, Live(s), s \in close_flg
               PROVE  /\ Base + pos[s] + remain_to_close[s] = stop[s]
                      /\ stop[s] <= input_total
    BY DEF StopsAtClosePoint
  <2>1. remain_to_close[s] > 0
    BY <1>1, SMT DEF IInv, TypeOK, Live, Drained
  <2>2. QED  BY <1>1, <2>1 DEF IInv, Reader, Closing
<1>2. QED  BY <1>1, Invariance, PTL

(* Everything from its connection to its close point is accounted for.     *)
THEOREM EverythingAccountedFor == Spec => []AccountBalances
BY EveryByteAccountedFor, ClosePointStays, PTL DEF AccountBalances

(* An aligned downstream keeps its packet boundary, and is closed at one.  *)
THEOREM PacketsStayFramed == Spec => []Framing
<1>1. ASSUME IInv PROVE Framing
  <2> SUFFICES ASSUME NEW s \in in_use, Live(s), opt[s].aligned
               PROVE  /\ remain_unaligned[s] < Align
                      /\ (Base + pos[s] + remain_unaligned[s] - start[s]) % Align = 0
                      /\ s \in close_flg => (stop[s] - start[s]) % Align = 0
    BY DEF Framing
  <2>1. AlignOf(s) = Align  BY DEF AlignOf
  <2>2. s \in close_flg => remain_to_close[s] > 0
    BY <1>1, SMT DEF IInv, TypeOK, Live, Drained
  <2>3. QED  BY <1>1, <2>1, <2>2 DEF IInv, Reader, Settings, Inside, Closing
<1>2. QED  BY <1>1, Invariance, PTL

(* The assertion on write_size in ab_output_buf holds for every downstream *)
(* that is not being cut off.                                              *)
THEOREM WriteEndsAtPacket == Spec => []WritesPackets
<1>1. ASSUME IInv PROVE WritesPackets
  <2> SUFFICES ASSUME NEW s \in in_use, Live(s), opt[s].aligned
               PROVE  (WriteSize(s, opt[s].maxsize) - Unaligned(s)) % Align = 0
    BY DEF WritesPackets
  <2>1. opt[s].maxsize \in Nat  BY <1>1 DEF IInv, TypeOK, Option
  <2>2. AlignOf(s) = Align  BY DEF AlignOf
  <2>3. Unaligned(s) = remain_unaligned[s]  BY <1>1, UnalignedIsOwn
  <2>4. QED  BY <1>1, <2>1, <2>2, <2>3, WriteSizeFacts
<1>2. QED  BY <1>1, Invariance, PTL

(* Packets stay whole: what is kept of them, and every write.              *)
THEOREM PacketsStayWhole == Spec => []PacketsWhole
BY PacketsStayFramed, WriteEndsAtPacket, PTL DEF PacketsWhole

-----------------------------------------------------------------------------
(* A downstream that was never made to skip has been given everything      *)
(* between its connection and its close point when check_close closes it.  *)
THEOREM ClosesWithEverything == Spec => ClosesComplete
<1> DEFINE Complete == \A s \in in_use \ in_use' : scan' # Deleted /\ dropped[s] = 0 =>
                         delivered[s] = stop[s] - start[s]
<1>1. ASSUME IInv, Next PROVE Complete
  <2> SUFFICES ASSUME NEW s \in in_use \ in_use', scan' # Deleted, dropped[s] = 0
               PROVE  delivered[s] = stop[s] - start[s]
    OBVIOUS
  <2>1. EndOutput
    BY <1>1 DEF Next, Output, Connect, ClearBuf, InputBuf, BeginOutput, VisitHeldBack,
                VisitBusy, VisitWrite, Visit, Disconnect, DisconnectNow, CloseBuf,
                Terminated, vars, slots
  <2>2. s \in ToClose  BY <2>1 DEF EndOutput
  <2>3. s \in close_flg /\ remain_to_close[s] <= 0  BY <2>2 DEF ToClose, Drained
  <2>4. /\ stop[s] - remain_to_close[s] = start[s] + delivered[s] + dropped[s]
        /\ remain_to_close[s] < 0 => dropped[s] + remain_to_close[s] > 0
    BY <1>1, <2>3 DEF IInv, Reader, Books
  <2>5. /\ remain_to_close[s] \in Int /\ stop[s] \in Nat /\ start[s] \in Nat
        /\ delivered[s] \in Nat
    BY <1>1 DEF IInv, TypeOK
  <2>6. remain_to_close[s] = 0  BY <2>3, <2>4, <2>5, SMT
  <2>7. QED  BY <2>4, <2>5, <2>6, SMT
<1>2. IInv /\ [Next]_vars => [Complete]_vars  BY <1>1
<1>3. QED  BY <1>2, Invariance, PTL DEF Spec, ClosesComplete

(* An input costs a downstream bytes only when that very downstream is a   *)
(* whole buffer behind, and then no more of them than the packets require. *)
THEOREM DropsAreNeeded == Spec => DropsOnlyTheOverflow
<1> DEFINE Needed ==
      \A s \in in_use : dropped'[s] > dropped[s] /\ input_total' > input_total =>
        /\ input_total' - (Base + pos[s]) > BufSize
        /\ input_total' - (Base' + pos'[s]) > BufSize - Align
<1>1. ASSUME IInv, Next PROVE Needed
  <2> SUFFICES ASSUME NEW s \in in_use,
                      dropped'[s] > dropped[s], input_total' > input_total
               PROVE  /\ input_total' - (Base + pos[s]) > BufSize
                      /\ input_total' - (Base' + pos'[s]) > BufSize - Align
    OBVIOUS
  <2>1. /\ s \in Slots /\ pos[s] \in Nat /\ dropped[s] \in Int
        /\ input_total \in Nat /\ buf_used \in Nat /\ BufSize \in Nat /\ Align \in Nat \ {0}
        /\ AlignOf(s) \in Nat /\ AlignOf(s) <= Align
    BY <1>1, SizeAssumption, AlignOfType DEF IInv, TypeOK
  <2>2. dropped'[s] # dropped[s] /\ input_total' # input_total
    BY <2>1, SMT
  <2>3. PICK size \in InputSizes : InputBuf(size)
    BY <1>1, <2>2 DEF Next, Output, Connect, ClearBuf, BeginOutput, VisitHeldBack,
                VisitBusy, VisitWrite, Visit, EndOutput, Disconnect, DisconnectNow,
                CloseBuf, Terminated, vars, buffer
  <2>4. buf_used + size > BufSize  BY <2>2, <2>3 DEF InputBuf
  <2>5. PICK low \in Unread : /\ \A p \in Unread : low <= p
                              /\ ClearAndInput(low, size, size)
    BY <2>3, <2>4 DEF InputBuf
  <2> DEFINE clear == ClearSize(low, size)
  <2>6. size \in Nat /\ size + 2 * (Align - 1) <= BufSize  BY InputAssumption
  <2>7. /\ clear \in 0 .. buf_used
        /\ pos[s] < clear => buf_used - clear = BufSize - size
    BY <1>1, <2>5, <2>6, ClearSizeFacts
  <2>8. /\ buf_used' = buf_used - clear + size
        /\ pos'[s] = IF Live(s) THEN pos[s] - clear + Skip(s, clear) ELSE pos[s]
        /\ dropped'[s] = dropped[s] + Skip(s, clear)
        /\ input_total' = input_total + size
    BY <2>1, <2>3, <2>5 DEF ClearAndInput, ClearSize, InputBuf
  <2> HIDE DEF clear
  <2>9. clear \in Nat  BY <2>7, SMT
  <2>10. /\ Skip(s, clear) \in Nat
         /\ Skip(s, clear) > 0 => Live(s) /\ clear > pos[s]
         /\ Skip(s, clear) > 0 => pos[s] - clear + Skip(s, clear) <= AlignOf(s) - 1
    BY <1>1, <2>1, <2>9, SkipFacts DEF IInv
  <2>11. Skip(s, clear) > 0  BY <2>1, <2>8, <2>10, SMT
  <2>12. /\ pos[s] < clear
         /\ pos'[s] = pos[s] - clear + Skip(s, clear)
         /\ pos'[s] <= AlignOf(s) - 1
    BY <2>1, <2>8, <2>9, <2>10, <2>11, SMT
  <2>13. buf_used - clear = BufSize - size  BY <2>7, <2>12
  <2>14. buf_used' = BufSize  BY <2>1, <2>6, <2>8, <2>9, <2>13, SMT
  <2>15. PICK total \in Int : total = input_total + size  BY <2>1, <2>6, SMT
  <2>16. PICK base \in Int : base = Base  BY <2>1, SMT DEF Base
  <2>17. PICK at \in Int : at = pos'[s] /\ at <= AlignOf(s) - 1
    BY <2>1, <2>9, <2>10, <2>12, SMT
  <2>18. input_total' = total /\ Base' = total - BufSize
    BY <2>8, <2>14, <2>15 DEF Base
  <2>19. total - (base + pos[s]) > BufSize
    BY <2>1, <2>6, <2>9, <2>12, <2>13, <2>15, <2>16, SMT DEF Base
  <2>20. total - (total - BufSize + at) > BufSize - Align
    BY <2>1, <2>15, <2>17, SMT
  <2>21. QED  BY <2>16, <2>17, <2>18, <2>19, <2>20
<1>2. IInv /\ [Next]_vars => [Needed]_vars  BY <1>1
<1>3. QED  BY <1>2, Invariance, PTL DEF Spec, DropsOnlyTheOverflow
-----------------------------------------------------------------------------
(***************************************************************************)
(* The ring buffer implements the abstract stream, for any number of       *)
(* downstreams, any sizes and any answers of the handlers: every step of   *)
(* AdvancedBuffer is, through the mapping of BufferTap, a step of          *)
(* StreamTap or leaves what StreamTap shows as it is.                      *)
(***************************************************************************)

(* What the abstract readers show. *)
Heads == [s \in Slots |-> NextByte(s)]
Ends == [s \in Slots |-> EndByte(s)]
Ending == in_use \cap close_flg

(* The mapping needs the inductive invariant of the buffer, and the length *)
(* of the stream its bound.                                                *)
TInv == IInv /\ input_total <= MaxTotal

LEMMA TInvAlways == Spec => []TInv
<1>1. Init => TInv
  BY InitIInv, SizeAssumption, SMT DEF Init, TInv
<1>2. ASSUME TInv, [Next]_vars PROVE TInv'
  <2>1. IInv'  BY <1>2, NextIInv DEF TInv
  <2>2. CASE UNCHANGED input_total  BY <1>2, <2>1, <2>2 DEF TInv
  <2>3. CASE \E n \in InputSizes : InputBuf(n)
    BY <2>1, <2>3 DEF TInv, InputBuf
  <2>4. UNCHANGED input_total \/ \E n \in InputSizes : InputBuf(n)
    BY <1>2 DEF Next, Output, vars, buffer, Connect, ClearBuf, BeginOutput, EndOutput,
       VisitHeldBack, VisitBusy, VisitWrite, Disconnect, DisconnectNow, CloseBuf, Terminated
  <2>5. QED  BY <2>2, <2>3, <2>4
<1>3. QED  BY <1>1, <1>2, PTL DEF Spec

-----------------------------------------------------------------------------
(* The next byte of a downstream: where its pos is while it has something  *)
(* to read, its close point afterwards, however far a skip went beyond it. *)
LEMMA NextByteFacts ==
  ASSUME IInv, NEW s \in in_use
  PROVE  /\ NextByte(s) \in Nat
         /\ s \notin close_flg => NextByte(s) = Base + pos[s]
         /\ s \in close_flg => NextByte(s) = IF remain_to_close[s] > 0
                                             THEN stop[s] - remain_to_close[s]
                                             ELSE stop[s]
         /\ Live(s) => NextByte(s) = Base + pos[s]
         /\ s \in close_flg => EndByte(s) = stop[s]
<1>1. /\ s \in Slots /\ pos[s] \in Nat /\ Base \in Nat /\ stop[s] \in Nat
      /\ remain_to_close[s] \in Int /\ start[s] \in Nat /\ delivered[s] \in Nat
      /\ dropped[s] \in Int
  BY SMT DEF IInv, TypeOK, Ring, Base
<1>2. Books(s) /\ Closing(s)  BY DEF IInv, Reader
<1>3. CASE s \notin close_flg
  <2>1. NextByte(s) = Base + pos[s]  BY <1>3 DEF NextByte
  <2>2. QED  BY <1>1, <1>3, <2>1, SMT
<1>4. CASE s \in close_flg /\ remain_to_close[s] > 0
  <2>1. NextByte(s) = stop[s] - remain_to_close[s]
    BY <1>1, <1>4, SMT DEF NextByte
  <2>2. /\ Base + pos[s] + remain_to_close[s] = stop[s]
    BY <1>2, <1>4 DEF Closing
  <2>3. stop[s] - remain_to_close[s] = Base + pos[s]  BY <1>1, <2>2, SMT
  <2>4. Base + pos[s] \in Nat  BY <1>1, SMT
  <2>5. QED  BY <1>4, <2>1, <2>3, <2>4 DEF EndByte
<1>5. CASE s \in close_flg /\ ~(remain_to_close[s] > 0)
  <2>1. remain_to_close[s] < 0 => dropped[s] > 0
    BY <1>1, <1>2, <1>5, SMT DEF Books
  <2>2. remain_to_close[s] = 0 => stop[s] - remain_to_close[s] = stop[s]
    BY <1>1, SMT
  <2>3. remain_to_close[s] < 0 \/ remain_to_close[s] = 0  BY <1>1, <1>5, SMT
  <2>4. NextByte(s) = stop[s]  BY <1>5, <2>1, <2>2, <2>3 DEF NextByte
  <2>5. ~Live(s)  BY <1>1, <1>5, SMT DEF Live, Drained
  <2>6. QED  BY <1>1, <1>5, <2>4, <2>5 DEF EndByte
<1>6. QED  BY <1>3, <1>4, <1>5

LEMMA HeadsType ==
  ASSUME IInv
  PROVE  Heads \in [Slots -> Nat]
<1>1. ASSUME NEW s \in Slots PROVE NextByte(s) \in Nat
  <2>1. CASE s \in in_use  BY <2>1, NextByteFacts
  <2>2. CASE s \notin in_use  BY <2>2 DEF NextByte
  <2>3. QED  BY <2>1, <2>2
<1>2. QED  BY <1>1 DEF Heads

(* A downstream a step leaves alone shows the same. *)
LEMMA ShowsTheSame ==
  ASSUME NEW s \in Slots,
         s \in in_use <=> s \in in_use',
         s \in close_flg <=> s \in close_flg',
         remain_to_close'[s] = remain_to_close[s],
         dropped'[s] = dropped[s], stop'[s] = stop[s],
         s \notin close_flg => Base' + pos'[s] = Base + pos[s]
  PROVE  NextByte(s)' = NextByte(s) /\ EndByte(s)' = EndByte(s)
BY DEF NextByte, EndByte

LEMMA InitTap == Init => Tap!Init
BY DEF Init, Tap!Init, NextByte, EndByte

(* A step that leaves all that is shown as it is. *)
LEMMA HiddenStep ==
  ASSUME UNCHANGED <<buffer, in_use, close_flg, pos, remain_to_close, dropped, stop>>
  PROVE  UNCHANGED Tap!vars
BY DEF buffer, Tap!vars, NextByte, EndByte, Base

LEMMA ConnectTap ==
  ASSUME TInv, NEW s \in Slots, NEW o \in Options, NEW backward \in Backwards,
         Connect(s, o, backward)
  PROVE  Tap!Next
<1> DEFINE at == Raised(buf_used + ConnectDiff(o, backward))
           p == Base + at
<1>1. at \in 0 .. buf_used
  BY OptionAssumption, InputAssumption, ConnectAt DEF Connect, TInv
<1>2. p \in 0 .. MaxTotal /\ p <= input_total
  <2>1. buf_used \in Nat /\ input_total \in Nat /\ buf_used <= input_total
        /\ input_total <= MaxTotal /\ MaxTotal \in Nat
    BY SizeAssumption DEF TInv, IInv, TypeOK, Ring
  <2> HIDE DEF at
  <2>2. QED  BY <1>1, <2>1, SMT DEF Base
<1>3. /\ s \notin in_use /\ in_use' = in_use \cup {s} /\ close_flg' = close_flg \ {s}
      /\ pos' = [pos EXCEPT ![s] = at] /\ pos \in [Slots -> Nat]
      /\ Base' = Base /\ input_total' = input_total
      /\ UNCHANGED <<remain_to_close, stop>>
      /\ dropped' = [dropped EXCEPT ![s] = 0] /\ dropped \in [Slots -> Int]
  BY DEF Connect, TInv, IInv, TypeOK, buffer, Base
<1> HIDE DEF at
<1>4. NextByte(s)' = p /\ EndByte(s)' = 0 /\ EndByte(s) = 0
  BY <1>3 DEF NextByte, EndByte
<1>5. ASSUME NEW t \in Slots, t # s
      PROVE  NextByte(t)' = NextByte(t) /\ EndByte(t)' = EndByte(t)
  BY <1>3, <1>5, ShowsTheSame
<1> HIDE DEF p
<1>6. Heads' = [Heads EXCEPT ![s] = p] /\ Ends' = Ends
  BY <1>4, <1>5 DEF Heads, Ends
<1>7. Ending' = Ending  BY <1>3 DEF Ending
<1>8. Tap!Attach(s, p)
  BY <1>2, <1>3, <1>6, <1>7 DEF Tap!Attach, Heads, Ends, Ending
<1>9. QED  BY <1>2, <1>8 DEF Tap!Next

-----------------------------------------------------------------------------
(* A downstream that a clearing makes skip is a reader overtaken by the    *)
(* bytes room is made for; the others show the same.                       *)
LEMMA SkippedTap ==
  ASSUME IInv, NEW require \in Nat, require + 2 * (Align - 1) <= BufSize,
         NEW size \in {0, require},
         NEW low \in Unread, \A p \in Unread : low <= p,
         ClearAndInput(low, require, size),
         input_total' = input_total + size,
         UNCHANGED <<slots, stop>>,
         NEW s \in Slots
  PROVE  \/ NextByte(s)' = NextByte(s)
         \/ /\ s \in in_use
            /\ (input_total + require) - NextByte(s) > BufSize
            /\ NextByte(s)' > NextByte(s)
            /\ (input_total + require) - NextByte(s)' > BufSize - Align
            /\ s \in close_flg => NextByte(s)' <= EndByte(s)
<1> DEFINE clear == ClearSize(low, require)
           skip == Skip(s, clear)
<1>1. /\ clear \in 0 .. buf_used
      /\ \A t \in in_use : pos[t] < clear => buf_used - clear = BufSize - require
  BY ClearSizeFacts
<1>2. /\ buf_used' = buf_used - clear + size
      /\ pos'[s] = IF Live(s) THEN pos[s] - clear + skip ELSE pos[s]
      /\ remain_to_close'[s] = IF s \in close_flg THEN remain_to_close[s] - skip
                                                  ELSE remain_to_close[s]
      /\ dropped'[s] = dropped[s] + skip
  BY DEF ClearAndInput, ClearSize, RemainAfterSkip
<1>3. /\ pos[s] \in Nat /\ remain_to_close[s] \in Int /\ dropped[s] \in Int
      /\ stop[s] \in Nat /\ buf_used \in Nat /\ input_total \in Nat
      /\ Align \in Nat /\ BufSize \in Nat
      /\ AlignOf(s) \in Nat \ {0} /\ AlignOf(s) <= Align
      /\ stop'[s] = stop[s] /\ in_use' = in_use /\ close_flg' = close_flg
  BY AlignOfType, SizeAssumption DEF IInv, TypeOK, slots
<1> HIDE DEF clear
<1>4. clear \in Nat /\ clear <= buf_used /\ Base' = Base + clear /\ Base \in Int
  BY <1>1, <1>2, <1>3, SMT DEF Base
<1>5. /\ skip \in Nat
      /\ skip > 0 => Live(s) /\ clear > pos[s]
      /\ Live(s) => pos[s] - clear + skip \in Nat
      /\ skip > 0 => pos[s] - clear + skip <= AlignOf(s) - 1
  BY <1>4, SkipFacts DEF IInv
<1> HIDE DEF skip
<1>6. CASE s \notin in_use  BY <1>3, <1>6 DEF NextByte
<1>7. CASE s \in in_use /\ skip = 0
  <2>1. remain_to_close'[s] = remain_to_close[s] /\ dropped'[s] = dropped[s]
    BY <1>2, <1>3, <1>7, SMT
  <2>2. ASSUME s \notin close_flg PROVE Base' + pos'[s] = Base + pos[s]
    <3>1. Live(s)  BY <1>7, <2>2 DEF Live, Drained
    <3>2. QED  BY <1>2, <1>3, <1>4, <1>7, <3>1, SMT
  <2>3. QED  BY <1>3, <2>1, <2>2 DEF NextByte
<1>8. CASE s \in in_use /\ skip > 0
  <2>1. Live(s) /\ NextByte(s) = Base + pos[s] /\ clear > pos[s]
    BY <1>5, <1>8, NextByteFacts
  <2>2. buf_used - clear = BufSize - require  BY <1>1, <1>8, <2>1, <1>3, <1>4, SMT
  <2>3. (input_total + require) - (Base + pos[s]) > BufSize
    BY <1>3, <1>4, <2>1, <2>2, SMT DEF Base
  <2>4. (input_total + require) - (Base + pos[s] + skip) > BufSize - Align
    BY <1>3, <1>4, <1>5, <1>8, <2>2, SMT DEF Base
  <2>5. CASE s \notin close_flg
    <3>1. NextByte(s)' = Base' + pos'[s]
      BY <1>3, <1>8, <2>5 DEF NextByte
    <3>2. NextByte(s)' = Base + pos[s] + skip
      BY <1>2, <1>3, <1>4, <1>5, <2>1, <3>1, SMT
    <3>3. Base + pos[s] + skip > Base + pos[s]  BY <1>3, <1>4, <1>5, <1>8, SMT
    <3>4. QED  BY <1>8, <2>1, <2>3, <2>4, <2>5, <3>2, <3>3
  <2>6. CASE s \in close_flg
    <3>1. /\ remain_to_close[s] > 0 /\ EndByte(s) = stop[s]
          /\ stop[s] = Base + pos[s] + remain_to_close[s]
      <4>1. remain_to_close[s] > 0  BY <1>3, <2>1, <2>6, SMT DEF Live, Drained
      <4>2. QED  BY <1>8, <2>6, <4>1, NextByteFacts DEF IInv, Reader, Closing
    <3>2. dropped'[s] > 0
      <4>1. dropped[s] >= 0  BY <1>8 DEF IInv, Reader, Books
      <4>2. QED  BY <1>2, <1>3, <1>5, <1>8, <4>1, SMT
    <3>3. CASE skip <= remain_to_close[s]
      <4>1. /\ ~(remain_to_close'[s] < 0)
            /\ stop[s] - remain_to_close'[s] = Base + pos[s] + skip
        BY <1>2, <1>3, <1>4, <1>5, <2>6, <3>1, <3>3, SMT
      <4>2. NextByte(s)' = Base + pos[s] + skip
        BY <1>3, <1>8, <2>6, <4>1 DEF NextByte
      <4>3. Base + pos[s] + skip > Base + pos[s] /\ Base + pos[s] + skip <= stop[s]
        BY <1>3, <1>4, <1>5, <1>8, <3>1, <3>3, SMT
      <4>4. QED  BY <1>8, <2>1, <2>3, <2>4, <3>1, <4>2, <4>3
    <3>4. CASE ~(skip <= remain_to_close[s])
      <4>1. remain_to_close'[s] < 0
        BY <1>2, <1>3, <1>5, <2>6, <3>4, SMT
      <4>2. NextByte(s)' = stop[s]
        BY <1>3, <1>8, <2>6, <3>2, <4>1 DEF NextByte
      <4>3. /\ stop[s] > Base + pos[s]
            /\ (input_total + require) - stop[s] > BufSize - Align
        BY <1>3, <1>4, <1>5, <2>4, <3>1, <3>4, SMT
      <4>4. stop[s] <= stop[s]  BY <1>3, SMT
      <4>5. QED  BY <1>8, <2>1, <2>3, <3>1, <4>2, <4>3, <4>4
    <3>5. QED  BY <3>3, <3>4
  <2>7. QED  BY <2>5, <2>6
<1>9. skip = 0 \/ skip > 0  BY <1>5, SMT
<1>10. QED  BY <1>6, <1>7, <1>8, <1>9

LEMMA NextHeadsType ==
  ASSUME IInv, TypeOK', \A s \in Slots : NextByte(s)' = NextByte(s) \/ NextByte(s)' > NextByte(s)
  PROVE  Heads' \in [Slots -> Nat]
<1>1. ASSUME NEW s \in Slots PROVE NextByte(s)' \in Nat
  <2>1. NextByte(s) \in Nat  BY HeadsType DEF Heads
  <2>2. NextByte(s)' \in Int  BY SMT DEF NextByte, Base, TypeOK
  <2>3. QED  BY <2>1, <2>2, SMT
<1>2. QED  BY <1>1 DEF Heads

LEMMA OvertakesTap ==
  ASSUME IInv, IInv', NEW require \in Nat, require + 2 * (Align - 1) <= BufSize,
         NEW size \in {0, require},
         NEW low \in Unread, \A p \in Unread : low <= p,
         ClearAndInput(low, require, size),
         input_total' = input_total + size,
         UNCHANGED <<slots, stop>>
  PROVE  Tap!Overtakes(input_total + require)
<1>1. Heads' \in [Slots -> Nat]  BY SkippedTap, NextHeadsType DEF IInv
<1>2. ASSUME NEW s \in Slots
      PROVE  \/ Heads'[s] = Heads[s]
             \/ /\ s \in in_use
                /\ (input_total + require) - Heads[s] > BufSize
                /\ Heads'[s] > Heads[s]
                /\ (input_total + require) - Heads'[s] > BufSize - Align
                /\ s \in Ending => Heads'[s] <= Ends[s]
  <2>1. /\ Heads'[s] = NextByte(s)' /\ Heads[s] = NextByte(s) /\ Ends[s] = EndByte(s)
    BY DEF Heads, Ends
  <2>2. QED  BY <2>1, SkippedTap DEF Ending
<1>3. QED
  BY <1>1, <1>2 DEF Tap!Overtakes, Tap!Loses, Heads, Ends, Ending

LEMMA EndsStay ==
  ASSUME UNCHANGED <<slots, stop>>
  PROVE  Ends' = Ends /\ in_use' = in_use /\ Ending' = Ending
BY DEF slots, Ends, EndByte, Ending

LEMMA ClearBufTap ==
  ASSUME TInv, TInv', NEW require \in ClearSizes, ClearBuf(require)
  PROVE  Tap!Next
<1>1. require \in Nat /\ require + 2 * (Align - 1) <= BufSize  BY InputAssumption
<1>2. PICK low \in Unread : /\ \A p \in Unread : low <= p
                            /\ ClearAndInput(low, require, 0)
  BY DEF ClearBuf
<1>3. input_total' = input_total + 0 /\ input_total' = input_total
  BY SMT DEF ClearBuf, TInv, IInv, TypeOK
<1>4. UNCHANGED <<slots, stop>>  BY DEF ClearBuf
<1>5. Tap!Overtakes(input_total + require)
  BY <1>1, <1>2, <1>3, <1>4, OvertakesTap DEF TInv
<1>6. Tap!MakeRoom(require)
  BY <1>3, <1>4, <1>5, EndsStay DEF Tap!MakeRoom, Ends, Ending
<1>7. QED  BY <1>6 DEF Tap!Next

LEMMA InputBufTap ==
  ASSUME TInv, TInv', NEW size \in InputSizes, InputBuf(size)
  PROVE  Tap!Next
<1>1. size \in Nat /\ size + 2 * (Align - 1) <= BufSize  BY InputAssumption
<1>2. /\ input_total + size <= MaxTotal /\ input_total' = input_total + size
      /\ UNCHANGED <<slots, stop>>
  BY DEF InputBuf
<1>3. Tap!Overtakes(input_total + size)
  <2>1. CASE buf_used + size > BufSize
    <3>1. PICK low \in Unread : /\ \A p \in Unread : low <= p
                                /\ ClearAndInput(low, size, size)
      BY <2>1 DEF InputBuf
    <3>2. QED  BY <1>1, <1>2, <3>1, OvertakesTap DEF TInv
  <2>2. CASE ~(buf_used + size > BufSize)
    <3>1. /\ buf_used' = buf_used + size
          /\ UNCHANGED <<pos, remain_to_close, dropped>>
      BY <2>2 DEF InputBuf
    <3>2. Base' = Base  BY <1>1, <1>2, <3>1, SMT DEF Base, TInv, IInv, TypeOK
    <3>3. \A s \in Slots : NextByte(s)' = NextByte(s)
      BY <1>2, <3>1, <3>2 DEF NextByte, slots
    <3>4. Heads' \in [Slots -> Nat]  BY <3>3, NextHeadsType DEF TInv, IInv
    <3>5. \A s \in Slots : Heads'[s] = Heads[s]  BY <3>3 DEF Heads
    <3>6. QED  BY <3>4, <3>5 DEF Tap!Overtakes, Heads
  <2>3. QED  BY <2>1, <2>2
<1>4. Tap!Grow(size)
  BY <1>2, <1>3, EndsStay DEF Tap!Grow, Ends, Ending
<1>5. QED  BY <1>4 DEF Tap!Next

-----------------------------------------------------------------------------
(* What a handler takes is read; a visit that hands out nothing does not   *)
(* show.                                                                   *)
LEMMA VisitWriteTap ==
  ASSUME TInv, NEW s \in Slots, NEW done \in 0 .. BufSize,
         VisitWrite(s, opt[s].maxsize, done)
  PROVE  Tap!Next \/ UNCHANGED Tap!vars
<1>1. /\ s \in in_use /\ done \in Taken(s, opt[s].maxsize) /\ done \in Nat
      /\ done <= BufSize
  BY SizeAssumption, SMT DEF VisitWrite, Visit
<1>2. /\ pos' = [pos EXCEPT ![s] = @ + done] /\ pos \in [Slots -> Nat]
      /\ remain_to_close' = IF s \in close_flg THEN [remain_to_close EXCEPT ![s] = @ - done]
                            ELSE remain_to_close
      /\ remain_to_close \in [Slots -> Int]
      /\ UNCHANGED <<buffer, in_use, close_flg, stop, dropped>>
      /\ Base' = Base /\ input_total' = input_total
  BY DEF VisitWrite, TInv, IInv, TypeOK, buffer, Base
<1>3. CASE done = 0
  <2>1. pos' = pos /\ remain_to_close' = remain_to_close  BY <1>2, <1>3, SMT
  <2>2. QED  BY <1>2, <2>1, HiddenStep
<1>4. CASE done > 0
  <2>1. opt[s].maxsize \in Nat  BY <1>1 DEF TInv, IInv, TypeOK, Option
  <2>2. /\ Live(s)
        /\ s \in close_flg => done <= remain_to_close[s]
        /\ StillUnaligned(s, done) \in Nat
        /\ pos[s] + done + StillUnaligned(s, done) <= buf_used
    BY <1>1, <1>4, <2>1, TakenFacts DEF TInv
  <2>3. /\ Base \in Int /\ stop[s] \in Nat /\ buf_used \in Nat /\ input_total \in Nat
        /\ pos[s] \in Nat /\ remain_to_close[s] \in Int
    BY SMT DEF TInv, IInv, TypeOK, Base
  <2>4. NextByte(s) = Base + pos[s]  BY <1>1, <2>2, NextByteFacts DEF TInv
  <2>5. /\ NextByte(s)' = NextByte(s) + done
        /\ NextByte(s) + done <= IF s \in Ending THEN EndByte(s) ELSE input_total
    <3>1. CASE s \notin close_flg
      <4>1. NextByte(s)' = Base + (pos[s] + done)  BY <1>1, <1>2, <3>1 DEF NextByte
      <4>2. Base + (pos[s] + done) = Base + pos[s] + done
            /\ Base + pos[s] + done <= input_total
        BY <1>1, <2>2, <2>3, SMT DEF Base
      <4>3. QED  BY <2>4, <3>1, <4>1, <4>2 DEF Ending
    <3>2. CASE s \in close_flg
      <4>1. remain_to_close'[s] = remain_to_close[s] - done  BY <1>2, <3>2
      <4>2. remain_to_close[s] > 0  BY <1>1, <1>4, <2>2, <2>3, <3>2, SMT
      <4>3. stop[s] = Base + pos[s] + remain_to_close[s] /\ EndByte(s) = stop[s]
        BY <1>1, <3>2, <4>2, NextByteFacts DEF TInv, IInv, Reader, Closing
      <4>4. ~(remain_to_close[s] - done < 0)  BY <1>1, <2>2, <2>3, <3>2, SMT
      <4>5. NextByte(s)' = stop[s] - (remain_to_close[s] - done)
        BY <1>1, <1>2, <3>2, <4>1, <4>4 DEF NextByte
      <4>6. /\ stop[s] - (remain_to_close[s] - done) = Base + pos[s] + done
            /\ Base + pos[s] + done <= stop[s]
        BY <1>1, <2>2, <2>3, <3>2, <4>3, SMT
      <4>7. QED  BY <1>1, <2>4, <3>2, <4>3, <4>5, <4>6 DEF Ending
    <3>3. QED  BY <3>1, <3>2
  <2>6. ASSUME NEW t \in Slots, t # s PROVE NextByte(t)' = NextByte(t)
    BY <1>2, <2>6, ShowsTheSame
  <2>7. Heads' = [Heads EXCEPT ![s] = @ + done] /\ Heads[s] = NextByte(s)
    BY <2>5, <2>6 DEF Heads
  <2>8. Ends' = Ends /\ Ending' = Ending /\ Ends[s] = EndByte(s)
    BY <1>2 DEF Ends, EndByte, Ending
  <2>9. Tap!Read(s, done)
    BY <1>1, <1>2, <2>5, <2>7, <2>8 DEF Tap!Read, Heads, Ends, Ending
  <2>10. done \in 1 .. BufSize  BY <1>1, <1>4, SizeAssumption, SMT
  <2>11. QED  BY <2>9, <2>10 DEF Tap!Next
<1>5. QED  BY <1>1, <1>3, <1>4, SMT

(* check_close releases readers that are at their end. *)
LEMMA EndOutputTap ==
  ASSUME TInv, EndOutput
  PROVE  Tap!Next
<1>1. /\ in_use' = in_use \ ToClose /\ close_flg' = close_flg \ ToClose
      /\ ToClose \subseteq in_use \cap close_flg /\ in_use \subseteq Slots
      /\ remain_to_close' = Forget(remain_to_close) /\ stop' = Forget(stop)
      /\ dropped' = Forget(dropped)
      /\ Base' = Base /\ input_total' = input_total
  BY DEF EndOutput, ToClose, Drained, TInv, IInv, TypeOK, buffer, Base
<1>2. ASSUME NEW s \in ToClose PROVE NextByte(s) = EndByte(s)
  <2>1. s \in in_use /\ s \in close_flg /\ s \in Slots  BY <1>1
  <2>2. ~(remain_to_close[s] > 0)
    BY <2>1, SMT DEF ToClose, Drained, TInv, IInv, TypeOK
  <2>3. QED  BY <2>1, <2>2, NextByteFacts DEF TInv
<1>3. ASSUME NEW s \in Slots
      PROVE  /\ NextByte(s)' = IF s \in ToClose THEN 0 ELSE NextByte(s)
             /\ EndByte(s)' = IF s \in ToClose THEN 0 ELSE EndByte(s)
  <2>1. CASE s \in ToClose  BY <1>1, <2>1 DEF NextByte, EndByte
  <2>2. CASE s \notin ToClose
    <3>1. /\ remain_to_close'[s] = remain_to_close[s] /\ stop'[s] = stop[s]
          /\ dropped'[s] = dropped[s]
          /\ s \in in_use <=> s \in in_use'
          /\ s \in close_flg <=> s \in close_flg'
      BY <1>1, <2>2 DEF Forget
    <3>2. ASSUME s \notin close_flg PROVE Base' + pos'[s] = Base + pos[s]
      BY <1>1, <2>2, <3>2 DEF EndOutput, Drained
    <3>3. QED  BY <2>2, <3>1, <3>2, ShowsTheSame
  <2>3. QED  BY <2>1, <2>2
<1>4. /\ \A s \in ToClose : Heads[s] = Ends[s]
      /\ Heads' = [s \in Slots |-> IF s \in ToClose THEN 0 ELSE Heads[s]]
      /\ Ends' = [s \in Slots |-> IF s \in ToClose THEN 0 ELSE Ends[s]]
      /\ Ending' = Ending \ ToClose
  BY <1>1, <1>2, <1>3 DEF Heads, Ends, Ending
<1>5. Tap!Release(ToClose)
  BY <1>1, <1>4 DEF Tap!Release, Heads, Ends, Ending
<1>6. ToClose \in SUBSET Slots  BY <1>1
<1>7. QED  BY <1>5, <1>6 DEF Tap!Next

(* Where a downstream is told to end it has not been yet.                  *)
LEMMA DisconnectTap ==
  ASSUME TInv, TInv', NEW s \in Slots, Disconnect(s)
  PROVE  Tap!Next
<1> DEFINE e == Base + pos[s] + RemainAtClose(s)
<1>1. /\ s \in in_use /\ s \notin close_flg /\ in_use' = in_use
      /\ close_flg' = close_flg \cup {s}
      /\ remain_to_close' = [remain_to_close EXCEPT ![s] = RemainAtClose(s)]
      /\ stop' = [stop EXCEPT ![s] = e]
      /\ remain_to_close \in [Slots -> Int] /\ stop \in [Slots -> Nat]
      /\ pos' = pos /\ dropped' = dropped /\ Base' = Base /\ input_total' = input_total
  BY DEF Disconnect, TInv, IInv, TypeOK, buffer, Base
<1>2. /\ RemainAtClose(s) \in Nat /\ RemainAtClose(s) <= Avail(s)
  <2>1. /\ remain_unaligned[s] \in Nat /\ pos[s] \in Nat /\ buf_used \in Nat
        /\ AlignOf(s) \in Nat \ {0}
    BY AlignOfType DEF TInv, IInv, TypeOK
  <2>2. /\ pos[s] + remain_unaligned[s] <= buf_used
        /\ ~opt[s].use_retval => remain_unaligned[s] = 0
    BY <1>1 DEF TInv, IInv, Reader, Inside, Settings, Live, Drained
  <2>3. PICK x \in Nat : x = Avail(s) - remain_unaligned[s]
    BY <2>1, <2>2, SMT DEF Avail
  <2>4. PICK f \in Int : f = AlignFloor(x, AlignOf(s))  BY <2>1, FloorFacts
  <2>5. 0 <= f /\ f <= x
    <3>1. x \in Int /\ x >= 0  OBVIOUS
    <3>2. QED  BY <2>1, <2>4, <3>1, FloorFacts
  <2>6. RemainAtClose(s) = f + remain_unaligned[s]
    BY <2>2, <2>3, <2>4 DEF RemainAtClose
  <2>7. QED  BY <2>1, <2>3, <2>5, <2>6, SMT DEF Avail
<1>3. /\ Base \in Nat /\ pos[s] \in Nat /\ buf_used \in Nat /\ input_total \in Nat
      /\ input_total <= MaxTotal /\ MaxTotal \in Nat
  BY SizeAssumption, SMT DEF TInv, IInv, TypeOK, Ring, Base
<1>4. /\ e \in 0 .. MaxTotal /\ e <= input_total /\ Base + pos[s] <= e
      /\ e - RemainAtClose(s) = Base + pos[s]
      /\ ~(RemainAtClose(s) < 0)
  BY <1>2, <1>3, SMT DEF Avail, Base
<1> HIDE DEF e
<1>5. NextByte(s) = Base + pos[s]  BY <1>1, NextByteFacts DEF TInv
<1>6. NextByte(s)' = NextByte(s) /\ EndByte(s)' = e
  <2>1. remain_to_close'[s] = RemainAtClose(s) /\ stop'[s] = e  BY <1>1
  <2>2. NextByte(s)' = e - RemainAtClose(s)
    BY <1>1, <1>4, <2>1 DEF NextByte
  <2>3. QED  BY <1>1, <1>4, <1>5, <2>1, <2>2 DEF EndByte
<1>7. ASSUME NEW t \in Slots, t # s
      PROVE  NextByte(t)' = NextByte(t) /\ EndByte(t)' = EndByte(t)
  BY <1>1, <1>7, ShowsTheSame
<1>8. /\ Heads' = Heads /\ Ends' = [Ends EXCEPT ![s] = e]
      /\ Ending' = Ending \cup {s} /\ Heads[s] = NextByte(s)
  BY <1>1, <1>6, <1>7 DEF Heads, Ends, Ending
<1>9. Tap!EndAt(s, e)
  BY <1>1, <1>4, <1>5, <1>8 DEF Tap!EndAt, Heads, Ends, Ending
<1>10. QED  BY <1>4, <1>9 DEF Tap!Next

LEMMA DisconnectNowTap ==
  ASSUME TInv, NEW s \in Slots, DisconnectNow(s)
  PROVE  Tap!Next
<1>1. /\ s \in in_use /\ s \in close_flg /\ in_use' = in_use /\ close_flg' = close_flg
      /\ remain_to_close' = [remain_to_close EXCEPT ![s] = 0]
      /\ dropped' = [dropped EXCEPT ![s] = @ + remain_to_close[s]]
      /\ remain_to_close \in [Slots -> Int] /\ dropped \in [Slots -> Int]
      /\ stop[s] \in Nat
      /\ stop' = stop /\ pos' = pos /\ Base' = Base /\ input_total' = input_total
  BY DEF DisconnectNow, TInv, IInv, TypeOK, buffer, slots, Base
<1>2. NextByte(s)' = stop[s] /\ EndByte(s) = stop[s]
  <2>1. remain_to_close'[s] = 0  BY <1>1
  <2>2. ~(0 < 0) /\ stop[s] - 0 = stop[s]  BY <1>1, SMT
  <2>3. QED  BY <1>1, <2>1, <2>2 DEF NextByte, EndByte
<1>3. ASSUME NEW t \in Slots, t # s PROVE NextByte(t)' = NextByte(t)
  BY <1>1, <1>3, ShowsTheSame
<1>4. /\ Heads' = [Heads EXCEPT ![s] = Ends[s]]
      /\ Ends' = Ends /\ Ending' = Ending
  BY <1>1, <1>2, <1>3 DEF Heads, Ends, Ending, EndByte
<1>5. Tap!Cut(s)
  BY <1>1, <1>4 DEF Tap!Cut, Heads, Ends, Ending
<1>6. QED  BY <1>5 DEF Tap!Next

LEMMA CloseBufTap ==
  ASSUME CloseBuf
  PROVE  Tap!Next
<1>1. in_use' = {} /\ input_total' = input_total  BY DEF CloseBuf, buffer
<1>2. Tap!Shut  BY <1>1 DEF Tap!Shut, NextByte, EndByte
<1>3. QED  BY <1>2 DEF Tap!Next

-----------------------------------------------------------------------------
LEMMA NextTap ==
  ASSUME TInv, TInv', [Next]_vars
  PROVE  [Tap!Next]_(Tap!vars)
<1>1. ASSUME NEW s \in Slots, NEW o \in Options, NEW b \in Backwards, Connect(s, o, b)
      PROVE  Tap!Next
  BY <1>1, ConnectTap
<1>2. ASSUME NEW n \in ClearSizes, ClearBuf(n) PROVE Tap!Next
  BY <1>2, ClearBufTap
<1>3. ASSUME NEW n \in InputSizes, InputBuf(n) PROVE Tap!Next
  BY <1>3, InputBufTap
<1>4. CASE BeginOutput  BY <1>4, HiddenStep DEF BeginOutput, slots, cursor, ghost
<1>5. CASE EndOutput  BY <1>5, EndOutputTap
<1>6. ASSUME NEW s \in Slots, VisitHeldBack(s) PROVE UNCHANGED Tap!vars
  BY <1>6, HiddenStep DEF VisitHeldBack, slots, cursor, ghost
<1>7. ASSUME NEW s \in Slots, VisitBusy(s, opt[s].maxsize) PROVE UNCHANGED Tap!vars
  BY <1>7, HiddenStep DEF VisitBusy, cursor, ghost
<1>8. ASSUME NEW s \in Slots, NEW done \in 0 .. BufSize, VisitWrite(s, opt[s].maxsize, done)
      PROVE  Tap!Next \/ UNCHANGED Tap!vars
  BY <1>8, VisitWriteTap
<1>9. ASSUME NEW s \in Slots, Disconnect(s) PROVE Tap!Next
  BY <1>9, DisconnectTap
<1>10. ASSUME NEW s \in Slots, DisconnectNow(s) PROVE Tap!Next
  BY <1>10, DisconnectNowTap
<1>11. CASE CloseBuf  BY <1>11, CloseBufTap
<1>12. CASE UNCHANGED vars
  BY <1>12, HiddenStep DEF vars, slots, cursor, ghost
<1>13. CASE Terminated  BY <1>12, <1>13 DEF Terminated
<1>14. QED
  BY <1>1, <1>2, <1>3, <1>4, <1>5, <1>6, <1>7, <1>8, <1>9, <1>10, <1>11, <1>12, <1>13
     DEF Next, Output

(* The ring buffer with its offsets, partial writes, alignment, skips and  *)
(* two-stage closing implements the stream: each downstream reads it in    *)
(* order from where it was connected to the point ab_disconnect_downstream *)
(* fixed, loses bytes only when it alone is a whole buffer behind, and is  *)
(* released only at its close point.                                       *)
THEOREM BufferImplementsTap == Spec => ImplementsTap
<1>1. Init => Tap!Init  BY InitTap
<1>2. TInv /\ TInv' /\ [Next]_vars => [Tap!Next]_(Tap!vars)  BY NextTap
<1>3. QED  BY <1>1, <1>2, TInvAlways, PTL DEF Spec, ImplementsTap, Tap!Spec
=============================================================================
