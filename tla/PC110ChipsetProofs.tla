----------------------------- MODULE PC110ChipsetProofs -----------------------------
(* The registers of the chipset keep what was written to them, whatever uses them,  *)
(* for any indexes, any values and bytes of any width.                              *)
EXTENDS PC110Chipset, TLAPS

\* The index bytes an accessor or a register may hold.
Held == Indexes \cup {Unset}

\* What the accessors believe has the shape of what the device holds.
HistoryOK == /\ chosen \in [Banks -> Held]
             /\ wrote \in [Banks -> [Held -> Contents]]

\* The device and its accessors agree on a bank: on the register that is selected and on
\* what every register holds.
Agrees(w) == At(w, index[w]) = At(w, chosen[w]) /\ regs[w] = wrote[w]

\* They do on every bank until the device is restored, then on the saved ones.
Mirrors == \A w \in Banks : w \in Saved \/ ~restored => Agrees(w)

BanksInv == BanksTypeOK /\ HistoryOK /\ Mirrors /\ ReadsBack

------------------------------------------------------------------------------------
\* Masking an index twice is masking it once, and keeps it an index (scamp_write, rtc_read).
LEMMA MaskFacts ==
    ASSUME NEW w, NEW i \in Held
    PROVE  At(w, i) \in Held /\ At(w, At(w, i)) = At(w, i)
<1>1. CASE i \in Indexes
  <2>1. [bit7 |-> FALSE, reg |-> i.reg] \in Indexes BY <1>1 DEF Indexes
  <2> QED BY <1>1, <2>1 DEF At, Held
<1>2. CASE i = Unset
  <2>1. [bit7 |-> FALSE, reg |-> i.reg] = Unset BY <1>2 DEF Unset
  <2> QED BY <1>2, <2>1 DEF At, Held
<1> QED BY <1>1, <1>2 DEF Held

\* On a bank they agree on, a data access goes where its accessor means it to.
LEMMA AccessFacts ==
    ASSUME BanksInv, NEW w \in Banks, NEW a \in Accesses(w)
    PROVE  /\ a.reg \in Held /\ a.meant \in Held
           /\ w = "page" \/ Agrees(w) => a.reg = a.meant
<1>1. CASE w = "page"
  <2>1. PICK i \in Indexes : a = [reg |-> i, meant |-> i] BY <1>1 DEF Accesses
  <2> QED BY <2>1 DEF Held
<1>2. CASE w # "page"
  <2>1. a = [reg |-> RegOf(w), meant |-> At(w, chosen[w])] BY <1>2 DEF Accesses
  <2>2. index[w] \in Held /\ chosen[w] \in Held
    BY DEF BanksInv, BanksTypeOK, HistoryOK, Held
  <2>3. At(w, index[w]) \in Held /\ At(w, chosen[w]) \in Held BY <2>2, MaskFacts
  <2> QED BY <1>2, <2>1, <2>3 DEF RegOf, Agrees
<1> QED BY <1>1, <1>2

LEMMA BanksStart == BanksInit => BanksInv
<1> SUFFICES ASSUME BanksInit PROVE BanksInv OBVIOUS
<1>1. Fresh \in [Banks -> [Held -> Contents]] BY DEF Fresh, Held, Contents
<1>2. index \in [Banks -> Held] /\ chosen = index BY DEF BanksInit, Held
<1>3. /\ regs = Fresh /\ wrote = Fresh /\ config = Unset /\ use \in Uses
      /\ seen = [window |-> "none", have |-> "seed", want |-> "seed"] /\ restored = FALSE
  BY DEF BanksInit
<1>4. seen.have = "seed" /\ seen.have = seen.want BY <1>3
<1>5. restored \in BOOLEAN BY <1>3
<1>6. BanksTypeOK BY <1>1, <1>2, <1>3, <1>4, <1>5 DEF BanksTypeOK, Held, Contents
<1>7. HistoryOK BY <1>1, <1>2, <1>3 DEF HistoryOK
<1> QED BY <1>2, <1>3, <1>4, <1>6, <1>7 DEF BanksInv, Mirrors, Agrees, ReadsBack

LEMMA SelectKeeps ==
    ASSUME BanksInv, NEW w \in Windows, NEW i \in Indexes, Select(w, i),
           UNCHANGED <<use, restored>>
    PROVE  BanksInv'
<1> DEFINE new == IF w = "scamp" THEN At(w, i) ELSE i
<1>1. w \in Banks /\ i \in Held /\ At(w, i) \in Held /\ At(w, At(w, i)) = At(w, i)
  BY MaskFacts DEF Banks, Held
<1>2. new \in Held /\ At(w, new) = At(w, i) BY <1>1
<1>3. index' = [index EXCEPT ![w] = new] /\ chosen' = [chosen EXCEPT ![w] = i]
      /\ UNCHANGED <<regs, config, wrote, seen>>
  BY DEF Select
<1>4. index \in [Banks -> Held] /\ chosen \in [Banks -> Held]
  BY DEF BanksInv, BanksTypeOK, HistoryOK, Held
<1> HIDE DEF new
<1>5. index' \in [Banks -> Held] /\ chosen' \in [Banks -> Held] BY <1>1, <1>2, <1>3, <1>4
<1>6. BanksTypeOK' /\ HistoryOK'
  BY <1>3, <1>5 DEF BanksInv, BanksTypeOK, HistoryOK, Held
<1>7. Mirrors'
  <2>1. ASSUME NEW b \in Banks, b \in Saved \/ ~restored PROVE Agrees(b)'
    <3>1. Agrees(b) BY <2>1 DEF BanksInv, Mirrors
    <3>2. CASE b = w BY <1>1, <1>2, <1>3, <1>4, <3>1, <3>2 DEF Agrees, At
    <3>3. CASE b # w
      <4>1. index'[b] = index[b] /\ chosen'[b] = chosen[b] BY <1>3, <1>4, <3>3
      <4> QED BY <1>3, <3>1, <4>1 DEF Agrees, At
    <3> QED BY <3>2, <3>3
  <2> QED BY <2>1 DEF Mirrors
<1>8. ReadsBack' BY <1>3 DEF BanksInv, ReadsBack
<1> QED BY <1>6, <1>7, <1>8 DEF BanksInv

LEMMA StoreKeeps ==
    ASSUME BanksInv, NEW w \in Banks, NEW v \in Values, Store(w, v),
           UNCHANGED <<use, restored>>
    PROVE  BanksInv'
<1>1. PICK a \in Accesses(w) :
        /\ regs' = [regs EXCEPT ![w][a.reg] = v]
        /\ wrote' = [wrote EXCEPT ![w][a.meant] = v]
        /\ UNCHANGED <<index, config, chosen, seen>>
  BY DEF Store
<1>2. a.reg \in Held /\ a.meant \in Held /\ (Agrees(w) => a.reg = a.meant)
  BY AccessFacts
<1>3. v \in Contents BY DEF Contents
<1>4. regs \in [Banks -> [Held -> Contents]] /\ wrote \in [Banks -> [Held -> Contents]]
  BY DEF BanksInv, BanksTypeOK, HistoryOK, Held
<1>5. regs' \in [Banks -> [Held -> Contents]] /\ wrote' \in [Banks -> [Held -> Contents]]
  <2>1. [regs[w] EXCEPT ![a.reg] = v] \in [Held -> Contents] BY <1>2, <1>3, <1>4
  <2>2. [wrote[w] EXCEPT ![a.meant] = v] \in [Held -> Contents] BY <1>2, <1>3, <1>4
  <2> QED BY <1>1, <1>4, <2>1, <2>2
<1>6. BanksTypeOK' /\ HistoryOK'
  BY <1>1, <1>5 DEF BanksInv, BanksTypeOK, HistoryOK, Held
<1>7. Mirrors'
  <2>1. ASSUME NEW b \in Banks, b \in Saved \/ ~restored PROVE Agrees(b)'
    <3>1. Agrees(b) BY <2>1 DEF BanksInv, Mirrors
    <3>2. regs'[b] = wrote'[b]
      <4>1. CASE b = w
        <5>1. regs'[b] = [regs[b] EXCEPT ![a.reg] = v] BY <1>1, <1>4, <4>1
        <5>2. wrote'[b] = [wrote[b] EXCEPT ![a.meant] = v] BY <1>1, <1>4, <4>1
        <5> QED BY <1>2, <3>1, <4>1, <5>1, <5>2 DEF Agrees
      <4>2. CASE b # w BY <1>1, <1>4, <3>1, <4>2 DEF Agrees
      <4> QED BY <4>1, <4>2
    <3> QED BY <1>1, <3>1, <3>2 DEF Agrees, At
  <2> QED BY <2>1 DEF Mirrors
<1>8. ReadsBack' BY <1>1 DEF BanksInv, ReadsBack
<1> QED BY <1>6, <1>7, <1>8 DEF BanksInv

LEMMA LoadKeeps ==
    ASSUME BanksInv, NEW w \in Banks, Load(w), UNCHANGED <<use, restored>>
    PROVE  BanksInv'
<1>1. PICK a \in Accesses(w) :
        /\ seen' = [window |-> w, have |-> regs[w][a.reg], want |-> wrote[w][a.meant]]
        /\ UNCHANGED <<index, regs, config, chosen, wrote>>
  BY DEF Load
<1>2. a.reg \in Held /\ (Agrees(w) => a.reg = a.meant) BY AccessFacts
<1>3. seen'.have = regs[w][a.reg] /\ seen'.want = wrote[w][a.meant] /\ seen'.window = w
  BY <1>1
<1>4. seen'.have \in Contents
  <2>1. regs \in [Banks -> [Held -> Contents]] BY DEF BanksInv, BanksTypeOK, Held
  <2> QED BY <1>2, <1>3, <2>1
<1>5. BanksTypeOK' /\ HistoryOK' BY <1>1, <1>4 DEF BanksInv, BanksTypeOK, HistoryOK
<1>6. Mirrors' BY <1>1 DEF BanksInv, Mirrors, Agrees, At
<1>7. ReadsBack' BY <1>2, <1>3 DEF BanksInv, Mirrors, Agrees, ReadsBack
<1> QED BY <1>5, <1>6, <1>7 DEF BanksInv

LEMMA RestoreKeeps ==
    ASSUME BanksInv, RestoreBanks, restored' = TRUE, UNCHANGED use
    PROVE  BanksInv'
<1>1. /\ index' = Restored(index, [w \in Banks |-> Unset])
      /\ regs' = Restored(regs, Fresh)
      /\ UNCHANGED <<config, chosen, wrote, seen>>
  BY DEF RestoreBanks, RestoreWith
<1>2. /\ index \in [Banks -> Held] /\ regs \in [Banks -> [Held -> Contents]]
      /\ Fresh \in [Banks -> [Held -> Contents]] /\ Unset \in Held
  BY DEF BanksInv, BanksTypeOK, Held, Fresh, Contents
<1>3. index' \in [Banks -> Held] /\ regs' \in [Banks -> [Held -> Contents]]
  BY <1>1, <1>2 DEF Restored
<1>4. restored' \in BOOLEAN OBVIOUS
<1>5. BanksTypeOK' /\ HistoryOK'
  BY <1>1, <1>3, <1>4 DEF BanksInv, BanksTypeOK, HistoryOK, Held
<1>6. Mirrors'
  <2>1. ASSUME NEW b \in Banks, b \in Saved PROVE Agrees(b)'
    <3>1. index'[b] = index[b] /\ regs'[b] = regs[b] BY <1>1, <2>1 DEF Restored
    <3> QED BY <1>1, <2>1, <3>1 DEF BanksInv, Mirrors, Agrees, At
  <2> QED BY <2>1 DEF Mirrors
<1>7. ReadsBack' BY <1>1 DEF BanksInv, ReadsBack
<1> QED BY <1>5, <1>6, <1>7 DEF BanksInv

------------------------------------------------------------------------------------
\* The bytes of a word, and their order.
LatchInv == StatusTypeOK /\ LatchAssembled

\* What is left of lo + hi * b when whole multiples of b are taken off (clk22_read).
LEMMA LowPart ==
    ASSUME NEW b \in Nat \ {0}, NEW lo \in 0..b - 1, NEW hi \in Nat
    PROVE  (lo + (hi * b)) % b = lo
<1> DEFINE n == lo + (hi * b)
           q == n \div b
           r == n % b
<1>1. n \in Int BY hi * b \in Int
<1> HIDE DEF n
<1>2. n = (q * b) + r /\ r \in 0..b - 1 /\ q \in Int BY <1>1
<1> HIDE DEF q, r
<1>3. lo - r = (q - hi) * b BY <1>2 DEF n
<1>4. ASSUME q - hi >= 1 PROVE r = lo
  <2>1. (q - hi) * b >= b BY <1>2, <1>4
  <2> QED BY <1>2, <1>3, <2>1
<1>5. ASSUME q - hi <= -1 PROVE r = lo
  <2>1. (q - hi) * b <= -b BY <1>2, <1>5
  <2> QED BY <1>2, <1>3, <2>1
<1>6. ASSUME q - hi = 0 PROVE r = lo
  BY <1>2, <1>3, <1>6
<1>7. r = lo BY <1>2, <1>4, <1>5, <1>6
<1> QED BY <1>7 DEF n, r

\* A word has a low and a high byte, and no others.
LEMMA Halves ==
    ASSUME NEW b \in Nat \ {0}, NEW n \in 0..(b * b) - 1
    PROVE  n % b \in 0..b - 1 /\ n \div b \in 0..b - 1 /\ n = (n % b) + ((n \div b) * b)
<1> DEFINE q == n \div b
           r == n % b
<1>1. b * b \in Nat /\ n \in Nat /\ n < b * b OBVIOUS
<1>2. n = (q * b) + r /\ r \in 0..b - 1 /\ q \in Nat BY <1>1
<1> HIDE DEF q, r
<1>3. q * b \in Nat /\ r \in Nat BY <1>2
<1>4. q * b < b * b BY <1>1, <1>2, <1>3
<1>5. ASSUME q >= b PROVE FALSE
  <2>1. q * b >= b * b BY <1>2, <1>5
  <2> QED BY <2>1, <1>1, <1>3, <1>4
<1>6. q \in 0..b - 1 BY <1>2, <1>5
<1>7. n = r + (q * b) BY <1>1, <1>2, <1>3
<1> QED BY <1>2, <1>6, <1>7 DEF q, r

LEMMA SameMultiple ==
    ASSUME NEW b \in Nat \ {0}, NEW p \in Nat, NEW q \in Nat, p * b = q * b
    PROVE  p = q
<1>1. (p - q) * b = 0 OBVIOUS
<1>2. ASSUME p - q >= 1 PROVE FALSE
  <2>1. (p - q) * b >= b BY <1>2
  <2> QED BY <1>1, <2>1
<1>3. ASSUME p - q <= -1 PROVE FALSE
  <2>1. (p - q) * b <= -b BY <1>3
  <2> QED BY <1>1, <2>1
<1> QED BY <1>2, <1>3

\* Two bytes make a word.
LEMMA WordRange ==
    ASSUME NEW lo \in 0..ByteMax, NEW hi \in 0..ByteMax
    PROVE  lo + (hi * (ByteMax + 1)) \in 0..((ByteMax + 1) * (ByteMax + 1)) - 1
<1> DEFINE b == ByteMax + 1
<1>1. b \in Nat /\ lo \in Nat /\ hi \in Nat /\ lo <= b - 1 /\ hi <= b - 1 BY ByteAssumption
<1> HIDE DEF b
<1>2. hi * b <= (b - 1) * b BY <1>1
<1>3. (b - 1) * b = (b * b) - b BY <1>1
<1>4. hi * b \in Nat BY <1>1
<1>5. lo + (hi * b) <= (b * b) - 1 BY <1>1, <1>2, <1>3, <1>4
<1>6. (b * b) \in Nat BY <1>1
<1> QED BY <1>1, <1>4, <1>5, <1>6 DEF b

LEMMA ClockKeeps ==
    ASSUME LatchInv, ClockWrite, UNCHANGED <<status, restored>>
    PROVE  LatchInv'
<1> DEFINE b == ByteMax + 1
<1>1. b \in Nat \ {0} /\ 0..ByteMax = 0..b - 1 BY ByteAssumption
<1>2. bytes \in [lo: 0..ByteMax, hi: 0..ByteMax] BY DEF LatchInv, StatusTypeOK
<1>3. bytes.lo \in 0..ByteMax /\ bytes.hi \in 0..ByteMax BY <1>2
<1>4. busy' \in BOOLEAN /\ polling' \in BOOLEAN /\ reads' \in 0..9
  BY DEF LatchInv, StatusTypeOK, status
<1>5. SUFFICES ASSUME TRUE
      PROVE  /\ bytes' \in [lo: 0..ByteMax, hi: 0..ByteMax]
             /\ ~restored => latch' = bytes'.lo + (bytes'.hi * b)
             /\ latch' \in 0..(b * b) - 1
  BY <1>4 DEF LatchInv, StatusTypeOK, LatchAssembled
<1>6. ASSUME NEW lo \in 0..ByteMax, NEW hi \in 0..ByteMax, ClkWord(lo, hi)
      PROVE  /\ bytes' \in [lo: 0..ByteMax, hi: 0..ByteMax]
             /\ ~restored => latch' = bytes'.lo + (bytes'.hi * b)
             /\ latch' \in 0..(b * b) - 1
  BY <1>6, WordRange DEF ClkWord
<1>7. ASSUME NEW a \in {0, 1}, NEW v \in 0..ByteMax, ClkByte(a, v)
      PROVE  /\ bytes' \in [lo: 0..ByteMax, hi: 0..ByteMax]
             /\ ~restored => latch' = bytes'.lo + (bytes'.hi * b)
             /\ latch' \in 0..(b * b) - 1
  <2> DEFINE lo == latch % b
             hi == latch \div b
  <2>1. latch \in 0..(b * b) - 1 /\ latch \in Nat BY <1>1 DEF LatchInv, StatusTypeOK
  <2>2. latch = lo + (hi * b) /\ lo \in 0..b - 1 /\ hi \in 0..b - 1 BY <1>1, <2>1, Halves
  <2>3. lo \in 0..ByteMax /\ hi \in 0..ByteMax /\ hi \in Nat
    <3> HIDE DEF lo, hi, b
    <3>1. lo \in 0..ByteMax /\ hi \in 0..ByteMax BY <1>1, <2>2
    <3>2. \A k \in 0..ByteMax : k \in Nat OBVIOUS
    <3> QED BY <3>1, <3>2
  <2>4. ~restored => lo = bytes.lo
    <3>1. ~restored => latch = bytes.lo + (bytes.hi * b) BY DEF LatchInv, LatchAssembled
    <3>2. bytes.lo \in 0..b - 1 /\ bytes.hi \in Nat
      <4>1. \A k \in 0..ByteMax : k \in Nat BY <1>1
      <4> QED BY <1>1, <1>3, <4>1
    <3> QED BY <1>1, <3>1, <3>2, LowPart
  <2>5. Lo(latch) = lo BY DEF Lo
  <2>6. CASE a = 1
    <3>1. latch' = lo + (v * b) /\ bytes' = [bytes EXCEPT !.hi = v]
      BY <1>7, <2>5, <2>6 DEF ClkByte, Merge
    <3>2. bytes'.lo = bytes.lo /\ bytes'.hi = v /\ bytes' \in [lo: 0..ByteMax, hi: 0..ByteMax]
      BY <1>2, <3>1
    <3>3. latch' \in 0..(b * b) - 1 BY <2>3, <3>1, WordRange
    <3> QED BY <2>4, <3>1, <3>2, <3>3
  <2>7. CASE a = 0
    <3>1. latch' = latch - lo + v /\ bytes' = [bytes EXCEPT !.lo = v]
      BY <1>7, <2>5, <2>7 DEF ClkByte, Merge
    <3>2. bytes'.lo = v /\ bytes'.hi = bytes.hi /\ bytes' \in [lo: 0..ByteMax, hi: 0..ByteMax]
      BY <1>2, <3>1
    <3> HIDE DEF lo, hi, b
    <3>3. hi * b \in Nat /\ v \in Nat /\ lo \in Nat /\ latch \in Nat
      <4>1. \A k \in 0..ByteMax : k \in Nat OBVIOUS
      <4>2. v \in Nat /\ lo \in Nat BY <2>3, <4>1
      <4> QED BY <1>1, <2>1, <2>3, <4>2
    <3>4. latch' = v + (hi * b) BY <2>2, <3>1, <3>3
    <3>6. latch' \in 0..(b * b) - 1 BY <2>3, <3>4, WordRange DEF b
    <3>7. ~restored => hi = bytes.hi
      <4>1. SUFFICES ASSUME ~restored PROVE hi = bytes.hi OBVIOUS
      <4>2. latch = bytes.lo + (bytes.hi * b) /\ lo = bytes.lo
        BY <2>4, <4>1 DEF LatchInv, LatchAssembled, b
      <4>3. bytes.hi \in Nat
        <5>1. \A k \in 0..ByteMax : k \in Nat OBVIOUS
        <5> QED BY <1>3, <5>1
      <4>4. bytes.hi * b \in Nat BY <1>1, <4>3
      <4>5. bytes.hi * b = hi * b BY <2>2, <3>3, <4>2, <4>4
      <4> QED BY <1>1, <2>3, <4>3, <4>5, SameMultiple
    <3> QED BY <3>2, <3>4, <3>6, <3>7
  <2> QED BY <2>6, <2>7
<1> QED BY <1>6, <1>7 DEF ClockWrite

------------------------------------------------------------------------------------
CInv == BanksInv /\ LatchInv

LEMMA InvInit == Init => CInv
<1> SUFFICES ASSUME Init PROVE CInv OBVIOUS
<1>1. BanksInv BY BanksStart DEF Init
<1>2. busy \in BOOLEAN /\ polling \in BOOLEAN /\ reads \in 0..9
  <2>1. busy = TRUE /\ polling = FALSE /\ reads = 0 BY DEF Init, StatusInit
  <2>2. 0 \in 0..9 OBVIOUS
  <2> QED BY <2>1, <2>2
<1>3. ByteMax \in Nat \ {0} BY ByteAssumption
<1>4. bytes = [lo |-> 0, hi |-> 1] /\ latch = ByteMax + 1 BY DEF Init, StatusInit
<1>5. 0 \in 0..ByteMax /\ 1 \in 0..ByteMax BY <1>3
<1>6. latch = bytes.lo + (bytes.hi * (ByteMax + 1)) BY <1>3, <1>4
<1>7. bytes \in [lo: 0..ByteMax, hi: 0..ByteMax] BY <1>4, <1>5
<1>8. latch \in 0..((ByteMax + 1) * (ByteMax + 1)) - 1
  BY <1>4, <1>5, <1>6, WordRange
<1> QED BY <1>1, <1>2, <1>6, <1>7, <1>8 DEF CInv, LatchInv, LatchAssembled, StatusTypeOK

LEMMA InvNext ==
    ASSUME CInv, [Next]_vars
    PROVE  CInv'
<1>0. BanksInv /\ LatchInv BY DEF CInv
<1>1. ASSUME UNCHANGED <<use, banks, restored>> PROVE BanksInv'
  BY <1>0, <1>1
  DEF banks, BanksInv, BanksTypeOK, HistoryOK, Mirrors, Agrees, At, ReadsBack
<1>2. ASSUME UNCHANGED <<clock, restored>>, status' = status PROVE LatchInv'
  BY <1>0, <1>2 DEF clock, status, LatchInv, StatusTypeOK, LatchAssembled
<1>3. CASE UseBanks
  <2>1. UNCHANGED <<use, restored>> BY <1>3 DEF UseBanks
  <2>2. ASSUME NEW w \in use \cap Windows, NEW i \in Indexes, Select(w, i) PROVE BanksInv'
    BY <1>0, <2>1, <2>2, SelectKeeps
  <2>3. ASSUME NEW i \in Indexes, SelectConfig(i) PROVE BanksInv'
    <3>1. config' = i /\ UNCHANGED <<index, regs, chosen, wrote, seen>>
      BY <2>3 DEF SelectConfig, ConfigTo
    <3> QED BY <1>0, <2>1, <3>1
        DEF BanksInv, BanksTypeOK, HistoryOK, Mirrors, Agrees, At, ReadsBack
  <2>4. ASSUME NEW w \in use \cap Banks, NEW v \in Values, Store(w, v) PROVE BanksInv'
    BY <1>0, <2>1, <2>4, StoreKeeps
  <2>5. ASSUME NEW w \in use \cap Banks, Load(w) PROVE BanksInv'
    BY <1>0, <2>1, <2>5, LoadKeeps
  <2>6. BanksInv' BY <1>3, <2>2, <2>3, <2>4, <2>5 DEF UseBanks, Access
  <2>7. LatchInv' BY <1>2, <1>3 DEF UseBanks
  <2> QED BY <2>6, <2>7 DEF CInv
<1>4. CASE UseClock
  <2>1. ClockWrite /\ UNCHANGED <<use, banks, status, restored>> BY <1>4 DEF UseClock
  <2> QED BY <1>0, <1>1, <2>1, ClockKeeps DEF CInv
<1>5. CASE StartPoll \/ PollStatus
  <2>1. UNCHANGED <<use, banks, clock, restored>> BY <1>5 DEF StartPoll, PollStatus
  <2>2. busy \in BOOLEAN /\ reads \in 0..9 BY <1>0 DEF LatchInv, StatusTypeOK
  <2>3. busy' \in BOOLEAN /\ polling' \in BOOLEAN
    <3>1. CASE StartPoll BY <2>2, <3>1 DEF StartPoll, Poll
    <3>2. CASE PollStatus BY <3>2, <2>2 DEF PollStatus, ReadStatus, StillBusy
    <3> QED BY <1>5, <3>1, <3>2
  <2>4. reads' \in 0..9
    <3>1. CASE StartPoll BY <2>2, <3>1 DEF StartPoll, Poll
    <3>2. CASE PollStatus
      <4>1. reads' = IF reads < 9 THEN reads + 1 ELSE reads
        BY <3>2 DEF PollStatus, ReadStatus
      <4> QED BY <2>2, <4>1
    <3> QED BY <1>5, <3>1, <3>2
  <2>5. LatchInv'
    BY <1>0, <2>1, <2>3, <2>4 DEF clock, LatchInv, StatusTypeOK, LatchAssembled
  <2> QED BY <1>1, <2>1, <2>5 DEF CInv
<1>6. CASE Restore
  <2>1. /\ RestoreBanks /\ restored' = TRUE /\ UNCHANGED use
        /\ busy' = busy /\ reads' = 0 /\ latch' = ByteMax + 1 /\ UNCHANGED <<polling, bytes>>
    BY <1>6 DEF Restore, RestoreStatus, StatusRestoredAs
  <2>2. reads' \in 0..9 BY <2>1
  <2>3. latch' \in 0..((ByteMax + 1) * (ByteMax + 1)) - 1
    <3>1. 0 \in 0..ByteMax /\ 1 \in 0..ByteMax BY ByteAssumption
    <3>2. ByteMax + 1 = 0 + (1 * (ByteMax + 1)) BY ByteAssumption
    <3> QED BY <2>1, <3>1, <3>2, WordRange
  <2>4. LatchInv'
    BY <1>0, <2>1, <2>2, <2>3 DEF LatchInv, StatusTypeOK, LatchAssembled
  <2> QED BY <1>0, <2>1, <2>4, RestoreKeeps DEF CInv
<1>7. CASE UNCHANGED vars BY <1>1, <1>2, <1>7 DEF vars, CInv
<1> QED BY <1>3, <1>4, <1>5, <1>6, <1>7 DEF Next

\* The strengthened invariant holds always.
THEOREM Invariance == Spec => []CInv
<1>1. Init => CInv BY InvInit
<1>2. CInv /\ [Next]_vars => CInv' BY InvNext
<1> QED BY <1>1, <1>2, PTL DEF Spec

\* Every register, index and latch stays within its range (PC110ChipsetState).
THEOREM TypeCorrect == Spec => []TypeOK
<1>1. CInv => TypeOK BY DEF CInv, BanksInv, LatchInv, TypeOK
<1> QED BY <1>1, Invariance, PTL

\* A data read returns what the accessor of that register stored there, whatever the others
\* do in between, for any indexes and values, and for saved windows across a restore
\* (the handlers of 74h/76h, ECh, 15EAh, 24h, 35EAh, 70h and 80h-8Fh).
THEOREM ReadsBackHolds == Spec => []ReadsBack
<1>1. CInv => ReadsBack BY DEF CInv, BanksInv
<1> QED BY <1>1, Invariance, PTL

\* A clock latch holds the word assembled from any byte and word writes, whatever the
\* width of a byte (clk22_write and its copies).
THEOREM LatchAssembledHolds == Spec => []LatchAssembled
<1>1. CInv => LatchAssembled BY DEF CInv, LatchInv
<1> QED BY <1>1, Invariance, PTL

\* Once ready, the status port stays ready, across a restore too (ext15_read, vmstate).
THEOREM StaysReadyHolds == Spec => StaysReady
<1>1. ASSUME [Next]_vars PROVE [~busy => ~busy']_vars
  <2>1. SUFFICES ASSUME ~busy PROVE ~busy' OBVIOUS
  <2>2. CASE UseBanks \/ UseClock BY <2>1, <2>2 DEF UseBanks, UseClock, status
  <2>3. CASE StartPoll BY <2>1, <2>3 DEF StartPoll, Poll
  <2>4. CASE PollStatus BY <2>1, <2>4 DEF PollStatus, ReadStatus, StillBusy
  <2>5. CASE Restore BY <2>1, <2>5 DEF Restore, RestoreStatus, StatusRestoredAs
  <2>6. CASE UNCHANGED vars BY <2>1, <2>6 DEF vars, status
  <2> QED BY <1>1, <2>2, <2>3, <2>4, <2>5, <2>6 DEF Next
<1> QED BY <1>1, PTL DEF Spec, StaysReady

------------------------------------------------------------------------------------
(* Liveness.  Whether an action is enabled is the one thing the prover cannot tell: *)
(* what the theorem assumes about it has a name.                                    *)

\* The guard of PollStatus, as its ENABLED: a guest that waits can read 15ECh.
CanPoll == polling => ENABLED <<PollStatus>>_vars

\* A guest waits and has counted n reads at least.
Read(n) == polling /\ reads >= n

\* A read counts, and the ninth ends the wait.
LEMMA PollCounts ==
    ASSUME TypeOK, PollStatus, NEW n \in 0..8, Read(n)
    PROVE  /\ ~polling' \/ (n < 8 /\ Read(n + 1)')
           /\ ~polling' \/ Read(n)'
           /\ restored' = restored
<1>1. reads \in 0..9 /\ reads >= n BY DEF TypeOK, StatusTypeOK, Read
<1>2. /\ reads' = IF reads < 9 THEN reads + 1 ELSE reads
      /\ busy' = StillBusy(reads + 1) /\ polling' = busy'
  BY DEF PollStatus, ReadStatus
<1>3. restored' = restored BY DEF PollStatus
<1>4. CASE n < 8
  <2>1. reads' >= n + 1 /\ reads' >= n BY <1>1, <1>2, <1>4
  <2> QED BY <1>3, <1>4, <2>1 DEF Read
<1>5. CASE ~(n < 8)
  <2>1. ~(reads + 1 <= 8) BY <1>1, <1>5
  <2>2. ~polling' BY <1>2, <2>1 DEF StillBusy
  <2> QED BY <1>3, <2>2
<1> QED BY <1>4, <1>5

\* Nothing but a restore, of which there is one, takes the count back.
LEMMA ReadStays ==
    ASSUME TypeOK, [Next]_vars, NEW n \in 0..8, Read(n)
    PROVE  \/ ~polling'
           \/ Read(n)' /\ restored' = restored
           \/ Read(0)' /\ ~restored /\ restored'
<1>1. CASE UNCHANGED vars BY <1>1 DEF vars, status, Read
<1>2. CASE UseBanks BY <1>2 DEF UseBanks, status, Read
<1>3. CASE UseClock BY <1>3 DEF UseClock, status, Read
<1>4. CASE StartPoll BY <1>4 DEF StartPoll, Poll, Read
<1>5. CASE PollStatus BY <1>5, PollCounts
<1>6. CASE Restore
  <2>1. reads' = 0 /\ ~restored /\ restored'
    BY <1>6 DEF Restore, RestoreStatus, StatusRestoredAs
  <2>2. 0 >= 0 OBVIOUS
  <2>3. reads' >= 0 BY <2>1, <2>2
  <2> QED BY <2>1, <2>3 DEF Read
<1> QED BY <1>1, <1>2, <1>3, <1>4, <1>5, <1>6 DEF Next

\* Both, for any count at once.
LEMMA ReadOn ==
    ASSUME NEW n \in 0..8, TypeOK /\ [Next]_vars /\ Read(n)
    PROVE  /\ \/ ~polling'
              \/ Read(n)' /\ (restored => restored')
              \/ Read(0)' /\ restored' /\ ~restored
           /\ PollStatus => ~polling' \/ (n < 8 /\ Read(n + 1)')
BY PollCounts, ReadStays

\* Where a read of the status port is always possible, a guest that waits for 15ECh gets
\* through: after nine reads, or after a restore and nine more (ext15_read, vmstate).
THEOREM PollEndsHolds == FairSpec /\ []CanPoll => PollEnds
<1> DEFINE Step == TypeOK /\ [Next]_vars
           Fair == FairSpec /\ []CanPoll
           Kept(n) == Step /\ Read(n) =>
               \/ ~polling'
               \/ Read(n)' /\ (restored => restored')
               \/ Read(0)' /\ restored' /\ ~restored
           Counted(n, next) == Step /\ Read(n) /\ PollStatus => ~polling' \/ Read(next)'
<1>1. /\ TypeOK /\ polling => Read(0)
      /\ Read(0) \/ Read(1) \/ Read(2) \/ Read(3) \/ Read(4) \/ Read(5) \/ Read(6) \/ Read(7)
            \/ Read(8) => polling
  BY DEF TypeOK, StatusTypeOK, Read
<1>2. /\ Kept(0) /\ Kept(1) /\ Kept(2) /\ Kept(3) /\ Kept(4) /\ Kept(5) /\ Kept(6) /\ Kept(7)
      /\ Kept(8)
  BY ReadOn
<1>3. /\ Counted(0, 1) /\ Counted(1, 2) /\ Counted(2, 3) /\ Counted(3, 4) /\ Counted(4, 5)
      /\ Counted(5, 6) /\ Counted(6, 7) /\ Counted(7, 8)
      /\ Step /\ Read(8) /\ PollStatus => ~polling'
  BY ReadOn
<1>4. FairSpec => [][Next]_vars /\ []TypeOK /\ WF_vars(PollStatus)
  BY TypeCorrect, PTL DEF FairSpec, Spec
<1>5. Fair => ((polling /\ restored) ~> ~polling)
  BY <1>1, <1>2, <1>3, <1>4, PTL DEF CanPoll
<1>6. Fair => (polling ~> (~polling \/ (polling /\ restored)))
  BY <1>1, <1>2, <1>3, <1>4, PTL DEF CanPoll
<1> QED BY <1>5, <1>6, PTL DEF PollEnds
====================================================================================
