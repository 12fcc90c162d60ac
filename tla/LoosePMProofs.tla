-------------------------------- MODULE LoosePMProofs --------------------------------
(* Frames balance and levels are kept, for any set of selectors and any depth.      *)
EXTENDS LoosePM, SequenceTheorems, TLAPS

\* Where a frame leaves the stack.
Top(f) == IF f.back = Nowhere THEN [stack |-> f.from.stack, sp |-> f.from.sp + f.words]
          ELSE [stack |-> "ring0", sp |-> f.words]

\* Outside V86 mode there are frames only in protected mode, and real mode is level 0.
Quiet == /\ mode # "prot" => frames = <<>>
         /\ mode = "real" => cpl = 0

\* Each frame starts where the one before it ends.
Chain ==
    /\ frames # <<>> => at = Top(Latest)
    /\ \A i \in 1..Len(frames) - 1 : frames[i + 1].from = Top(frames[i])

\* Frames without SS:SP have the words their return takes; the others name the place
\* they came from.  In loose mode only those from V86 mode have SS:SP.
Shape(f) ==
    /\ f.back = Nowhere => f.words = WordsOf(f.by) + f.args /\ ~f.v86
    /\ f.back # Nowhere => f.back = [f.from EXCEPT !.sp = @ + f.args] /\ (f.v86 \/ ~booted)

Shapes == \A i \in 1..Len(frames) : Shape(frames[i]) /\ (frames[i].v86 => i = 1)

\* A faithful frame has SS:SP exactly if its routine runs at another level than the
\* caller's, which the pushed selector names.
Enters(f, inner) == ~f.v86 => (f.back = Nowhere <=> f.cs.sel.rpl = inner)

KeepsLevels ==
    ~booted =>
        /\ mode = "prot" => cs.sel.rpl = cpl
        /\ frames # <<>> => Enters(Latest, cpl)
        /\ \A i \in 1..Len(frames) - 1 : Enters(frames[i], frames[i + 1].cs.sel.rpl)

IInv == TypeOK /\ Quiet /\ Chain /\ Shapes /\ KeepsLevels

------------------------------------------------------------------------------------
\* Selectors, bases and levels stay among what they may be (the operators of patch 05).
LEMMA SelectorFacts ==
    ASSUME NEW s \in Selectors
    PROVE  /\ s \in Selector /\ SegmentLevel(s) \in Levels
           /\ \A l \in Levels : [s EXCEPT !.rpl = l] \in Selector
           /\ InTable(s) \in Bases /\ Paragraph(s) \in Bases /\ Resolved(s) \in Bases
           /\ RealMode(s) \in CodeSegments
<1>1. s \in Selector BY SelectorsAssumption
<1>2. \A l \in Levels : [s EXCEPT !.rpl = l] \in Selector BY <1>1 DEF Selector
<1>3. InTable(s) \in Bases /\ Paragraph(s) \in Bases /\ RealBase(s) \in Bases
  BY <1>1, <1>2 DEF InTable, Paragraph, RealBase, Bases, Levels
<1>4. Resolved(s) \in Bases BY <1>3 DEF Resolved
<1>5. RealMode(s) \in CodeSegments BY <1>1, <1>3 DEF RealMode, CodeSegments
<1>6. SegmentLevel(s) \in Levels BY <1>1 DEF SegmentLevel, Selector, Levels
<1> QED BY <1>1, <1>2, <1>3, <1>4, <1>5, <1>6

\* The same of a selector found on the stack.
LEMMA PoppedFacts ==
    ASSUME NEW s \in Selector
    PROVE  /\ InTable(s) \in Bases /\ Resolved(s) \in Bases
           /\ RealMode(s) \in CodeSegments
<1>1. [s EXCEPT !.rpl = 0] \in Selector BY DEF Selector, Levels
<1>2. InTable(s) \in Bases /\ Paragraph(s) \in Bases /\ RealBase(s) \in Bases
  BY <1>1 DEF InTable, Paragraph, RealBase, Bases
<1> QED BY <1>2 DEF Resolved, RealMode, CodeSegments

\* Indexes below the last.
LEMMA Between ==
    ASSUME NEW n \in Nat, NEW i \in 1..n, i # n
    PROVE  i \in 1..n - 1 /\ i + 1 \in 1..n
OBVIOUS

\* The stack positions a frame names are never the unmapped one.
LEMMA PositionFacts ==
    ASSUME NEW p \in Positions, NEW n \in Nat
    PROVE  /\ [p EXCEPT !.sp = @ + n] \in Positions
           /\ [p EXCEPT !.sp = @ + n] # Nowhere
           /\ [[p EXCEPT !.sp = @ + n] EXCEPT !.sp = @ - n] = p
<1>1. /\ p.stack \in Stacks /\ p.sp \in Nat
      /\ p = [stack |-> p.stack, sp |-> p.sp]
  BY DEF Positions
<1>2. [p EXCEPT !.sp = @ + n] = [stack |-> p.stack, sp |-> p.sp + n] BY <1>1
<1>3. p.sp + n \in Nat /\ (p.sp + n) - n = p.sp BY <1>1
<1> QED BY <1>1, <1>2, <1>3 DEF Positions, Nowhere, Stacks

------------------------------------------------------------------------------------
\* What an entry does: the new frame is the latest and ends where the stack now is.
LEMMA PushedHere ==
    ASSUME IInv, mode = "prot", NEW by \in {"call", "int"}, NEW n \in Nat,
           PushHere(by, n, WordsOf(by))
    PROVE  /\ frames' \in Seq(Frames) /\ at' \in Positions
           /\ Chain' /\ frames' # <<>>
           /\ Len(frames') = Len(frames) + 1 /\ SubSeq(frames', 1, Len(frames)) = frames
           /\ Latest' = [by |-> by, from |-> at, args |-> n, words |-> n + WordsOf(by),
                         cs |-> cs, v86 |-> FALSE, back |-> Nowhere]
<1> DEFINE f == [by |-> by, from |-> at, args |-> n, words |-> n + WordsOf(by),
                 cs |-> cs, v86 |-> FALSE, back |-> Nowhere]
<1>1. WordsOf(by) \in Nat /\ n + WordsOf(by) \in Nat BY DEF WordsOf
<1>2. f \in Frames BY <1>1 DEF IInv, TypeOK, Frames
<1>3. frames' = Append(frames, f) /\ frames \in Seq(Frames)
  BY DEF PushHere, IInv, TypeOK
<1>4. at \in Positions BY DEF IInv, TypeOK
<1>5. at' = [at EXCEPT !.sp = @ + n + WordsOf(by)] BY DEF PushHere
<1>6. at' = [stack |-> at.stack, sp |-> at.sp + (n + WordsOf(by))]
  BY <1>1, <1>4, <1>5 DEF Positions
<1>7. at' \in Positions BY <1>1, <1>4, <1>6 DEF Positions
<1> HIDE DEF f
<1>8. /\ frames' \in Seq(Frames) /\ frames' # <<>>
      /\ Len(frames') = Len(frames) + 1
      /\ SubSeq(frames', 1, Len(frames)) = frames
      /\ frames'[Len(frames')] = f
      /\ \A i \in 1..Len(frames) : frames'[i] = frames[i]
  BY <1>2, <1>3
<1>9. f.back = Nowhere /\ f.from = at /\ f.words = n + WordsOf(by) BY DEF f
<1>10. Top(f) = at' BY <1>6, <1>9 DEF Top
<1>11. Chain'
  <2>1. at' = Top(Latest)' BY <1>8, <1>10 DEF Latest, Top
  <2>2. ASSUME NEW i \in 1..Len(frames') - 1
        PROVE  frames'[i + 1].from = Top(frames'[i])
    <3>1. CASE i = Len(frames)
      BY <3>1, <1>8, <1>9 DEF IInv, Chain, Latest
    <3>2. CASE i # Len(frames)
      <4>1. Len(frames') = Len(frames) + 1 /\ Len(frames) \in Nat BY <1>8, <1>3
      <4>2. i \in 1..Len(frames) - 1 /\ i + 1 \in 1..Len(frames) BY <3>2, <4>1
      <4> QED BY <4>2, <1>8 DEF IInv, Chain
    <3> QED BY <3>1, <3>2
  <2> QED BY <2>1, <2>2 DEF Chain, Top
<1> QED BY <1>7, <1>8, <1>11 DEF f, Latest

LEMMA PushedInner ==
    ASSUME IInv, NEW by \in {"call", "int"}, NEW n \in Nat, NEW w \in Nat,
           PushInner(by, n, w)
    PROVE  /\ frames' \in Seq(Frames) /\ at' \in Positions
           /\ Chain' /\ frames' # <<>>
           /\ Len(frames') = Len(frames) + 1 /\ SubSeq(frames', 1, Len(frames)) = frames
           /\ Latest' = [by |-> by, from |-> at, args |-> n, words |-> n + w, cs |-> cs,
                         v86 |-> mode = "v86", back |-> [at EXCEPT !.sp = @ + n]]
           /\ [at EXCEPT !.sp = @ + n] # Nowhere
<1> DEFINE f == [by |-> by, from |-> at, args |-> n, words |-> n + w, cs |-> cs,
                 v86 |-> mode = "v86", back |-> [at EXCEPT !.sp = @ + n]]
<1>1. at \in Positions BY DEF IInv, TypeOK
<1>2. [at EXCEPT !.sp = @ + n] \in Positions /\ [at EXCEPT !.sp = @ + n] # Nowhere
  BY <1>1, PositionFacts
<1>3. (mode = "v86") \in BOOLEAN OBVIOUS
<1>4. f \in Frames BY <1>1, <1>2, <1>3 DEF IInv, TypeOK, Frames
<1>5. frames' = Append(frames, f) /\ frames \in Seq(Frames)
  BY DEF PushInner, IInv, TypeOK
<1>6. at' = [stack |-> "ring0", sp |-> n + w] BY DEF PushInner
<1>7. at' \in Positions BY <1>6 DEF Positions, Stacks
<1> HIDE DEF f
<1>8. /\ frames' \in Seq(Frames) /\ frames' # <<>>
      /\ Len(frames') = Len(frames) + 1
      /\ SubSeq(frames', 1, Len(frames)) = frames
      /\ frames'[Len(frames')] = f
      /\ \A i \in 1..Len(frames) : frames'[i] = frames[i]
  BY <1>4, <1>5
<1>9. f.back # Nowhere /\ f.from = at /\ f.words = n + w BY <1>2 DEF f
<1>10. Top(f) = at' BY <1>6, <1>9 DEF Top
<1>11. Chain'
  <2>1. at' = Top(Latest)' BY <1>8, <1>10 DEF Latest, Top
  <2>2. ASSUME NEW i \in 1..Len(frames') - 1
        PROVE  frames'[i + 1].from = Top(frames'[i])
    <3>1. CASE i = Len(frames)
      BY <3>1, <1>8, <1>9 DEF IInv, Chain, Latest
    <3>2. CASE i # Len(frames)
      <4>1. Len(frames') = Len(frames) + 1 /\ Len(frames) \in Nat BY <1>8, <1>5
      <4>2. i \in 1..Len(frames) - 1 /\ i + 1 \in 1..Len(frames) BY <3>2, <4>1
      <4> QED BY <4>2, <1>8 DEF IInv, Chain
    <3> QED BY <3>1, <3>2
  <2> QED BY <2>1, <2>2 DEF Chain, Top
<1> QED BY <1>2, <1>7, <1>8, <1>11 DEF f, Latest

\* What a return finds.
LEMMA Popped ==
    ASSUME IInv, frames # <<>>, frames' = Rest
    PROVE  /\ frames' \in Seq(Frames) /\ Latest \in Frames
           /\ Len(frames) \in Nat \ {0} /\ Len(frames') = Len(frames) - 1
           /\ \A i \in 1..Len(frames) - 1 : frames'[i] = frames[i]
           /\ frames' # <<>> => Latest.from = Top(frames'[Len(frames')])
           /\ \A i \in 1..Len(frames') - 1 : frames'[i + 1].from = Top(frames'[i])
           /\ Shape(Latest)
<1>1. frames \in Seq(Frames) BY DEF IInv, TypeOK
<1>2. Len(frames) \in Nat \ {0} /\ Latest \in Frames BY <1>1 DEF Latest
<1>3. /\ frames' \in Seq(Frames) /\ Len(frames') = Len(frames) - 1
      /\ \A i \in 1..Len(frames) - 1 : frames'[i] = frames[i]
  <2> DEFINE n == Len(frames) - 1
  <2>1. n \in Nat /\ n \in Int /\ \A i \in 1..n : frames[i] \in Frames BY <1>1, <1>2
  <2>2. frames' = SubSeq(frames, 1, n) BY DEF Rest
  <2> HIDE DEF n
  <2>3. /\ SubSeq(frames, 1, n) \in Seq(Frames)
        /\ Len(SubSeq(frames, 1, n)) = (IF 1 <= n THEN n - 1 + 1 ELSE 0)
        /\ \A i \in 1..n - 1 + 1 : SubSeq(frames, 1, n)[i] = frames[1 + i - 1]
    BY <2>1, SubSeqProperties
  <2>4. \A i \in 1..n : i \in 1..n - 1 + 1 /\ 1 + i - 1 = i BY <2>1
  <2>5. Len(SubSeq(frames, 1, n)) = n BY <2>1, <2>3
  <2>6. \A i \in 1..n : SubSeq(frames, 1, n)[i] = frames[i] BY <2>3, <2>4
  <2> QED BY <2>2, <2>3, <2>5, <2>6 DEF n
<1>4. ASSUME frames' # <<>>
      PROVE  Latest.from = Top(frames'[Len(frames')])
  <2>1. Len(frames') \in 1..Len(frames) - 1 /\ Len(frames') + 1 = Len(frames)
    BY <1>2, <1>3, <1>4
  <2> QED BY <2>1, <1>3 DEF IInv, Chain, Latest
<1>5. ASSUME NEW i \in 1..Len(frames') - 1
      PROVE  frames'[i + 1].from = Top(frames'[i])
  <2>1. i \in 1..Len(frames) - 1 /\ i + 1 \in 1..Len(frames) - 1 BY <1>2, <1>3
  <2> QED BY <2>1, <1>3 DEF IInv, Chain
<1>6. Shape(Latest) BY <1>2 DEF IInv, Shapes, Latest
<1> QED BY <1>2, <1>3, <1>4, <1>5, <1>6

\* Every return puts the stack back: the plain ones by taking off what the entry put on,
\* the others with the SS:SP the entry pushed, and each meets the kind of frame it takes.
LEMMA ReturnRestores ==
    ASSUME IInv, Return
    PROVE  at' = Latest.from
<1>1. /\ frames # <<>> /\ frames' = Rest /\ mode = "prot" BY DEF Return
<1>2. /\ Latest \in Frames /\ Shape(Latest) /\ Len(frames) \in Nat \ {0} BY <1>1, Popped
<1>3. /\ Latest.from \in Positions /\ Latest.args \in Nat BY <1>2 DEF Frames
<1>4. ASSUME Latest.back = Nowhere, PopHere PROVE at' = Latest.from
  <2>1. at = [stack |-> Latest.from.stack, sp |-> Latest.from.sp + (WordsOf(Latest.by) + Latest.args)]
    BY <1>1, <1>2, <1>4 DEF IInv, Chain, Top, Shape
  <2>2. /\ Latest.from.sp \in Nat /\ WordsOf(Latest.by) + Latest.args \in Nat
        /\ Latest.from = [stack |-> Latest.from.stack, sp |-> Latest.from.sp]
    BY <1>3 DEF Positions, WordsOf
  <2> DEFINE n == WordsOf(Latest.by) + Latest.args
             k == Latest.from.sp
  <2>3. at' = [at EXCEPT !.sp = @ - n] BY <1>4 DEF PopHere
  <2> HIDE DEF n
  <2>4. n \in Nat /\ at = [stack |-> Latest.from.stack, sp |-> k + n] BY <2>1, <2>2 DEF n
  <2>5. at' = [stack |-> Latest.from.stack, sp |-> (k + n) - n] BY <2>3, <2>4
  <2>6. (k + n) - n = k BY <2>2, <2>4
  <2> QED BY <2>2, <2>5, <2>6
<1>5. ASSUME Latest.back # Nowhere, PopOuter PROVE at' = Latest.from
  BY <1>2, <1>3, <1>5, PositionFacts DEF PopOuter, Shape
<1>6. CASE Latest.v86 /\ V86Return
  BY <1>2, <1>5, <1>6 DEF V86Return, Shape
<1>7. CASE ~Latest.v86 /\ Loose /\ LooseReturn
  BY <1>2, <1>4, <1>7 DEF LooseReturn, Shape, Loose
<1>8. CASE ~Latest.v86 /\ ~Loose /\ FaithfulReturn
  <2>1. Latest.back = Nowhere <=> Latest.cs.sel.rpl = cpl
    BY <1>1, <1>8 DEF IInv, KeepsLevels, Enters, Loose
  <2> QED BY <2>1, <1>4, <1>5, <1>8 DEF FaithfulReturn
<1> QED BY <1>6, <1>7, <1>8 DEF Return

------------------------------------------------------------------------------------
LEMMA InvInit == Init => IInv
<1> SUFFICES ASSUME Init PROVE IInv OBVIOUS
<1>1. frames = <<>> /\ frames \in Seq(Frames) BY DEF Init
<1>2. cs \in CodeSegments BY SelectorFacts DEF Init
<1>3. cpl \in Levels /\ at \in Positions BY DEF Init, Levels, Positions, Stacks
<1>4. booted \in BOOLEAN /\ mode \in {"real", "prot", "v86"} BY DEF Init
<1>5. TypeOK BY <1>1, <1>2, <1>3, <1>4 DEF TypeOK
<1> QED BY <1>1, <1>5 DEF Init, IInv, Quiet, Chain, Shapes, KeepsLevels

\* Steps that leave the frames alone.
LEMMA KeepFrames ==
    ASSUME IInv, TypeOK', Quiet', UNCHANGED <<at, frames>>,
           booted' = booted \/ frames = <<>>,
           ~booted' => /\ mode' = "prot" => cs'.sel.rpl = cpl'
                       /\ frames # <<>> => cpl' = cpl
    PROVE  IInv'
<1>1. Chain' BY DEF IInv, Chain, Top, Latest
<1>2. Shapes' BY DEF IInv, Shapes, Shape
<1>3. KeepsLevels' BY DEF IInv, KeepsLevels, Enters, Latest
<1> QED BY <1>1, <1>2, <1>3 DEF IInv

\* Steps that end with no frame on the stack.
LEMMA NoFrames ==
    ASSUME TypeOK', Quiet', frames' = <<>>,
           ~booted' => (mode' = "prot" => cs'.sel.rpl = cpl')
    PROVE  IInv'
<1>1. Chain' /\ Shapes' BY DEF Chain, Shapes
<1> QED BY <1>1 DEF IInv, KeepsLevels

\* Steps that push a frame, from what PushedHere and PushedInner say.
LEMMA OneMoreFrame ==
    ASSUME IInv, booted' = booted, mode' = "prot", frames' # <<>>, frames' \in Seq(Frames),
           cpl' \in Levels, cs' \in CodeSegments, at' \in Positions,
           Len(frames') = Len(frames) + 1, SubSeq(frames', 1, Len(frames)) = frames,
           Chain', Shape(Latest)', Latest'.v86 => frames = <<>>,
           ~booted => /\ cs'.sel.rpl = cpl'
                      /\ Enters(Latest', cpl')
                      /\ Latest'.cs.sel.rpl = cpl \/ frames = <<>>
    PROVE  IInv'
<1>1. TypeOK' BY DEF TypeOK, IInv
<1>2. Quiet' BY DEF Quiet
<1>3. /\ Len(frames) \in Nat /\ Len(frames') = Len(frames) + 1
      /\ Latest' = frames'[Len(frames) + 1]
      /\ \A i \in 1..Len(frames) : frames'[i] = frames[i]
  <2>1. Len(frames) \in Nat BY DEF IInv, TypeOK
  <2>2. \A i \in 1..Len(frames) : SubSeq(frames', 1, Len(frames))[i] = frames'[i] BY <2>1
  <2> QED BY <2>1, <2>2 DEF Latest
<1>4. Shapes'
  <2>1. ASSUME NEW i \in 1..Len(frames')
        PROVE  Shape(frames[i])' /\ (frames'[i].v86 => i = 1)
    <3>1. CASE i = Len(frames) + 1
      <4>1. Shape(frames[i])' BY <3>1, <1>3 DEF Latest
      <4>2. frames'[i].v86 => i = 1 BY <3>1, <1>3
      <4> QED BY <4>1, <4>2
    <3>2. CASE i # Len(frames) + 1
      <4>1. i \in 1..Len(frames) /\ frames'[i] = frames[i] BY <3>2, <1>3
      <4> QED BY <4>1 DEF IInv, Shapes, Shape
    <3> QED BY <3>1, <3>2
  <2> QED BY <2>1 DEF Shapes
<1>5. KeepsLevels'
  <2>1. SUFFICES ASSUME ~booted
        PROVE  \A i \in 1..Len(frames') - 1 : Enters(frames'[i], frames'[i + 1].cs.sel.rpl)
    BY DEF KeepsLevels, Latest, Enters
  <2>2. ASSUME NEW i \in 1..Len(frames') - 1
        PROVE  Enters(frames'[i], frames'[i + 1].cs.sel.rpl)
    <3>1. i \in 1..Len(frames) /\ frames'[i] = frames[i] BY <1>3
    <3>2. CASE i = Len(frames)
      <4>1. frames # <<>> /\ Latest = frames[i] BY <3>1, <3>2, <1>3 DEF Latest
      <4>2. Enters(frames[i], cpl) BY <4>1, <2>1 DEF IInv, KeepsLevels
      <4> QED BY <4>1, <4>2, <3>1, <3>2, <1>3, <2>1
    <3>3. CASE i # Len(frames)
      <4>1. i \in 1..Len(frames) /\ Len(frames) \in Nat BY <3>1, <1>3
      <4>2. i \in 1..Len(frames) - 1 /\ i + 1 \in 1..Len(frames) BY <4>1, <3>3, Between
      <4> QED BY <4>2, <3>1, <1>3, <2>1 DEF IInv, KeepsLevels
    <3> QED BY <3>2, <3>3
  <2> QED BY <2>2
<1> QED BY <1>1, <1>2, <1>4, <1>5 DEF IInv

------------------------------------------------------------------------------------
\* A far call or an interrupt that stays on the stack in use.
LEMMA EntersHere ==
    ASSUME IInv, mode = "prot", NEW by \in {"call", "int"}, NEW n \in Nat,
           PushHere(by, n, WordsOf(by)), UNCHANGED <<booted, mode, cpl>>,
           cs' \in CodeSegments, ~booted => cs'.sel.rpl = cpl
    PROVE  IInv'
<1> DEFINE f == [by |-> by, from |-> at, args |-> n, words |-> n + WordsOf(by),
                 cs |-> cs, v86 |-> FALSE, back |-> Nowhere]
<1>1. /\ frames' \in Seq(Frames) /\ at' \in Positions /\ Chain' /\ frames' # <<>>
      /\ Len(frames') = Len(frames) + 1 /\ SubSeq(frames', 1, Len(frames)) = frames
      /\ Latest' = f
  BY PushedHere
<1>2. /\ f.back = Nowhere /\ f.words = n + WordsOf(by) /\ f.by = by /\ f.args = n
      /\ f.v86 = FALSE /\ f.cs = cs
  OBVIOUS
<1> HIDE DEF f
<1>3. Shape(Latest)'
  <2>1. n + WordsOf(by) = WordsOf(by) + n BY DEF WordsOf
  <2> QED BY <1>1, <1>2, <2>1 DEF Shape
<1>4. Latest'.v86 => frames = <<>> BY <1>1, <1>2
<1>5. cpl' \in Levels BY DEF IInv, TypeOK
<1>6. ~booted => /\ cs'.sel.rpl = cpl'
                 /\ Enters(Latest', cpl')
                 /\ Latest'.cs.sel.rpl = cpl
  BY <1>1, <1>2 DEF IInv, KeepsLevels, Enters
<1> QED BY <1>1, <1>3, <1>4, <1>5, <1>6, OneMoreFrame

\* An entry that switches to the stack of level 0, from another level or from V86 mode.
LEMMA EntersInner ==
    ASSUME IInv, NEW by \in {"call", "int"}, NEW n \in Nat, NEW w \in Nat,
           PushInner(by, n, w), mode # "real", booted' = booted, mode' = "prot",
           cpl' \in Levels, cs' \in CodeSegments,
           mode = "v86" \/ (~booted /\ cpl' # cpl),
           ~booted => cs'.sel.rpl = cpl'
    PROVE  IInv'
<1> DEFINE b == [at EXCEPT !.sp = @ + n]
           f == [by |-> by, from |-> at, args |-> n, words |-> n + w, cs |-> cs,
                 v86 |-> mode = "v86", back |-> b]
<1>1. /\ frames' \in Seq(Frames) /\ at' \in Positions /\ Chain' /\ frames' # <<>>
      /\ Len(frames') = Len(frames) + 1 /\ SubSeq(frames', 1, Len(frames)) = frames
      /\ Latest' = f /\ b # Nowhere
  BY PushedInner
<1>2. /\ f.back = b /\ f.from = at /\ f.args = n /\ f.v86 = (mode = "v86") /\ f.cs = cs
      /\ b = [at EXCEPT !.sp = @ + n]
  OBVIOUS
<1> HIDE DEF f, b
<1>3. f.v86 <=> mode = "v86" BY <1>2
<1>4. Shape(Latest)' BY <1>1, <1>2, <1>3 DEF Shape
<1>5. Latest'.v86 => frames = <<>> BY <1>1, <1>3 DEF IInv, Quiet
<1>6. mode = "v86" => frames = <<>> BY DEF IInv, Quiet
<1>7. ~booted => /\ cs'.sel.rpl = cpl'
                 /\ Enters(Latest', cpl')
                 /\ Latest'.cs.sel.rpl = cpl \/ frames = <<>>
  <2>1. CASE mode = "v86" BY <2>1, <1>1, <1>3, <1>6 DEF Enters
  <2>2. CASE mode # "v86"
    <3>1. IInv /\ mode \in {"real", "prot", "v86"} BY DEF IInv, TypeOK
    <3>2. mode = "prot" BY <2>2, <3>1
    <3> QED BY <3>2, <2>2, <1>1, <1>2, <1>3 DEF IInv, KeepsLevels, Enters
  <2> QED BY <2>1, <2>2
<1> QED BY <1>1, <1>4, <1>5, <1>7, OneMoreFrame

LEMMA ReturnKeeps ==
    ASSUME IInv, Return
    PROVE  IInv'
<1>1. /\ frames # <<>> /\ frames' = Rest /\ mode = "prot" /\ booted' = booted BY DEF Return
<1>2. /\ frames' \in Seq(Frames) /\ Latest \in Frames
      /\ Len(frames) \in Nat \ {0} /\ Len(frames') = Len(frames) - 1
      /\ \A i \in 1..Len(frames) - 1 : frames'[i] = frames[i]
      /\ frames' # <<>> => Latest.from = Top(frames'[Len(frames')])
      /\ \A i \in 1..Len(frames') - 1 : frames'[i + 1].from = Top(frames'[i])
  BY <1>1, Popped
<1>3. at' = Latest.from /\ Latest.from \in Positions BY <1>2, ReturnRestores DEF Frames
<1>4. Latest.cs.sel \in Selector /\ Latest.cs.sel.rpl \in Levels /\ Latest.cs \in CodeSegments
  BY <1>2 DEF Frames, CodeSegments, Selector
<1>5. Latest.v86 => Len(frames) = 1 BY <1>2 DEF IInv, Shapes, Latest
<1>6. /\ cs' \in CodeSegments /\ cpl' \in Levels /\ mode' \in {"prot", "v86"}
      /\ mode' = "v86" => frames' = <<>>
      /\ ~booted /\ mode' = "prot" => cs'.sel.rpl = cpl' /\ cpl' = Latest.cs.sel.rpl
  <2>1. CASE Latest.v86 /\ V86Return
    <3>1. cs' \in CodeSegments BY <1>4, <2>1, PoppedFacts DEF V86Return
    <3>2. mode' = "v86" /\ cpl' = 3 BY <2>1 DEF V86Return
    <3>3. frames' = <<>>
      <4>1. Len(frames) = 1 BY <1>5, <2>1
      <4>2. Len(frames') = Len(frames) - 1 BY <1>2
      <4>3. frames' \in Seq(Frames) BY <1>2
      <4>4. Len(frames') = 0 BY <4>1, <4>2
      <4> QED BY <4>3, <4>4, EmptySeq
    <3> QED BY <3>1, <3>2, <3>3 DEF Levels
  <2>2. CASE ~Latest.v86 /\ Loose /\ LooseReturn
    <3>1. cs' \in CodeSegments BY <1>4, <2>2, PoppedFacts DEF LooseReturn, CodeSegments
    <3>2. mode' = "prot" /\ cpl' = cpl /\ booted BY <1>1, <2>2 DEF LooseReturn, Loose
    <3> QED BY <3>1, <3>2 DEF IInv, TypeOK
  <2>3. CASE ~Latest.v86 /\ ~Loose /\ FaithfulReturn
    <3>1. cs' \in CodeSegments BY <1>4, <2>3, PoppedFacts DEF FaithfulReturn, CodeSegments
    <3>2. mode' = "prot" /\ cpl' = Latest.cs.sel.rpl /\ cs'.sel = Latest.cs.sel
      BY <1>1, <2>3 DEF FaithfulReturn
    <3> QED BY <3>1, <3>2, <1>4
  <2> QED BY <2>1, <2>2, <2>3 DEF Return
<1>7. TypeOK'
  <2>1. booted' \in BOOLEAN BY <1>1 DEF IInv, TypeOK
  <2> QED BY <1>2, <1>3, <1>6, <2>1 DEF TypeOK
<1>8. Quiet' BY <1>6 DEF Quiet
<1>9. Chain' BY <1>2, <1>3 DEF Chain, Latest, Top
<1>10. Shapes'
  <2>1. \A i \in 1..Len(frames') : i \in 1..Len(frames) /\ frames'[i] = frames[i] BY <1>2
  <2> QED BY <2>1, <1>1 DEF IInv, Shapes, Shape
<1>11. KeepsLevels'
  <2> SUFFICES ASSUME ~booted
               PROVE  /\ mode' = "prot" => cs'.sel.rpl = cpl'
                      /\ frames' # <<>> => Enters(Latest', cpl')
                      /\ \A i \in 1..Len(frames') - 1 :
                            Enters(frames'[i], frames'[i + 1].cs.sel.rpl)
    BY <1>1 DEF KeepsLevels, Enters, Latest
  <2>1. ASSUME frames' # <<>> PROVE Enters(Latest', cpl')
    <3> DEFINE n == Len(frames')
    <3>1. n \in 1..Len(frames) - 1 /\ n + 1 = Len(frames) BY <1>2, <2>1
    <3>2. Latest' = frames[n] /\ Latest = frames[n + 1] BY <3>1, <1>2 DEF Latest
    <3>3. cpl' = Latest.cs.sel.rpl BY <1>6, <2>1
    <3> QED BY <3>1, <3>2, <3>3 DEF IInv, KeepsLevels
  <2>2. ASSUME NEW i \in 1..Len(frames') - 1
        PROVE  Enters(frames'[i], frames'[i + 1].cs.sel.rpl)
    <3>1. i \in 1..Len(frames) - 1 /\ i + 1 \in 1..Len(frames) - 1 BY <1>2
    <3> QED BY <3>1, <1>2 DEF IInv, KeepsLevels
  <2> QED BY <1>6, <2>1, <2>2
<1> QED BY <1>7, <1>8, <1>9, <1>10, <1>11 DEF IInv

------------------------------------------------------------------------------------
LEMMA InvNext ==
    ASSUME IInv, [Next]_vars
    PROVE  IInv'
<1>0. TypeOK /\ Quiet BY DEF IInv
<1>1. CASE Boot
  <2>1. TypeOK' /\ Quiet' BY <1>0, <1>1 DEF Boot, TypeOK, Quiet
  <2>2. frames = <<>> BY <1>0, <1>1 DEF Boot, Quiet
  <2> QED BY <1>1, <2>1, <2>2, KeepFrames DEF Boot
<1>2. CASE EnterProt
  <2>1. cpl = 0 /\ frames = <<>> BY <1>0, <1>2 DEF EnterProt, Quiet
  <2>2. cs' \in CodeSegments /\ (~booted => cs'.sel.rpl = 0)
    <3>1. ASSUME NEW s \in Selectors, cs' = [sel |-> [s EXCEPT !.rpl = 0], base |-> InTable(s)]
          PROVE  cs' \in CodeSegments /\ cs'.sel.rpl = 0
      <4>1. [s EXCEPT !.rpl = 0] \in Selector /\ InTable(s) \in Bases /\ s \in Selector
        <5>1. s \in Selector /\ InTable(s) \in Bases BY SelectorFacts
        <5>2. [s EXCEPT !.rpl = 0] \in Selector BY <5>1 DEF Selector, Levels
        <5> QED BY <5>1, <5>2
      <4> QED BY <3>1, <4>1 DEF CodeSegments, Selector
    <3>2. CASE Loose /\ UNCHANGED cs BY <1>0, <3>2 DEF TypeOK, Loose
    <3> QED BY <1>2, <3>1, <3>2 DEF EnterProt
  <2>3. TypeOK' BY <1>0, <1>2, <2>2 DEF EnterProt, TypeOK
  <2>4. Quiet' BY <1>2, <2>1 DEF EnterProt, Quiet
  <2> QED BY <1>2, <2>1, <2>2, <2>3, <2>4, KeepFrames DEF EnterProt
<1>3. CASE LeaveProt
  <2>1. cs' \in CodeSegments BY <1>3, SelectorFacts DEF LeaveProt
  <2>2. frames' \in Seq(Frames) /\ at' \in Positions /\ cpl' \in Levels
    BY <1>3 DEF LeaveProt, Positions, Stacks, Levels
  <2>3. TypeOK' BY <1>0, <1>3, <2>1, <2>2 DEF LeaveProt, TypeOK
  <2> QED BY <1>3, <2>3, NoFrames DEF LeaveProt, Quiet
<1>4. CASE EnterV86
  <2>1. cs' \in CodeSegments BY <1>4, SelectorFacts DEF EnterV86
  <2>2. cpl' \in Levels BY <1>4 DEF EnterV86, Levels
  <2>3. TypeOK' BY <1>0, <1>4, <2>1, <2>2 DEF EnterV86, TypeOK
  <2> QED BY <1>4, <2>3, NoFrames DEF EnterV86, Quiet
<1>5. ASSUME NEW s \in Selectors, EnterRing3(s) PROVE IInv'
  <2>1. s \in Selector /\ InTable(s) \in Bases BY SelectorFacts
  <2>2. cs' \in CodeSegments /\ cs'.sel.rpl = 3 BY <1>5, <2>1 DEF EnterRing3, CodeSegments
  <2>3. cpl' = 3 /\ cpl' \in Levels BY <1>5 DEF EnterRing3, Levels
  <2>4. TypeOK' BY <1>0, <1>5, <2>2, <2>3 DEF EnterRing3, TypeOK
  <2> QED BY <1>5, <2>2, <2>3, <2>4, NoFrames DEF EnterRing3, Quiet
<1>6. ASSUME NEW s \in Selectors, LoadSS(s) PROVE IInv'
  <2>1. SegmentLevel(s) \in Levels BY SelectorFacts
  <2>2. TypeOK' /\ Quiet' BY <1>0, <1>6, <2>1 DEF LoadSS, TypeOK, Quiet
  <2>3. ~booted => cpl' = cpl BY <1>6 DEF LoadSS, Loose, SegmentLevel, HasAccess
  <2>4. ~booted => cs'.sel.rpl = cpl' BY <1>6, <2>3 DEF LoadSS, IInv, KeepsLevels
  <2> QED BY <1>6, <2>2, <2>3, <2>4, KeepFrames DEF LoadSS
<1>7. ASSUME NEW s \in Selectors, LoadCS(s)
      PROVE  cs' \in CodeSegments /\ (~booted => cs'.sel.rpl = cpl)
  <2>1. /\ s \in Selector /\ Resolved(s) \in Bases /\ InTable(s) \in Bases
        /\ cpl \in Levels /\ [s EXCEPT !.rpl = cpl] \in Selector
    BY <1>0, SelectorFacts DEF TypeOK
  <2>2. CASE booted BY <1>7, <2>1, <2>2 DEF LoadCS, Loose, CodeSegments
  <2>3. CASE ~booted
    <3>1. cs' = [sel |-> [s EXCEPT !.rpl = cpl], base |-> InTable(s)]
      BY <1>7, <2>3 DEF LoadCS, Loose
    <3>2. [s EXCEPT !.rpl = cpl].rpl = cpl BY <2>1 DEF Selector
    <3> QED BY <2>1, <3>1, <3>2 DEF CodeSegments
  <2> QED BY <2>2, <2>3
<1>8. ASSUME NEW s \in Selectors, FarJump(s) PROVE IInv'
  <2>1. cs' \in CodeSegments /\ (~booted => cs'.sel.rpl = cpl) BY <1>7, <1>8 DEF FarJump
  <2>2. TypeOK' /\ Quiet' BY <1>0, <1>8, <2>1 DEF FarJump, TypeOK, Quiet
  <2> QED BY <1>8, <2>1, <2>2, KeepFrames DEF FarJump
<1>9. ASSUME NEW s \in Selectors, NEW n \in Args, FarCall(s, n) PROVE IInv'
  <2>1. cs' \in CodeSegments /\ (~booted => cs'.sel.rpl = cpl) BY <1>7, <1>9 DEF FarCall
  <2>2. n \in Nat /\ "call" \in {"call", "int"} /\ WordsOf("call") = 2
    BY ArgsAssumption DEF WordsOf
  <2>3. mode = "prot" /\ PushHere("call", n, WordsOf("call")) /\ UNCHANGED <<booted, mode, cpl>>
    BY <1>9, <2>2 DEF FarCall
  <2> QED BY <2>1, <2>2, <2>3, EntersHere
<1>10. ASSUME NEW s \in Selectors, NEW n \in Args, CallGate(s, n) PROVE IInv'
  <2>1. n \in Nat /\ "call" \in {"call", "int"} /\ WordsOf("call") = 2
    BY ArgsAssumption DEF WordsOf
  <2>2. GateCode \in Selector /\ GateCode.rpl = 0 BY DEF GateCode, Selector, Kinds, Levels
  <2>3. cs' = [sel |-> GateCode, base |-> InTable(GateCode)] /\ cpl' = 0
    BY <1>10 DEF CallGate
  <2>4. cs' \in CodeSegments /\ cs'.sel.rpl = 0 /\ cpl' \in Levels
    BY <2>2, <2>3, PoppedFacts DEF CodeSegments, Levels
  <2>5. CASE cpl = 0
    <3>1. mode = "prot" /\ PushHere("call", n, WordsOf("call")) /\ UNCHANGED <<booted, mode, cpl>>
      BY <1>10, <2>1, <2>5 DEF CallGate
    <3> QED BY <2>1, <2>4, <2>5, <3>1, EntersHere
  <2>6. CASE cpl # 0
    <3>1. /\ mode = "prot" /\ ~booted /\ PushInner("call", n, 4)
          /\ booted' = booted /\ mode' = "prot" /\ cpl' # cpl
      BY <1>10, <2>3, <2>6 DEF CallGate, Loose
    <3> QED BY <2>1, <2>3, <2>4, <3>1, EntersInner
  <2> QED BY <2>5, <2>6
<1>11. ASSUME NEW s \in Selectors, Interrupt(s) PROVE IInv'
  <2> DEFINE level == HandlerLevel(s)
  <2>1. /\ s \in Selector /\ SegmentLevel(s) \in Levels /\ cpl \in Levels
        /\ Paragraph(s) \in Bases /\ InTable(s) \in Bases
    BY <1>0, SelectorFacts DEF TypeOK
  <2>2. level \in Levels BY <2>1 DEF HandlerLevel
  <2>3. Loose /\ mode # "v86" => level = cpl BY DEF HandlerLevel
  <2>4. DeliverAt(level, s) /\ mode # "real" BY <1>11 DEF Interrupt
  <2> HIDE DEF level
  <2>5. [s EXCEPT !.rpl = level] \in Selector /\ [s EXCEPT !.rpl = level].rpl = level
    BY <2>1, <2>2 DEF Selector
  <2>6. /\ cs'.sel = [s EXCEPT !.rpl = level] /\ cs' \in CodeSegments
        /\ cpl' = level /\ mode' = "prot" /\ booted' = booted
    BY <2>1, <2>4, <2>5 DEF DeliverAt, CodeSegments
  <2>7. cs'.sel.rpl = cpl' /\ cpl' \in Levels BY <2>2, <2>5, <2>6
  <2>8. "int" \in {"call", "int"} /\ WordsOf("int") = 3 /\ 0 \in Nat /\ 5 \in Nat /\ 9 \in Nat
    BY DEF WordsOf
  <2>9. CASE level = cpl /\ mode = "prot" /\ PushHere("int", 0, 3)
    <3>1. PushHere("int", 0, WordsOf("int")) /\ UNCHANGED <<booted, mode, cpl>>
      BY <2>6, <2>8, <2>9
    <3> QED BY <2>6, <2>7, <2>8, <2>9, <3>1, EntersHere
  <2>10. CASE level < cpl /\ mode = "prot" /\ PushInner("int", 0, 5)
    <3>1. level # cpl BY <2>1, <2>2, <2>10 DEF Levels
    <3>2. ~booted /\ cpl' # cpl BY <3>1, <2>3, <2>6, <2>10 DEF Loose
    <3> QED BY <2>4, <2>6, <2>7, <2>8, <2>10, <3>2, EntersInner
  <2>11. CASE level = 0 /\ mode = "v86" /\ PushInner("int", 0, 9)
    BY <2>4, <2>6, <2>7, <2>8, <2>11, EntersInner
  <2> QED BY <2>4, <2>9, <2>10, <2>11 DEF DeliverAt
<1>12. CASE Return BY <1>12, ReturnKeeps
<1>13. CASE UNCHANGED vars
  <2>1. TypeOK' /\ Quiet' BY <1>0, <1>13 DEF vars, TypeOK, Quiet
  <2>2. ~booted => (mode' = "prot" => cs'.sel.rpl = cpl')
    BY <1>13 DEF vars, IInv, KeepsLevels
  <2> QED BY <1>13, <2>1, <2>2, KeepFrames DEF vars
<1> QED
  BY <1>1, <1>2, <1>3, <1>4, <1>5, <1>6, <1>8, <1>9, <1>10, <1>11, <1>12, <1>13 DEF Next

\* The strengthened invariant holds always.
THEOREM Invariance == Spec => []IInv
<1>1. Init => IInv BY InvInit
<1>2. IInv /\ [Next]_vars => IInv' BY InvNext
<1> QED BY <1>1, <1>2, PTL DEF Spec

\* Every variable stays within its type, whatever selectors, arguments and depth (patch 05).
THEOREM TypeCorrect == Spec => []TypeOK
<1>1. IInv => TypeOK BY DEF IInv
<1> QED BY <1>1, Invariance, PTL

\* Every return restores the stack its call or interrupt found, in loose and in faithful
\* protected mode and from V86 mode (the comments of patch 05 at 156-161 and 231-235).
THEOREM FramesBalancedHolds == Spec => FramesBalanced
<1>1. ASSUME IInv, [Next]_vars PROVE [Returns => at' = Latest.from]_vars
  <2>1. SUFFICES ASSUME Returns PROVE at' = Latest.from OBVIOUS
  <2>2. frames' # frames /\ mode' # "real" /\ Len(frames') < Len(frames)
    <3>1. Len(frames) \in Nat BY <1>1 DEF IInv, TypeOK
    <3> QED BY <2>1, <3>1 DEF Returns
  <2>3. CASE Return BY <1>1, <2>3, ReturnRestores
  <2>4. CASE ~Return
    <3>1. ASSUME NEW by, NEW n, NEW w, PushHere(by, n, w) \/ PushInner(by, n, w) PROVE FALSE
      <4>1. \E f : frames' = Append(frames, f) BY <3>1 DEF PushHere, PushInner
      <4>2. frames \in Seq(Frames) BY <1>1 DEF IInv, TypeOK
      <4>3. Len(frames') = Len(frames) + 1 /\ Len(frames) \in Nat BY <4>1, <4>2
      <4> QED BY <4>3, <2>2
    <3>2. ~Boot /\ ~EnterProt /\ ~LeaveProt /\ ~EnterV86
      BY <2>2 DEF Boot, EnterProt, LeaveProt, EnterV86
    <3>3. ASSUME NEW s \in Selectors
          PROVE  ~EnterRing3(s) /\ ~LoadSS(s) /\ ~FarJump(s) /\ ~Interrupt(s)
      BY <2>2, <3>1 DEF EnterRing3, LoadSS, FarJump, Interrupt, DeliverAt
    <3>4. ASSUME NEW s \in Selectors, NEW n \in Args
          PROVE  ~FarCall(s, n) /\ ~CallGate(s, n)
      BY <3>1 DEF FarCall, CallGate
    <3> QED BY <1>1, <2>2, <2>4, <3>2, <3>3, <3>4 DEF Next, vars
  <2> QED BY <2>3, <2>4
<1> QED BY <1>1, Invariance, PTL DEF Spec, FramesBalanced

\* Before the boot the patched CPU gains a level only by entering through a gate.
THEOREM LevelOnlyThroughGatesHolds == Spec => LevelOnlyThroughGates
<1> DEFINE Gains == ~booted /\ mode = "prot" /\ mode' = "prot" /\ cpl' < cpl
<1>1. ASSUME IInv, [Next]_vars PROVE [Gains => Len(frames') > Len(frames)]_vars
  <2>1. SUFFICES ASSUME Gains PROVE Len(frames') > Len(frames) OBVIOUS
  <2>2. cpl \in Levels /\ frames \in Seq(Frames) BY <1>1 DEF IInv, TypeOK
  <2>3. ASSUME NEW by, NEW n, NEW w, PushHere(by, n, w) \/ PushInner(by, n, w)
        PROVE  Len(frames') > Len(frames)
    <3>1. \E f : frames' = Append(frames, f) BY <2>3 DEF PushHere, PushInner
    <3>2. Len(frames') = Len(frames) + 1 /\ Len(frames) \in Nat BY <2>2, <3>1
    <3> QED BY <3>2
  <2>4. cpl' # cpl BY <2>1, <2>2 DEF Levels
  <2>5. ~Boot /\ ~EnterProt /\ ~LeaveProt /\ ~EnterV86
    BY <2>1, <2>4 DEF Boot, EnterProt, LeaveProt, EnterV86
  <2>6. ASSUME NEW s \in Selectors PROVE ~EnterRing3(s) /\ ~LoadSS(s) /\ ~FarJump(s)
    <3>1. ~EnterRing3(s) BY <2>1, <2>2 DEF EnterRing3, Levels
    <3>2. ~LoadSS(s) BY <2>1, <2>4 DEF LoadSS, Loose, SegmentLevel, HasAccess
    <3>3. ~FarJump(s) BY <2>4 DEF FarJump
    <3> QED BY <3>1, <3>2, <3>3
  <2>7. ASSUME NEW s \in Selectors, Interrupt(s) PROVE Len(frames') > Len(frames)
    BY <2>3, <2>7 DEF Interrupt, DeliverAt
  <2>8. ASSUME NEW s \in Selectors, NEW n \in Args, FarCall(s, n) \/ CallGate(s, n)
        PROVE  Len(frames') > Len(frames)
    BY <2>3, <2>8 DEF FarCall, CallGate
  <2>9. ~Return
    <3>1. SUFFICES ASSUME Return PROVE FALSE OBVIOUS
    <3>2. ~V86Return BY <2>1 DEF V86Return
    <3>3. FaithfulReturn BY <2>1, <3>1, <3>2 DEF Return, Loose
    <3>4. frames # <<>> BY <3>1 DEF Return
    <3>5. Latest \in Frames BY <2>2, <3>4 DEF Latest
    <3>6. Latest.cs.sel.rpl \in Levels BY <3>5 DEF Frames, CodeSegments, Selector
    <3> QED BY <2>1, <2>2, <3>3, <3>6 DEF FaithfulReturn, Levels
  <2>10. CASE UNCHANGED vars BY <2>4, <2>10 DEF vars
  <2> QED BY <1>1, <2>5, <2>6, <2>7, <2>8, <2>9, <2>10 DEF Next
<1> QED BY <1>1, Invariance, PTL DEF Spec, LevelOnlyThroughGates
====================================================================================
