---------------------------- MODULE LoopCompletersProofs ----------------------------
(* What the hook sees of the guest, for any addresses, any set of visits and any    *)
(* data: the CPU loop never gets past a forced site that only far transfers reach,  *)
(* a paced guest never halts over a pending reset, and a completed loop leaves what *)
(* the plain loop leaves.                                                           *)
EXTENDS LoopCompleters, RepetitionProofs

ExecInv == TypeOK /\ NeverTranslated /\ FarArrivalsSeen

\* A paced guest is behind its OUT 64,FE only on the way to the reset.
PacedInv == Paced => /\ at = "after" => mode = "loop" /\ pending
                     /\ "after" \notin translated
                     /\ mode # "halted"

RunInv == run \in Runs

LoopInv == ExecInv /\ PacedInv /\ RunInv

------------------------------------------------------------------------------------
(* The CPU loop, whatever the guest.                                               *)

\* The CPU loop's invariant holds at the start.
LEMMA ExecStart == Init => ExecInv
<1> SUFFICES ASSUME Init PROVE ExecInv OBVIOUS
<1>1. /\ at = ResetVector /\ block = ResetVector /\ mode = "loop" /\ translated = {}
      /\ links = {} /\ last = NoExit /\ pending = FALSE /\ skipped = {}
  BY DEF Init
<1>2. pending \in BOOLEAN BY <1>1
<1>3. TypeOK BY <1>1, <1>2, AddrsAssumption DEF TypeOK
<1> QED BY <1>1, <1>3 DEF ExecInv, NeverTranslated, FarArrivalsSeen

\* A redirection only moves the guest.
LEMMA ContinueKeeps ==
    ASSUME ExecInv, NEW t \in Addrs, Continue(t), pending' \in BOOLEAN
    PROVE  ExecInv'
BY DEF ExecInv, TypeOK, NeverTranslated, FarArrivalsSeen, Continue, cache

\* A new block, and the link to it.
LEMMA EnterKeeps ==
    ASSUME ExecInv, Enter
    PROVE  ExecInv'
<1>1. /\ at \notin Always /\ mode = "loop" /\ at \in Addrs
      /\ translated' = translated \cup {at} /\ block' = at /\ mode' = "code"
      /\ last' = NoExit /\ UNCHANGED <<at, pending, skipped>>
      /\ links' = LinkLast
  BY DEF Enter, EnterBlock, ExecInv, TypeOK
<1>2. links' \subseteq Links /\ \A l \in links' : l.jump \in translated'
  <2>1. CASE links' = links BY <1>1, <2>1 DEF ExecInv, TypeOK, NeverTranslated
  <2>2. CASE links' # links
    <3>1. /\ last # NoExit
          /\ links' = links \cup {[from |-> last[1], to |-> last[2], jump |-> at]}
      BY <1>1, <2>2 DEF LinkLast
    <3>2. last \in Addrs \X Addrs BY <3>1 DEF ExecInv, TypeOK
    <3>3. last[1] \in Addrs /\ last[2] \in Addrs BY <3>2
    <3>4. [from |-> last[1], to |-> last[2], jump |-> at] \in Links BY <1>1, <3>3 DEF Links
    <3> QED BY <1>1, <3>1, <3>4 DEF ExecInv, TypeOK, NeverTranslated
  <2> QED BY <2>1, <2>2
<1> QED BY <1>1, <1>2 DEF ExecInv, TypeOK, NeverTranslated, FarArrivalsSeen

\* A step of the guest.  Only links and blocks skip the hook: no block starts at an
\* address where it always takes over, and none of FarOnly is run into or jumped to.
LEMMA CodeKeeps ==
    ASSUME ExecInv, NEW t \in Addrs, Inside(t) \/ JumpTo(t) \/ FarTo(t), pending' \in BOOLEAN
    PROVE  ExecInv'
<1>1. CASE Inside(t)
  BY <1>1 DEF Inside, ExecInv, TypeOK, NeverTranslated, FarArrivalsSeen, cache
<1>2. CASE JumpTo(t)
  <2>1. CASE ~Linked(block, t) /\ at' = t /\ mode' = "loop" /\ last' = <<block, t>>
             /\ UNCHANGED <<cache, skipped>>
    <3>1. last' \in Addrs \X Addrs BY <2>1 DEF ExecInv, TypeOK
    <3> QED BY <2>1, <3>1 DEF ExecInv, TypeOK, NeverTranslated, FarArrivalsSeen, cache
  <2>2. CASE \E l \in links : /\ l.from = block /\ l.to = t
                              /\ at' = l.jump /\ block' = l.jump
                              /\ skipped' = skipped \cup ({t} \cap Hooked)
                              /\ UNCHANGED <<mode, last, translated, links>>
    <3>1. PICK l \in links : /\ at' = l.jump /\ block' = l.jump
                             /\ skipped' = skipped \cup ({t} \cap Hooked)
                             /\ UNCHANGED <<mode, last, translated, links>>
      BY <2>2
    <3>2. l.jump \in translated /\ l.jump \in Addrs BY DEF ExecInv, TypeOK, NeverTranslated
    <3>3. t \notin FarOnly BY <1>2 DEF JumpTo
    <3> QED BY <3>1, <3>2, <3>3 DEF ExecInv, TypeOK, NeverTranslated, FarArrivalsSeen
  <2> QED BY <1>2, <2>1, <2>2 DEF JumpTo
<1>3. CASE FarTo(t)
  BY <1>3 DEF FarTo, ExecInv, TypeOK, NeverTranslated, FarArrivalsSeen, cache
<1> QED BY <1>1, <1>2, <1>3

\* What changes none of the loop's state keeps the invariant.
LEMMA RestKeeps ==
    ASSUME ExecInv, Halt \/ Outside
    PROVE  ExecInv'
BY DEF Halt, Outside, Kick, Cut, Wake, ExecInv, TypeOK, NeverTranslated, FarArrivalsSeen,
       cache

\* Every step of the CPU loop keeps its invariant.
LEMMA ExecNext == ExecInv /\ [Next]_vars => ExecInv'
<1> SUFFICES ASSUME ExecInv, [Next]_vars PROVE ExecInv' OBVIOUS
<1>1. CASE TakeReset
  BY <1>1, ContinueKeeps, AddrsAssumption DEF TakeReset
<1>2. CASE Enter BY <1>2, EnterKeeps
<1>3. ASSUME NEW t \in Addrs, Answer(t) PROVE ExecInv'
  <2>1. pending' \in BOOLEAN BY <1>3 DEF Answer, ExecInv, TypeOK
  <2> QED BY <1>3, <2>1, ContinueKeeps DEF Answer
<1>4. CASE InCode
  <2>1. pending' \in BOOLEAN
    <3>1. CASE Out64 BY <3>1 DEF Out64
    <3>2. CASE UNCHANGED pending BY <3>2 DEF ExecInv, TypeOK
    <3> QED BY <1>4, <3>1, <3>2 DEF InCode
  <2> QED BY <1>4, <2>1, CodeKeeps DEF InCode
<1>5. CASE Halt \/ Outside BY <1>5, RestKeeps
<1>6. CASE UNCHANGED vars
  BY <1>6 DEF vars, cache, ExecInv, TypeOK, NeverTranslated, FarArrivalsSeen
<1> QED BY <1>1, <1>2, <1>3, <1>4, <1>5, <1>6 DEF Next, InLoop, Complete

------------------------------------------------------------------------------------
(* The addresses of the completers.                                                *)

\* What is assumed of them, part by part.
LEMMA SitesAre ==
    /\ Exits \subseteq Addrs /\ Waits \subseteq Addrs
    /\ \A k \in Kinds : Entry(k) \in Addrs /\ Entry(k) # ResetVector
    /\ "rom" \in Addrs /\ "after" \in Addrs
    /\ ResetVector \notin Exits \cup Waits \cup {"rom", "after"}
    /\ \A k \in Counted : \A i \in DOMAIN Body[k] :
            Body[k][i] \in Addrs /\ Body[k][i] # ResetVector
    /\ Always \subseteq OneShots
<1>1. /\ Exits \subseteq Sites /\ Waits \subseteq Sites /\ "rom" \in Sites /\ "after" \in Sites
      /\ \A k \in Kinds : Entry(k) \in Sites
  BY DEF Sites
<1> QED BY <1>1, SitesAssumption

\* Where the loops of the waits start.
LEMMA HeadsAre ==
    /\ WaitHead["6943"] = "in6943" /\ WaitHead["C960"] = "inC960" /\ WaitHead["EA90"] = "EA86"
    /\ WaitHead["6961"] = "6958" /\ WaitHead["53C1"] = "53C1"
BY DEF WaitHead, Waits

\* Where the visits start.
LEMMA EntriesAre ==
    /\ \A k \in Counted : Entry(k) = Body[k][1]
    /\ \A k \in Waits : Entry(k) = WaitHead[k]
    /\ Entry("reset") = "out64" /\ Entry("errorlog") = "5F232"
    /\ \A k \in OneShots \cup {"61BE"} : Entry(k) = k
<1>1. ASSUME NEW k \in Counted PROVE Entry(k) = Body[k][1]
  <2>1. k \notin Waits /\ k # "reset" /\ k # "errorlog" BY DEF Waits, Counted
  <2> QED BY <2>1 DEF Entry
<1>2. ASSUME NEW k \in Waits PROVE Entry(k) = WaitHead[k]
  <2>1. k \notin Counted /\ k # "reset" /\ k # "errorlog" BY DEF Waits, Counted
  <2> QED BY <2>1 DEF Entry
<1>3. Entry("reset") = "out64"
  <2>1. "reset" \notin Counted /\ "reset" \notin Waits BY DEF Counted, Waits
  <2> QED BY <2>1 DEF Entry
<1>4. Entry("errorlog") = "5F232"
  <2>1. "errorlog" \notin Counted /\ "errorlog" \notin Waits BY DEF Counted, Waits
  <2> QED BY <2>1 DEF Entry
<1>5. ASSUME NEW k \in OneShots \cup {"61BE"} PROVE Entry(k) = k
  <2>1. k \notin Counted /\ k \notin Waits /\ k # "reset" /\ k # "errorlog"
    BY DEF OneShots, Waits, Counted
  <2> QED BY <2>1, Zenon DEF Entry
<1> QED BY <1>1, <1>2, <1>3, <1>4, <1>5

\* The exits are addresses of the BIOS.
LEMMA ExitSites == \A k \in Ended : ExitOf[k] \in Addrs /\ ExitOf[k] # "after"
<1> SUFFICES ASSUME NEW k \in Ended PROVE ExitOf[k] \in Addrs /\ ExitOf[k] # "after" OBVIOUS
<1>1. ExitOf[k] # "after"
  BY DEF Ended, Kinds, Counted, Waits, OneShots, ExitOf
<1>2. CASE k # "6961"
  <2>1. ExitOf[k] \in Exits BY <1>2 DEF Exits
  <2> QED BY <1>1, <2>1, SitesAre
<1>3. CASE k = "6961"
  <2>1. "6961" \in Waits /\ "6961" \in Kinds /\ "6961" \in Ended
    BY DEF Waits, Kinds, Ended
  <2>2. Entry("6961") = "6958" BY <2>1, EntriesAre, HeadsAre
  <2>3. ExitOf["6961"] = "6958" BY <2>1 DEF ExitOf
  <2>4. Entry("6961") \in Addrs BY <2>1, SitesAre
  <2> QED BY <1>1, <1>3, <2>2, <2>3, <2>4
<1> QED BY <1>2, <1>3

\* So are the waits' sites and the heads of their loops.
LEMMA WaitSites ==
    \A k \in Waits : /\ k \in Addrs /\ k # "after" /\ k \notin OneShots
                     /\ WaitHead[k] \in Addrs /\ WaitHead[k] # "after"
                     /\ k \in Ended
<1> SUFFICES ASSUME NEW k \in Waits
             PROVE  /\ k \in Addrs /\ k # "after" /\ k \notin OneShots
                    /\ WaitHead[k] \in Addrs /\ WaitHead[k] # "after"
                    /\ k \in Ended
  OBVIOUS
<1>1. k \in Kinds /\ k \in Ended BY DEF Kinds, Ended, Waits
<1>2. k \in Addrs BY SitesAre
<1>3. k # "after" /\ k \notin OneShots BY DEF Waits, OneShots
<1>4. WaitHead[k] \in Addrs
  <2>1. WaitHead[k] = Entry(k) BY EntriesAre
  <2> QED BY <1>1, <2>1, SitesAre
<1>5. WaitHead[k] # "after" BY HeadsAre DEF Waits
<1> QED BY <1>1, <1>2, <1>3, <1>4, <1>5

\* So are the entries.
LEMMA EntrySites == \A k \in Kinds : Entry(k) \in Addrs /\ Entry(k) # "after"
<1> SUFFICES ASSUME NEW k \in Kinds PROVE Entry(k) \in Addrs /\ Entry(k) # "after" OBVIOUS
<1>1. Entry(k) \in Addrs BY SitesAre
<1>2. CASE k \in Counted
  <2>1. \A e : e = Body[k][1] => e # "after" BY <1>2 DEF Counted, Body
  <2> QED BY <1>1, <1>2, <2>1, EntriesAre
<1>3. CASE k \in {"reset", "errorlog"} BY <1>1, <1>3, EntriesAre
<1>4. CASE k \in Waits BY <1>1, <1>4, EntriesAre, WaitSites
<1>5. CASE k \in OneShots \cup {"61BE"}
  <2>1. k # "after" BY <1>5 DEF OneShots
  <2> QED BY <1>1, <1>5, <2>1, EntriesAre
<1> QED BY <1>2, <1>3, <1>4, <1>5 DEF Kinds

\* The bodies are addresses of the BIOS, none of them a one-shot hook's.
LEMMA BodySites ==
    \A k \in Counted : \A i \in DOMAIN Body[k] :
        Body[k][i] \in Addrs /\ Body[k][i] # "after" /\ Body[k][i] \notin OneShots
<1> SUFFICES ASSUME NEW k \in Counted, NEW i \in DOMAIN Body[k]
             PROVE  Body[k][i] # "after" /\ Body[k][i] \notin OneShots
  BY SitesAre
<1>1. CASE k = "checksum" BY <1>1 DEF Body, OneShots
<1>2. CASE k = "copy" BY <1>2 DEF Body, OneShots
<1>3. CASE k = "delay" BY <1>3 DEF Body, OneShots
<1>4. CASE k = "shl" BY <1>4 DEF Body, OneShots
<1>5. CASE k = "rcl" BY <1>5 DEF Body, OneShots
<1> QED BY <1>1, <1>2, <1>3, <1>4, <1>5 DEF Counted

------------------------------------------------------------------------------------
(* The steps of the completers and of their guest, as steps of the CPU loop.        *)

Redirects(t) == Answer(t) /\ t \in Addrs /\ t # "after"

GoesTo(t) == /\ Inside(t) \/ JumpTo(t) \/ FarTo(t)
             /\ t \in Addrs /\ t # "after" /\ UNCHANGED pending

\* OUT 64,FE, and what follows it.
Asks  == Out64 /\ PastIo("after")
Idles == at = "after" /\ ((JumpTo("after") /\ UNCHANGED pending) \/ Halt)

Shape == \/ TakeReset \/ Enter \/ (\E t \in Addrs : Redirects(t) \/ GoesTo(t))
         \/ Asks \/ Idles \/ Outside

\* What the hook does is a step of the CPU loop.
LEMMA HookShape == ASSUME Hook PROVE Shape /\ run' = run
<1>1. CASE HookReset BY <1>1 DEF HookReset, Shape
<1>2. ASSUME NEW k \in Counted \cup Waits, HookCounts(k), at \notin OneShots
      PROVE  Shape /\ run' = run
  BY <1>2, SitesAre DEF HookCounts, Enter, Shape
<1>3. ASSUME NEW k \in Counted \cup Waits, NEW q, HookFires(k, q)
      PROVE  Shape /\ run' = run
  <2>1. k \in Ended BY DEF Ended, Kinds, Counted, Waits
  <2>2. Redirects(ExitOf[k]) BY <1>3, <2>1, ExitSites DEF HookFires, Redirects, Complete
  <2> QED BY <1>3, <2>2 DEF HookFires, Shape, Redirects
<1>4. CASE HookCounted
  <2>1. kind \in Counted /\ at \in Offsets(kind) BY <1>4 DEF HookCounted
  <2>2. at \notin OneShots
    <3>1. CASE kind = "copy" BY <2>1, <3>1 DEF Offsets, OneShots
    <3>2. CASE kind # "copy" BY <2>1, <3>2, BodySites DEF Offsets
    <3> QED BY <3>1, <3>2
  <2> QED BY <1>2, <1>3, <1>4, <2>1, <2>2 DEF HookCounted
<1>5. CASE HookWait
  <2>1. kind \in Waits /\ at \notin OneShots BY <1>5, WaitSites DEF HookWait
  <2> QED BY <1>2, <1>3, <1>5, <2>1 DEF HookWait
<1>6. CASE HookOneShot
  <2>1. kind \in Ended BY <1>6 DEF HookOneShot, Ended, Kinds, OneShots
  <2>2. Redirects(ExitOf[kind]) BY <1>6, <2>1, ExitSites DEF HookOneShot, Redirects, Complete
  <2> QED BY <1>6, <2>2 DEF HookOneShot, Shape, Redirects
<1>7. CASE Hook61BE
  <2>1. at \notin OneShots BY <1>7 DEF Hook61BE, OneShots
  <2> QED BY <1>7, <2>1, SitesAre DEF Hook61BE, Enter, Shape
<1>8. CASE HookErrorLog
  <2>1. "errorlog" \in Ended BY DEF Ended, Kinds
  <2>2. Redirects(ExitOf["errorlog"]) BY <1>8, <2>1, ExitSites DEF HookErrorLog, Redirects
  <2> QED BY <1>8, <2>2 DEF HookErrorLog, Shape, Redirects
<1>9. CASE HookDeclines BY <1>9 DEF HookDeclines, Shape
<1> QED BY <1>1, <1>4, <1>5, <1>6, <1>7, <1>8, <1>9 DEF Hook

\* So is what the guest does.
LEMMA GuestShape == ASSUME Guest, RunInv PROVE Shape /\ run' = run
<1>1. ASSUME NEW t, t \in Addrs, t # "after", UNCHANGED pending,
             Inside(t) \/ JumpTo(t) \/ FarTo(t)
      PROVE  Shape
  BY <1>1 DEF GoesTo, Shape
<1>2. ASSUME NEW k \in run.visits, StartVisit(k) PROVE Shape /\ run' = run
  <2>1. k \in Kinds BY RunsAssumption DEF RunInv
  <2> QED BY <1>1, <1>2, <2>1, EntrySites DEF StartVisit, Reach
<1>3. ASSUME NEW back \in Addrs, NEW out \in Addrs, back # "after", out # "after",
             UNCHANGED pending, CountDown(back, out)
      PROVE  Shape
  <2>1. JumpTo(back) \/ JumpTo(out) BY <1>3 DEF CountDown
  <2> QED BY <1>1, <1>3, <2>1
<1>4. CASE RunBody
  <2>1. kind \in Counted /\ kind \in Ended /\ UNCHANGED <<pending, run>>
    BY <1>4 DEF RunBody, Counted, Ended, Kinds
  <2>2. PICK i \in DOMAIN Body[kind] :
            IF i < Len(Body[kind])
            THEN Inside(Body[kind][i + 1])
            ELSE \/ CountDown(Body[kind][1], ExitOf[kind])
                 \/ CountDown(ExitOf[kind], ExitOf[kind])
    BY <1>4 DEF RunBody
  <2>3. /\ 1 \in DOMAIN Body[kind]
        /\ i < Len(Body[kind]) => i + 1 \in DOMAIN Body[kind]
    BY <2>1, <2>2 DEF Counted, Body
  <2>4. CASE i < Len(Body[kind])
    BY <1>1, <2>1, <2>2, <2>3, <2>4, BodySites
  <2>5. CASE ~(i < Len(Body[kind]))
    BY <1>3, <2>1, <2>2, <2>3, <2>5, BodySites, ExitSites
  <2> QED BY <2>4, <2>5
<1>5. CASE RunHead
  <2>1. kind \in Waits /\ UNCHANGED <<pending, run>> BY <1>5 DEF RunHead
  <2>2. PastIo(kind) \/ JumpTo("ready") BY <1>5 DEF RunHead
  <2>3. "ready" \in Addrs BY SitesAre DEF Exits
  <2> QED BY <1>1, <2>1, <2>2, <2>3, WaitSites DEF PastIo
<1>6. CASE RunSite
  <2>1. kind \in Waits /\ UNCHANGED <<pending, run>> BY <1>6 DEF RunSite
  <2>2. /\ "timedout" \in Addrs
        /\ "6943" \in Waits /\ "6961" \in Waits /\ "53C1" \in Waits
        /\ "6943" \in Ended /\ "53C1" \in Ended
    BY SitesAre DEF Exits, Waits, Kinds, Ended
  <2>3. ExitOf["6943"] = "6949" /\ ExitOf["53C1"] = "53CE" BY <2>2 DEF ExitOf
  <2>4. /\ WaitHead[kind] \in Addrs /\ WaitHead[kind] # "after"
        /\ ExitOf[kind] \in Addrs /\ ExitOf[kind] # "after"
        /\ {"6949", "53CE", "in6943", "6958", "53C1"} \subseteq Addrs
    BY <2>1, <2>2, <2>3, WaitSites, ExitSites, HeadsAre
  <2>5. \/ CountDown(WaitHead[kind], ExitOf[kind]) \/ CountDown("6958", "timedout")
        \/ JumpTo("6949") \/ JumpTo("in6943") \/ JumpTo(WaitHead[kind])
        \/ JumpTo("53C1") \/ JumpTo("53CE")
    BY <1>6 DEF RunSite
  <2> QED BY <1>1, <1>3, <2>1, <2>2, <2>4, <2>5
<1>7. CASE RunScan
  <2>1. "6D3A" \in Kinds /\ Entry("6D3A") = "6D3A" BY EntriesAre DEF Kinds, OneShots
  <2> QED BY <1>1, <1>7, <2>1, EntrySites DEF RunScan
<1>8. CASE RunReturn
  <2>1. "61BE" \in Ended BY DEF Ended, Kinds
  <2> QED BY <1>1, <1>8, <2>1, ExitSites DEF RunReturn
<1>9. CASE RunInt15
  <2>1. "errorlog" \in Ended BY DEF Ended, Kinds
  <2> QED BY <1>1, <1>9, <2>1, ExitSites DEF RunInt15
<1>10. CASE RunOut64 BY <1>10 DEF RunOut64, Asks, Shape
<1>11. CASE RunIdle BY <1>11 DEF RunIdle, Idles, Shape
<1>12. CASE RunOn BY <1>1, <1>12, SitesAre DEF RunOn
<1> QED
  BY <1>2, <1>4, <1>5, <1>6, <1>7, <1>8, <1>9, <1>10, <1>11, <1>12 DEF Guest, RunWait

\* So is every step of the composition.
LEMMA LoopShape == ASSUME LoopNext, RunInv PROVE Shape /\ run' = run
<1>1. CASE HostKick \/ HostCut \/ HostWake
  BY <1>1 DEF HostKick, HostCut, HostWake, Outside, Shape
<1> QED BY <1>1, HookShape, GuestShape DEF LoopNext

\* The guest of this module is one of the guests of ExecLoop.
LEMMA ShapeIsNext == ASSUME Shape PROVE Next
<1>1. "after" \in Addrs BY SitesAre
<1>2. ASSUME NEW t \in Addrs, Redirects(t) PROVE Next
  BY <1>2 DEF Redirects, Next, InLoop
<1>3. ASSUME NEW t \in Addrs, GoesTo(t) PROVE Next
  BY <1>3 DEF GoesTo, Next, InCode
<1>4. CASE Asks BY <1>1, <1>4 DEF Asks, PastIo, Next, InCode
<1>5. CASE Idles BY <1>1, <1>5 DEF Idles, Next, InCode
<1>6. CASE TakeReset \/ Enter \/ Outside BY <1>6 DEF Next, InLoop
<1> QED BY <1>2, <1>3, <1>4, <1>5, <1>6 DEF Shape

------------------------------------------------------------------------------------
(* A paced guest behind its OUT 64,FE.                                             *)

\* Such a step keeps the pace of the chain.
LEMMA PacedNext ==
    ASSUME ExecInv, PacedInv, Shape, run' = run
    PROVE  PacedInv'
<1> SUFFICES ASSUME Paced
             PROVE  /\ at' = "after" => mode' = "loop" /\ pending'
                    /\ "after" \notin translated'
                    /\ mode' # "halted"
  BY DEF PacedInv, Paced
<1>1. /\ at = "after" => mode = "loop" /\ pending
      /\ "after" \notin translated
      /\ mode # "halted"
  BY DEF PacedInv
<1>2. \A l \in links : l.jump # "after" BY <1>1 DEF ExecInv, NeverTranslated
<1>3. CASE TakeReset
  BY <1>1, <1>3, SitesAre DEF TakeReset, Continue, cache
<1>4. CASE Enter BY <1>1, <1>4 DEF Enter, EnterBlock
<1>5. ASSUME NEW t \in Addrs, Redirects(t)
      PROVE  /\ at' = "after" => mode' = "loop" /\ pending'
             /\ "after" \notin translated'
             /\ mode' # "halted"
  BY <1>1, <1>5 DEF Redirects, Answer, Continue, cache
<1>6. ASSUME NEW t \in Addrs, GoesTo(t)
      PROVE  /\ at' = "after" => mode' = "loop" /\ pending'
             /\ "after" \notin translated'
             /\ mode' # "halted"
  <2>1. CASE Inside(t) BY <1>1, <1>6, <2>1 DEF GoesTo, Inside, cache
  <2>2. CASE JumpTo(t) BY <1>1, <1>2, <1>6, <2>2 DEF GoesTo, JumpTo, cache
  <2>3. CASE FarTo(t) BY <1>1, <1>6, <2>3 DEF GoesTo, FarTo, cache
  <2> QED BY <1>6, <2>1, <2>2, <2>3 DEF GoesTo
<1>7. CASE Asks
  <2>1. JumpTo("after") /\ pending' = TRUE BY <1>7 DEF Asks, PastIo, Out64
  <2> QED BY <1>1, <1>2, <2>1 DEF JumpTo, cache
<1>8. CASE Idles
  <2>1. mode = "loop" BY <1>1, <1>8 DEF Idles
  <2>2. mode = "code" BY <1>8 DEF Idles, JumpTo, Halt
  <2> QED BY <2>1, <2>2
<1>9. CASE Outside
  BY <1>1, <1>9 DEF Outside, Kick, Cut, Wake, cache
<1> QED BY <1>3, <1>4, <1>5, <1>6, <1>7, <1>8, <1>9 DEF Shape

------------------------------------------------------------------------------------
\* The invariant of the composition holds at the start.
LEMMA LoopStart == LoopInit => LoopInv
<1> SUFFICES ASSUME LoopInit PROVE LoopInv OBVIOUS
<1>1. Init /\ run \in Runs BY DEF LoopInit
<1>2. ExecInv BY <1>1, ExecStart
<1>3. at = ResetVector /\ translated = {} /\ mode = "loop" BY <1>1 DEF Init
<1>4. PacedInv BY <1>3, SitesAre DEF PacedInv
<1> QED BY <1>1, <1>2, <1>4 DEF LoopInv, RunInv

\* Every step keeps it.
LEMMA LoopKeeps == LoopInv /\ [LoopNext]_loopVars => LoopInv'
<1> SUFFICES ASSUME LoopInv, [LoopNext]_loopVars PROVE LoopInv' OBVIOUS
<1>1. CASE LoopNext
  <2>1. Shape /\ run' = run BY <1>1, LoopShape DEF LoopInv
  <2>2. ExecInv' BY <2>1, ShapeIsNext, ExecNext DEF LoopInv
  <2>3. PacedInv' BY <2>1, PacedNext DEF LoopInv
  <2> QED BY <2>1, <2>2, <2>3 DEF LoopInv, RunInv
<1>2. CASE UNCHANGED loopVars
  <2>1. UNCHANGED vars /\ run' = run BY <1>2 DEF loopVars
  <2>2. ExecInv' BY <2>1, ExecNext DEF LoopInv
  <2>3. UNCHANGED <<at, mode, pending, translated>> BY <2>1 DEF vars, cache
  <2>4. PacedInv'
    <3>1. Paced' = Paced BY <2>1 DEF Paced
    <3> QED BY <2>3, <3>1 DEF LoopInv, PacedInv
  <2> QED BY <2>1, <2>2, <2>4 DEF LoopInv, RunInv
<1> QED BY <1>1, <1>2

\* In every reachable state the control state of the CPU loop is sound, and a paced
\* guest is behind its OUT 64,FE only on the way to the reset (patches/01).
THEOREM Invariance == LoopSpec => []LoopInv
<1> QED BY LoopStart, LoopKeeps, PTL DEF LoopSpec

\* The CPU loop's state keeps its type, whatever the completers do in it (patches/01).
THEOREM ExecTypeCorrect == LoopSpec => []TypeOK
<1>1. LoopInv => TypeOK BY DEF LoopInv, ExecInv
<1> QED BY <1>1, Invariance, PTL

\* A forced site that no direct jump leads to is never passed unseen: the hook comes
\* before the lookup, so no block is ever made there (patches/01, pc110post.c:1048-1088).
THEOREM FarArrivalsSeenHolds == LoopSpec => []FarArrivalsSeen
<1>1. LoopInv => FarArrivalsSeen BY DEF LoopInv, ExecInv
<1> QED BY <1>1, Invariance, PTL

\* Under -icount a guest that halts after its OUT 64,FE is reset all the same: the OUT ends
\* its block, and the pending reset is taken before the HLT's block exists (patches/02,
\* pc110post.c:434-448).
THEOREM PacedNeverDiesHolds == LoopSpec => []PacedNeverDies
<1>1. LoopInv => PacedNeverDies BY DEF LoopInv, PacedInv, PacedNeverDies
<1> QED BY <1>1, Invariance, PTL

\* Every run with the completers is a run of the bare CPU loop.
THEOREM IsExecLoop == LoopSpec => Spec
<1>1. LoopInit => Init BY DEF LoopInit
<1>2. LoopInv /\ [LoopNext]_loopVars => [Next]_vars
  <2> SUFFICES ASSUME LoopInv, [LoopNext]_loopVars PROVE [Next]_vars OBVIOUS
  <2>1. CASE LoopNext BY <2>1, LoopShape, ShapeIsNext DEF LoopInv
  <2>2. CASE UNCHANGED loopVars BY <2>2 DEF loopVars
  <2> QED BY <2>1, <2>2
<1> QED BY <1>1, <1>2, Invariance, PTL DEF LoopSpec, Spec

------------------------------------------------------------------------------------
(* Words, bytes, flags and registers.                                              *)

\* Arithmetic of words and bytes.
LEMMA WordMods == /\ WordMod \in Nat /\ WordMod >= 4
                  /\ ByteMod \in Nat /\ ByteMod >= 2
<1>1. WordMod \in Nat \ {0} /\ WordMod % 4 = 0 BY WordsAssumption
<1>2. WordMod \in Nat /\ WordMod >= 4 BY <1>1
<1> QED BY <1>2, WordsAssumption

\* Word and Byte cut to their widths.
LEMMA WordRange ==
    /\ \A n \in Int : Word(n) \in 0..WordMod - 1
    /\ \A n \in 0..WordMod - 1 : Word(n) = n
BY WordMods DEF Word

\* So does a count of 0 that is counted down.
LEMMA WordWraps == Word(0 - 1) = WordMod - 1
<1>1. WordMod \in Nat /\ WordMod > 0 BY WordMods
<1> DEFINE d == (0 - 1) \div WordMod
           e == (0 - 1) % WordMod
<1>2. d \in Int /\ e \in 0..WordMod - 1 /\ (d * WordMod) + e = 0 - 1 BY <1>1
<1> HIDE DEF d, e
<1>3. d < 0
  <2> SUFFICES ASSUME d >= 0 PROVE FALSE BY <1>2
  <2>1. d * WordMod >= 0 BY <1>1, <1>2
  <2> QED BY <1>1, <1>2, <2>1
<1>4. d > 0 - 2
  <2> SUFFICES ASSUME d <= 0 - 2 PROVE FALSE BY <1>2
  <2>1. d * WordMod <= (0 - 2) * WordMod BY <1>1, <1>2
  <2> QED BY <1>1, <1>2, <2>1
<1>5. d = 0 - 1 BY <1>2, <1>3, <1>4
<1>6. e = WordMod - 1 BY <1>1, <1>2, <1>5
<1> QED BY <1>6 DEF e, Word

\* A byte is a byte.
LEMMA ByteRange ==
    /\ \A n \in Int : Byte(n) \in 0..ByteMod - 1
    /\ \A n \in 0..ByteMod - 1 : Byte(n) = n
BY WordMods DEF Byte

\* Bytes wrap around.
LEMMA ByteWraps == \A n \in Nat : Byte(n + ByteMod) = Byte(n)
<1> SUFFICES ASSUME NEW n \in Nat PROVE (n + ByteMod) % ByteMod = n % ByteMod BY DEF Byte
<1> DEFINE d == n \div ByteMod
           e == n % ByteMod
<1>1. ByteMod \in Nat /\ ByteMod > 0 BY WordMods
<1>2. d \in Nat /\ e \in 0..ByteMod - 1 /\ n = (d * ByteMod) + e BY <1>1
<1>3. n + ByteMod = ((d + 1) * ByteMod) + e BY <1>1, <1>2
<1> HIDE DEF d, e
<1>4. (((d + 1) * ByteMod) + e) % ByteMod = e BY <1>1, <1>2
<1> QED BY <1>3, <1>4 DEF e

\* Sums of bytes, cut once or twice.
LEMMA ByteSum ==
    \A x, a, b \in 0..ByteMod - 1 : Byte(Byte(x + a) + b) = Byte(x + a + b)
<1> SUFFICES ASSUME NEW x \in 0..ByteMod - 1, NEW a \in 0..ByteMod - 1,
                    NEW b \in 0..ByteMod - 1
             PROVE  Byte(Byte(x + a) + b) = Byte(x + a + b)
  OBVIOUS
<1>0. ByteMod \in Nat BY WordMods
<1>1. CASE x + a < ByteMod
  <2>1. Byte(x + a) = x + a BY <1>0, <1>1, ByteRange
  <2> QED BY <2>1
<1>2. CASE x + a >= ByteMod
  <2> DEFINE n == x + a - ByteMod
  <2>1. n \in 0..ByteMod - 1 /\ n + b \in Nat /\ x + a = n + ByteMod
        /\ x + a + b = (n + b) + ByteMod
    BY <1>0, <1>2
  <2> HIDE DEF n
  <2>2. Byte(x + a) = n BY <1>0, <2>1, ByteRange, ByteWraps
  <2>3. Byte(x + a + b) = Byte(n + b) BY <2>1, ByteWraps
  <2> QED BY <2>2, <2>3
<1> QED BY <1>0, <1>1, <1>2

\* What the instructions of the bodies do.
LEMMA WorkIs ==
    ASSUME NEW q
    PROVE  /\ Work("3CC1", q) = [q EXCEPT !.word = Data[q.p], !.p = Word(@ + 1)]
           /\ Work("3CC2", q) = [q EXCEPT !.acc = Byte(q.acc + q.word[1])]
           /\ Work("3CC4", q) = [q EXCEPT !.acc = Byte(q.acc + q.word[2])]
           /\ Work("3C34", q) = [q EXCEPT !.mem[Word(q.p + q.ax)] = q.mem[q.p],
                                          !.p = Word(@ + 1)]
           /\ Work("4139", q) = [q EXCEPT !.mem[0] = q.ax]
           /\ Work("61DB", q) = [q EXCEPT !.mem[q.p] = q.ax]
           /\ Work("61E9", q) = [q EXCEPT !.mem[q.p] = q.ax]
           /\ Work("61DD", q) = [q EXCEPT !.p = Word(2 * @),
                                          !.fl = SetCf(@, 2 * q.p >= WordMod)]
           /\ Work("61EB", q) = [q EXCEPT !.p = Word(2 * @ + (IF Carry(q.fl) THEN 1 ELSE 0)),
                                          !.fl = SetCf(@, 2 * q.p >= WordMod)]
BY DEF Work

\* The flags stay flags.
LEMMA FlagsStay ==
    /\ NoFlags \in FlagsType
    /\ \A codes \in SUBSET Codes : StoreEflags(codes) \in FlagsType
    /\ \A f \in FlagsType : \A on \in BOOLEAN :
            SetCf(f, on) \in FlagsType /\ SetZf(f, on) \in FlagsType
<1>1. \A codes \in SUBSET Codes : StoreEflags(codes) \in FlagsType
  BY DEF StoreEflags, FlagsType
<1>2. NoFlags \in FlagsType BY <1>1 DEF NoFlags
<1>3. ASSUME NEW f \in FlagsType, NEW on \in BOOLEAN
      PROVE  SetCf(f, on) \in FlagsType /\ SetZf(f, on) \in FlagsType
  <2>1. ComputeEflags(f) \in SUBSET Codes BY DEF ComputeEflags, FlagsType
  <2>2. "C" \in Codes /\ "Z" \in Codes BY DEF Codes
  <2>3. /\ With(ComputeEflags(f), "C", on) \in SUBSET Codes
        /\ With(ComputeEflags(f), "Z", on) \in SUBSET Codes
    BY <2>1, <2>2 DEF With
  <2> QED BY <1>1, <2>3 DEF SetCf, SetZf
<1> QED BY <1>1, <1>2, <1>3

\* The values of words and bytes.
Words == 0..WordMod - 1
Bytes == 0..ByteMod - 1

\* The registers' fields have their types.
LEMMA RegsFields ==
    ASSUME NEW q \in Regs
    PROVE  /\ q.cx \in Words /\ q.p \in Words /\ q.ax \in Words
           /\ q.word \in Bytes \X Bytes /\ q.word[1] \in Bytes /\ q.word[2] \in Bytes
           /\ q.acc \in Bytes /\ q.fl \in FlagsType /\ q.mem \in [Words -> Words]
BY DEF Regs, Words, Bytes

\* Registers are what their fields are.
LEMMA RegsIs ==
    Regs = [cx: Words, p: Words, ax: Words, word: Bytes \X Bytes, acc: Bytes,
            fl: FlagsType, mem: [Words -> Words]]
BY DEF Regs, Words, Bytes

\* Registers may be set one by one.
LEMMA RegsUpdates ==
    ASSUME NEW q \in Regs
    PROVE  /\ \A v \in Words : [q EXCEPT !.cx = v] \in Regs
           /\ \A v \in Words : [q EXCEPT !.p = v] \in Regs
           /\ \A v \in Words : [q EXCEPT !.ax = v] \in Regs
           /\ \A v \in Bytes \X Bytes : [q EXCEPT !.word = v] \in Regs
           /\ \A v \in Bytes : [q EXCEPT !.acc = v] \in Regs
           /\ \A v \in FlagsType : [q EXCEPT !.fl = v] \in Regs
           /\ \A v \in [Words -> Words] : [q EXCEPT !.mem = v] \in Regs
           /\ \A i, v \in Words : [q EXCEPT !.mem[i] = v] \in Regs
<1>1. \A i, v \in Words : [q.mem EXCEPT ![i] = v] \in [Words -> Words] BY RegsFields
<1>2. \A v \in Words : [q EXCEPT !.cx = v] \in Regs BY RegsIs
<1>3. \A v \in Words : [q EXCEPT !.p = v] \in Regs BY RegsIs
<1>4. \A v \in Words : [q EXCEPT !.ax = v] \in Regs BY RegsIs
<1>5. \A v \in Bytes \X Bytes : [q EXCEPT !.word = v] \in Regs BY RegsIs
<1>6. \A v \in Bytes : [q EXCEPT !.acc = v] \in Regs BY RegsIs
<1>7. \A v \in FlagsType : [q EXCEPT !.fl = v] \in Regs BY RegsIs
<1>8. \A v \in [Words -> Words] : [q EXCEPT !.mem = v] \in Regs BY RegsIs
<1>9. \A i, v \in Words : [q EXCEPT !.mem[i] = v] \in Regs
  <2> SUFFICES ASSUME NEW i \in Words, NEW v \in Words
               PROVE  [q EXCEPT !.mem[i] = v] \in Regs
    OBVIOUS
  <2>1. [q EXCEPT !.mem[i] = v] = [q EXCEPT !.mem = [q.mem EXCEPT ![i] = v]] OBVIOUS
  <2> QED BY <1>1, <1>8, <2>1
<1> QED BY <1>2, <1>3, <1>4, <1>5, <1>6, <1>7, <1>8, <1>9

\* The words of a buffer stay words.
LEMMA WordsStay ==
    /\ \A x \in Words : /\ Word(x + 1) \in Words /\ Word(x - 1) \in Words
                        /\ Word(2 * x) \in Words /\ Word(2 * x + 1) \in Words
                        /\ Word(2 * x + 0) \in Words
    /\ \A x, y \in Words : Word(x + y) \in Words
    /\ \A x, y \in Bytes : Byte(x + y) \in Bytes
    /\ \A x, y, z \in Bytes : Byte(x + y + z) \in Bytes
    /\ \A x \in Words : x \in Nat
    /\ 0 \in Words /\ 1 \in Words /\ 3 \in Words /\ 0 \in Bytes /\ 1 \in Bytes
BY WordRange, ByteRange, WordMods DEF Words, Bytes

\* The instructions of the bodies, the branches left out.
CodesOfBodies == {"3CC1", "3CC2", "3CC4", "3C34", "4139", "61DB", "61DD", "61E9", "61EB"}

\* A turn's work leaves registers.
LEMMA WorkStays == \A a \in CodesOfBodies : \A q \in Regs : Work(a, q) \in Regs
<1> SUFFICES ASSUME NEW q \in Regs
             PROVE  \A a \in CodesOfBodies : Work(a, q) \in Regs
  OBVIOUS
<1>1. /\ q.cx \in Words /\ q.p \in Words /\ q.ax \in Words
      /\ q.word[1] \in Bytes /\ q.word[2] \in Bytes
      /\ q.acc \in Bytes /\ q.fl \in FlagsType /\ q.mem \in [Words -> Words]
  BY RegsFields
<1>2. /\ Word(q.p + 1) \in Words /\ Word(q.p + q.ax) \in Words /\ Word(2 * q.p) \in Words
      /\ Word(2 * q.p + (IF Carry(q.fl) THEN 1 ELSE 0)) \in Words
      /\ Byte(q.acc + q.word[1]) \in Bytes /\ Byte(q.acc + q.word[2]) \in Bytes
      /\ 0 \in Words
  BY <1>1, WordsStay
<1>3. SetCf(q.fl, 2 * q.p >= WordMod) \in FlagsType
  <2>1. (2 * q.p >= WordMod) \in BOOLEAN OBVIOUS
  <2> QED BY <1>1, <2>1, FlagsStay, Zenon
<1>4. Data[q.p] \in Bytes \X Bytes BY <1>1, WordsAssumption DEF Words, Bytes
<1>5. q.mem[q.p] \in Words BY <1>1
<1>7. Work("3CC1", q) \in Regs
  <2> DEFINE s == [q EXCEPT !.word = Data[q.p]]
  <2>1. s \in Regs /\ s.p = q.p BY <1>4, RegsUpdates, RegsIs
  <2>2. Work("3CC1", q) = [s EXCEPT !.p = Word(s.p + 1)] BY <2>1, WorkIs
  <2> HIDE DEF s
  <2>3. [s EXCEPT !.p = Word(s.p + 1)] \in Regs BY <1>2, <2>1, RegsUpdates
  <2> QED BY <2>2, <2>3
<1>8. [q EXCEPT !.acc = Byte(q.acc + q.word[1])] \in Regs BY <1>2, RegsUpdates
<1>9. [q EXCEPT !.acc = Byte(q.acc + q.word[2])] \in Regs BY <1>2, RegsUpdates
<1>10. Work("3C34", q) \in Regs
  <2> DEFINE s == [q EXCEPT !.mem[Word(q.p + q.ax)] = q.mem[q.p]]
  <2>1. s.p = q.p BY RegsIs
  <2>2. s \in Regs
    <3> DEFINE i == Word(q.p + q.ax)
               v == q.mem[q.p]
    <3>1. i \in Words /\ v \in Words BY <1>2, <1>5
    <3> HIDE DEF i, v
    <3>2. [q EXCEPT !.mem[i] = v] \in Regs BY <3>1, RegsUpdates
    <3> QED BY <3>2 DEF i, v
  <2>3. Work("3C34", q) = [s EXCEPT !.p = Word(s.p + 1)] BY <2>1, WorkIs
  <2> HIDE DEF s
  <2>4. [s EXCEPT !.p = Word(s.p + 1)] \in Regs BY <1>2, <2>1, <2>2, RegsUpdates
  <2> QED BY <2>3, <2>4
<1>11. [q EXCEPT !.mem[0] = q.ax] \in Regs BY <1>1, <1>2, RegsUpdates
<1>12. [q EXCEPT !.mem[q.p] = q.ax] \in Regs BY <1>1, RegsUpdates
<1>13. Work("61DD", q) \in Regs
  <2> DEFINE s == [q EXCEPT !.p = Word(2 * q.p)]
  <2>1. s \in Regs /\ s.fl = q.fl BY <1>2, RegsUpdates, RegsIs
  <2>2. [s EXCEPT !.fl = SetCf(q.fl, 2 * q.p >= WordMod)] \in Regs BY <1>3, <2>1, RegsUpdates
  <2> QED BY <2>1, <2>2, WorkIs
<1>14. Work("61EB", q) \in Regs
  <2> DEFINE s == [q EXCEPT !.p = Word(2 * q.p + (IF Carry(q.fl) THEN 1 ELSE 0))]
  <2>1. s \in Regs /\ s.fl = q.fl BY <1>2, RegsUpdates, RegsIs
  <2>2. [s EXCEPT !.fl = SetCf(q.fl, 2 * q.p >= WordMod)] \in Regs BY <1>3, <2>1, RegsUpdates
  <2> QED BY <2>1, <2>2, WorkIs
<1>15. /\ Work("3CC2", q) \in Regs /\ Work("3CC4", q) \in Regs /\ Work("4139", q) \in Regs
       /\ Work("61DB", q) \in Regs /\ Work("61E9", q) \in Regs
  BY <1>8, <1>9, <1>11, <1>12, WorkIs, Zenon
<1> QED BY <1>7, <1>10, <1>13, <1>14, <1>15 DEF CodesOfBodies

------------------------------------------------------------------------------------
(* The plain loops.                                                                *)

\* No work of a body touches the count.
LEMMA WorkKeepsCx ==
    \A a \in CodesOfBodies : \A q \in Regs : Work(a, q).cx = q.cx
<1> SUFFICES ASSUME NEW q \in Regs PROVE \A a \in CodesOfBodies : Work(a, q).cx = q.cx
  OBVIOUS
<1>1. Work("3CC1", q).cx = q.cx /\ Work("3C34", q).cx = q.cx
  <2>1. /\ [q EXCEPT !.word = Data[q.p], !.p = Word(@ + 1)].cx = q.cx
        /\ [q EXCEPT !.mem[Word(q.p + q.ax)] = q.mem[q.p], !.p = Word(@ + 1)].cx = q.cx
    BY RegsIs
  <2> QED BY <2>1, WorkIs
<1>2. Work("3CC2", q).cx = q.cx /\ Work("3CC4", q).cx = q.cx
  <2>1. /\ [q EXCEPT !.acc = Byte(q.acc + q.word[1])].cx = q.cx
        /\ [q EXCEPT !.acc = Byte(q.acc + q.word[2])].cx = q.cx
    BY RegsIs
  <2> QED BY <2>1, WorkIs
<1>3. Work("4139", q).cx = q.cx /\ Work("61DB", q).cx = q.cx /\ Work("61E9", q).cx = q.cx
  <2>1. [q EXCEPT !.mem[0] = q.ax].cx = q.cx /\ [q EXCEPT !.mem[q.p] = q.ax].cx = q.cx
    BY RegsIs
  <2> QED BY <2>1, WorkIs
<1>4. Work("61DD", q).cx = q.cx /\ Work("61EB", q).cx = q.cx
  <2>1. /\ [q EXCEPT !.p = Word(2 * @), !.fl = SetCf(@, 2 * q.p >= WordMod)].cx = q.cx
        /\ [q EXCEPT !.p = Word(2 * @ + (IF Carry(q.fl) THEN 1 ELSE 0)),
                     !.fl = SetCf(@, 2 * q.p >= WordMod)].cx = q.cx
    BY RegsIs
  <2> QED BY <2>1, WorkIs
<1> QED BY <1>1, <1>2, <1>3, <1>4 DEF CodesOfBodies

\* A turn of a plain loop, written out.
LEMMA IterationIs ==
    \A q : /\ Iteration("checksum", q) = Work("3CC4", Work("3CC2", Work("3CC1", q)))
           /\ Iteration("copy", q) = Work("3C34", q)
           /\ Iteration("delay", q) = Work("4139", q)
           /\ Iteration("shl", q) = Work("61DD", Work("61DB", q))
           /\ Iteration("rcl", q) = Work("61EB", Work("61E9", q))
BY DEF Iteration

\* An iteration leaves registers, and the count alone.
LEMMA IterationStays ==
    ASSUME NEW k \in Counted, NEW q \in Regs
    PROVE  Iteration(k, q) \in Regs /\ Iteration(k, q).cx = q.cx
<1> DEFINE Stays(a) == \A s \in Regs : Work(a, s) \in Regs /\ Work(a, s).cx = s.cx
<1>0. \A a \in CodesOfBodies : Stays(a) BY WorkStays, WorkKeepsCx
<1>4. /\ Stays("3CC1") /\ Stays("3CC2") /\ Stays("3CC4") /\ Stays("3C34") /\ Stays("4139")
      /\ Stays("61DB") /\ Stays("61DD") /\ Stays("61E9") /\ Stays("61EB")
  <2> HIDE DEF Stays
  <2> QED BY <1>0 DEF CodesOfBodies
<1>1. CASE k = "checksum"
  <2>1. Work("3CC2", Work("3CC1", q)) \in Regs BY <1>4
  <2> QED BY <1>1, <1>4, <2>1, IterationIs
<1>2. CASE k \in {"copy", "delay"} BY <1>2, <1>4, IterationIs
<1>3. CASE k \in {"shl", "rcl"} BY <1>3, <1>4, IterationIs
<1> QED BY <1>1, <1>2, <1>3 DEF Counted

\* A turn leaves registers, and one count fewer.
LEMMA TurnIs ==
    ASSUME NEW k \in Counted, NEW q \in Regs
    PROVE  /\ Turn(k)[q] = [Iteration(k, q) EXCEPT !.cx = Word(q.cx - 1)]
           /\ Turn(k)[q] \in Regs
           /\ Turn(k)[q].cx = IF q.cx = 0 THEN WordMod - 1 ELSE q.cx - 1
<1>1. Turn(k)[q] = [Iteration(k, q) EXCEPT !.cx = Word(Iteration(k, q).cx - 1)] BY DEF Turn
<1>2. Turn(k)[q] = [Iteration(k, q) EXCEPT !.cx = Word(q.cx - 1)] BY <1>1, IterationStays
<1>3. q.cx \in Words BY RegsFields
<1>4. Word(q.cx - 1) \in Words BY <1>3, WordsStay
<1>5. Turn(k)[q] \in Regs BY <1>2, <1>4, IterationStays, RegsUpdates
<1>6. Turn(k)[q].cx = Word(q.cx - 1) BY <1>2, IterationStays, RegsIs
<1>7. q.cx # 0 => Word(q.cx - 1) = q.cx - 1
  <2>1. WordMod \in Nat BY WordMods
  <2> QED BY <1>3, <2>1, WordRange DEF Words
<1>8. q.cx = 0 => Word(q.cx - 1) = WordMod - 1 BY WordWraps
<1> QED BY <1>2, <1>5, <1>6, <1>7, <1>8

\* As many turns as CX counts bring it to zero.
LEMMA TurnsStay ==
    ASSUME NEW k \in Counted, NEW q \in Regs
    PROVE  Repeat(Turn(k), q, q.cx) \in Regs /\ Repeat(Turn(k), q, q.cx).cx = 0
<1> DEFINE T == {n \in Nat : n <= q.cx => /\ Repeat(Turn(k), q, n) \in Regs
                                          /\ Repeat(Turn(k), q, n).cx = q.cx - n}
<1>0. q.cx \in Nat BY RegsFields, WordsStay
<1>1. 0 \in T BY <1>0, RepeatIs
<1>2. ASSUME NEW n \in Nat, n \in T PROVE n + 1 \in T
  <2> SUFFICES ASSUME n + 1 <= q.cx
               PROVE  /\ Repeat(Turn(k), q, n + 1) \in Regs
                      /\ Repeat(Turn(k), q, n + 1).cx = q.cx - (n + 1)
    OBVIOUS
  <2> DEFINE s == Repeat(Turn(k), q, n)
  <2>1. s \in Regs /\ s.cx = q.cx - n BY <1>0, <1>2
  <2>2. Repeat(Turn(k), q, n + 1) = Turn(k)[s] BY RepeatIs
  <2> HIDE DEF s
  <2>3. s.cx # 0 /\ s.cx - 1 = q.cx - (n + 1) BY <1>0, <2>1
  <2>4. Turn(k)[s] \in Regs /\ Turn(k)[s].cx = s.cx - 1 BY <2>1, <2>3, TurnIs
  <2> QED BY <2>2, <2>3, <2>4
<1> HIDE DEF T
<1>3. Nat \subseteq T BY <1>1, <1>2, SetInduction
<1>4. q.cx \in T BY <1>0, <1>3
<1> QED BY <1>0, <1>4 DEF T

\* That is the plain loop, when CX is not 0.
LEMMA PlainLoopCounts ==
    ASSUME NEW k \in Counted, NEW q \in Regs, q.cx # 0
    PROVE  /\ PlainLoop(k, q) = Repeat(Turn(k), q, q.cx)
           /\ PlainLoop(k, q) = Repeat(Turn(k), Turn(k)[q], q.cx - 1)
           /\ Turn(k)[q] \in Regs /\ Turn(k)[q].cx = q.cx - 1
<1> DEFINE n == q.cx - 1
<1>1. n \in Nat /\ q.cx = n + 1 BY RegsFields, WordsStay
<1>2. Turn(k)[q] \in Regs /\ Turn(k)[q].cx = n BY TurnIs
<1>3. PlainLoop(k, q) = Repeat(Turn(k), q, q.cx) BY Zenon DEF PlainLoop
<1> HIDE DEF n
<1>4. Repeat(Turn(k), q, n + 1) = Repeat(Turn(k), Turn(k)[q], n) BY <1>1, RepeatShift
<1> QED BY <1>1, <1>2, <1>3, <1>4 DEF n

\* A plain loop is its first turn and, unless that was its last, the plain loop after it.
LEMMA PlainLoopTurns ==
    ASSUME NEW k \in Counted, NEW q \in Regs
    PROVE  PlainLoop(k, q) = IF Turn(k)[q].cx = 0 THEN Turn(k)[q] ELSE PlainLoop(k, Turn(k)[q])
<1> DEFINE t == Turn(k)[q]
           n == IF q.cx = 0 THEN WordMod - 1 ELSE q.cx - 1
<1>1. WordMod \in Nat /\ WordMod >= 4 /\ q.cx \in Nat BY WordMods, RegsFields, WordsStay
<1>2. n \in Nat /\ (IF q.cx = 0 THEN WordMod ELSE q.cx) = n + 1 BY <1>1
<1>3. t \in Regs /\ t.cx = n BY TurnIs
<1>4. PlainLoop(k, q) = Repeat(Turn(k), q, n + 1) BY <1>2 DEF PlainLoop
<1> HIDE DEF n
<1>5. Repeat(Turn(k), q, n + 1) = Repeat(Turn(k), t, n) BY <1>2, RepeatShift
<1>6. CASE n = 0 BY <1>3, <1>4, <1>5, <1>6, RepeatIs
<1>7. CASE n # 0
  <2>1. PlainLoop(k, t) = Repeat(Turn(k), t, n) BY <1>3, <1>7, PlainLoopCounts
  <2> QED BY <1>3, <1>4, <1>5, <1>7, <2>1
<1> QED BY <1>6, <1>7

\* A plain loop leaves registers, with CX at zero.
LEMMA PlainLoopStays ==
    ASSUME NEW k \in Counted, NEW q \in Regs
    PROVE  PlainLoop(k, q) \in Regs /\ PlainLoop(k, q).cx = 0
<1>1. ASSUME NEW s \in Regs, s.cx # 0
      PROVE  PlainLoop(k, s) \in Regs /\ PlainLoop(k, s).cx = 0
  BY <1>1, PlainLoopCounts, TurnsStay
<1> DEFINE t == Turn(k)[q]
<1>2. t \in Regs BY TurnIs
<1>3. PlainLoop(k, q) = IF t.cx = 0 THEN t ELSE PlainLoop(k, t) BY PlainLoopTurns
<1> HIDE DEF t
<1> QED BY <1>1, <1>2, <1>3

\* The same but for the count and the word loaded last.
Like == {d \in Regs \X Regs :
            /\ d[1].p = d[2].p /\ d[1].ax = d[2].ax /\ d[1].acc = d[2].acc
            /\ d[1].fl = d[2].fl /\ d[1].mem = d[2].mem}

\* Registers alike in all but the count and the word read last.
LEMMA LikeIs ==
    \A s, t : <<s, t>> \in Like <=>
        /\ s \in Regs /\ t \in Regs
        /\ s.p = t.p /\ s.ax = t.ax /\ s.acc = t.acc /\ s.fl = t.fl /\ s.mem = t.mem
BY DEF Like

\* The count has no part in a likeness.
LEMMA LikeCount ==
    ASSUME NEW s, NEW t, <<s, t>> \in Like, NEW v \in Words
    PROVE  <<[s EXCEPT !.cx = v], t>> \in Like
<1>1. s \in Regs /\ t \in Regs BY LikeIs
<1>2. s.p = t.p /\ s.ax = t.ax /\ s.acc = t.acc /\ s.fl = t.fl /\ s.mem = t.mem BY LikeIs
<1> DEFINE z == [s EXCEPT !.cx = v]
<1>3. z \in Regs BY <1>1, RegsUpdates
<1>4. z.p = s.p /\ z.ax = s.ax /\ z.acc = s.acc /\ z.fl = s.fl /\ z.mem = s.mem
  BY <1>1, RegsIs
<1> HIDE DEF z
<1>5. <<z, t>> \in Like BY <1>1, <1>2, <1>3, <1>4, LikeIs
<1> QED BY <1>5 DEF z

\* Work does alike to like registers.
LEMMA WorkLike ==
    ASSUME NEW s, NEW t, <<s, t>> \in Like,
           NEW a \in {"3C34", "61DB", "61E9", "61DD", "61EB"}
    PROVE  <<Work(a, s), Work(a, t)>> \in Like
<1>1. /\ s \in Regs /\ t \in Regs
      /\ s.p = t.p /\ s.ax = t.ax /\ s.acc = t.acc /\ s.fl = t.fl /\ s.mem = t.mem
  BY LikeIs
<1>2. Work(a, s) \in Regs /\ Work(a, t) \in Regs BY <1>1, WorkStays DEF CodesOfBodies
<1> SUFFICES /\ Work(a, s).p = Work(a, t).p /\ Work(a, s).ax = Work(a, t).ax
             /\ Work(a, s).acc = Work(a, t).acc /\ Work(a, s).fl = Work(a, t).fl
             /\ Work(a, s).mem = Work(a, t).mem
  BY <1>2, LikeIs, Zenon
<1>3. CASE a = "3C34"
  <2>1. /\ Work(a, s) = [s EXCEPT !.mem[Word(s.p + s.ax)] = s.mem[s.p], !.p = Word(@ + 1)]
        /\ Work(a, t) = [t EXCEPT !.mem[Word(t.p + t.ax)] = t.mem[t.p], !.p = Word(@ + 1)]
    BY <1>3, WorkIs
  <2> QED BY <1>1, <2>1, RegsIs
<1>4. CASE a \in {"61DB", "61E9"}
  <2>1. Work(a, s) = [s EXCEPT !.mem[s.p] = s.ax] /\ Work(a, t) = [t EXCEPT !.mem[t.p] = t.ax]
    BY <1>4, WorkIs
  <2> QED BY <1>1, <2>1, RegsIs
<1>5. CASE a = "61DD"
  <2> DEFINE P(x) == Word(2 * x)
             F(x) == SetCf(x.fl, 2 * x.p >= WordMod)
  <2>1. /\ Work(a, s) = [s EXCEPT !.p = P(s.p), !.fl = F(s)]
        /\ Work(a, t) = [t EXCEPT !.p = P(t.p), !.fl = F(t)]
    BY <1>5, WorkIs
  <2>2. P(s.p) = P(t.p) /\ F(s) = F(t) BY <1>1
  <2> HIDE DEF P, F
  <2> QED BY <1>1, <2>1, <2>2, RegsIs
<1>6. CASE a = "61EB"
  <2> DEFINE P(x) == Word(2 * x.p + (IF Carry(x.fl) THEN 1 ELSE 0))
             F(x) == SetCf(x.fl, 2 * x.p >= WordMod)
  <2>1. /\ Work(a, s) = [s EXCEPT !.p = P(s), !.fl = F(s)]
        /\ Work(a, t) = [t EXCEPT !.p = P(t), !.fl = F(t)]
    BY <1>6, WorkIs
  <2>2. P(s) = P(t) /\ F(s) = F(t) BY <1>1
  <2> HIDE DEF P, F
  <2> QED BY <1>1, <2>1, <2>2, RegsIs
<1> QED BY <1>3, <1>4, <1>5, <1>6

------------------------------------------------------------------------------------
(* The completers.                                                                 *)

\* The completers' own turns.
Adds   == [s \in Regs |-> [AddWord(s, Data[s.p]) EXCEPT !.p = Word(@ + 1)]]
Copies == [s \in Regs |-> Work("3C34", s)]
Tests(store, shift) == [s \in Regs |-> Work(shift, Work(store, s))]

CopyCount(q) == IF q.cx = 0 THEN 1 ELSE IF q.cx > CopyMax THEN CopyMax ELSE q.cx

\* The completers are repetitions of a turn, the count apart.
LEMMA CompletersAre ==
    ASSUME NEW q
    PROVE  /\ Checksum("3CC1", q) = [Repeat(Adds, q, q.cx) EXCEPT !.cx = 0]
           /\ Copy(q) = [Repeat(Copies, q, CopyCount(q)) EXCEPT !.cx = 0,
                                                                !.fl = SetZf(@, FALSE)]
           /\ \A store, shift :
                Mempat(store, shift, q) = [Repeat(Tests(store, shift), q, q.cx) EXCEPT !.cx = 0]
<1>1. Checksum("3CC1", q) = [Repeat(Adds, q, q.cx) EXCEPT !.cx = 0]
  <2>1. "3CC1" \notin {"3CC2", "3CC4", "3CC6"} OBVIOUS
  <2> QED BY <2>1, Zenon DEF Checksum, Adds
<1>2. Copy(q) = [Repeat(Copies, q, CopyCount(q)) EXCEPT !.cx = 0, !.fl = SetZf(@, FALSE)]
  BY Zenon DEF Copy, Copies, CopyCount
<1>3. \A store, shift :
        Mempat(store, shift, q) = [Repeat(Tests(store, shift), q, q.cx) EXCEPT !.cx = 0]
  BY Zenon DEF Mempat, Tests
<1> QED BY <1>1, <1>2, <1>3

\* A memory test is a repetition of its store and its shift.
LEMMA MempatIs ==
    ASSUME NEW store, NEW shift, NEW q
    PROVE  Mempat(store, shift, q) = [Repeat(Tests(store, shift), q, q.cx) EXCEPT !.cx = 0]
BY Zenon DEF Mempat, Tests

FinishLoad(q) == [AddWord(q, q.word) EXCEPT !.cx = IF @ = 0 THEN 0 ELSE @ - 1]

\* The checksum reads inside the buffer.
LEMMA ChecksumInside ==
    ASSUME NEW q, NEW off \in {"3CC2", "3CC4", "3CC6"}
    PROVE  Checksum(off, q) =
               [Repeat(Adds, FinishLoad(q), FinishLoad(q).cx) EXCEPT !.cx = 0]
BY Zenon DEF Checksum, Adds, FinishLoad

\* A turn of the checksum's completer.
LEMMA AddsStay ==
    ASSUME NEW s \in Regs
    PROVE  /\ Adds[s] \in Regs
           /\ Adds[s] = [s EXCEPT !.acc = Byte(s.acc + Data[s.p][1] + Data[s.p][2]),
                                  !.p = Word(s.p + 1)]
<1>1. s.p \in Words /\ s.acc \in Bytes BY RegsFields
<1>2. Data[s.p] \in Bytes \X Bytes BY <1>1, WordsAssumption DEF Words, Bytes
<1> DEFINE v == Byte(s.acc + Data[s.p][1] + Data[s.p][2])
           t == [s EXCEPT !.acc = v]
<1>3. Data[s.p][1] \in Bytes /\ Data[s.p][2] \in Bytes BY <1>2
<1>4. v \in Bytes /\ Word(s.p + 1) \in Words BY <1>1, <1>3, WordsStay
<1>5. Adds[s] = [AddWord(s, Data[s.p]) EXCEPT !.p = Word(@ + 1)] BY DEF Adds
<1>6. AddWord(s, Data[s.p]) = t BY DEF AddWord
<1> HIDE DEF v
<1>7. t \in Regs /\ t.p = s.p BY <1>4, RegsUpdates, RegsIs
<1>8. [t EXCEPT !.p = Word(s.p + 1)] \in Regs BY <1>4, <1>7, RegsUpdates
<1>9. Adds[s] = [t EXCEPT !.p = Word(s.p + 1)] BY <1>5, <1>6, <1>7
<1> QED BY <1>8, <1>9 DEF v

\* A checksum entered after its load ends in registers.
LEMMA FinishLoadStays == \A q \in Regs : FinishLoad(q) \in Regs
<1> SUFFICES ASSUME NEW q \in Regs PROVE FinishLoad(q) \in Regs OBVIOUS
<1> DEFINE v == Byte(q.acc + q.word[1] + q.word[2])
           t == [q EXCEPT !.acc = v]
           n == IF q.cx = 0 THEN 0 ELSE q.cx - 1
<1>1. v \in Bytes BY RegsFields, WordsStay
<1>2. n \in Words BY RegsFields, WordMods DEF Words
<1>3. AddWord(q, q.word) = t BY DEF AddWord
<1> HIDE DEF v
<1>4. t \in Regs /\ t.cx = q.cx BY <1>1, RegsUpdates, RegsIs
<1>5. FinishLoad(q) = [t EXCEPT !.cx = n] BY <1>3, <1>4 DEF FinishLoad
<1> HIDE DEF n
<1> QED BY <1>2, <1>4, <1>5, RegsUpdates

\* A turn of the memory tests is the two works of its body.
LEMMA TestsStay ==
    ASSUME NEW s \in Regs, NEW a \in CodesOfBodies, NEW b \in CodesOfBodies
    PROVE  Tests(a, b)[s] \in Regs /\ Tests(a, b)[s] = Work(b, Work(a, s))
BY WorkStays DEF Tests

\* A turn of the copy's completer.
LEMMA CopiesStay ==
    ASSUME NEW s \in Regs
    PROVE  Copies[s] \in Regs /\ Copies[s] = Work("3C34", s)
BY WorkStays DEF Copies, CodesOfBodies

\* A completer leaves registers.
LEMMA CompletedStays ==
    ASSUME NEW k \in Counted, NEW off, NEW q \in Regs
    PROVE  Completed(k, off, q) \in Regs
<1>0. q.cx \in Nat /\ q.cx \in Words /\ 0 \in Words BY RegsFields, WordsStay
<1>1. CASE k = "checksum"
  <2>1. Completed(k, off, q) = Checksum(off, q) BY <1>1 DEF Completed
  <2> DEFINE first == IF off \in {"3CC2", "3CC4", "3CC6"} THEN FinishLoad(q) ELSE q
  <2>2. Checksum(off, q) = [Repeat(Adds, first, first.cx) EXCEPT !.cx = 0]
    BY Zenon DEF Checksum, Adds, FinishLoad
  <2>3. first \in Regs BY FinishLoadStays
  <2> HIDE DEF first
  <2>4. first.cx \in Nat BY <2>3, RegsFields, WordsStay
  <2>5. Repeat(Adds, first, first.cx) \in Regs BY <2>3, <2>4, AddsStay, RepeatStays
  <2> QED BY <1>0, <2>1, <2>2, <2>5, RegsUpdates
<1>2. CASE k = "copy"
  <2>1. Completed(k, off, q) = Copy(q) BY <1>2 DEF Completed
  <2>2. CopyCount(q) \in Nat BY <1>0, WordsAssumption DEF CopyCount
  <2> DEFINE s == Repeat(Copies, q, CopyCount(q))
  <2>3. s \in Regs BY <2>2, CopiesStay, RepeatStays
  <2>4. Copy(q) = [s EXCEPT !.cx = 0, !.fl = SetZf(@, FALSE)] BY CompletersAre
  <2> HIDE DEF s
  <2> DEFINE t == [s EXCEPT !.cx = 0]
  <2>5. t \in Regs /\ t.fl = s.fl
    <3>1. t.fl = s.fl BY <2>3, RegsIs
    <3> QED BY <1>0, <2>3, <3>1, RegsUpdates
  <2>6. SetZf(s.fl, FALSE) \in FlagsType BY <2>3, RegsFields, FlagsStay
  <2>7. [t EXCEPT !.fl = SetZf(s.fl, FALSE)] \in Regs BY <2>5, <2>6, RegsUpdates
  <2> QED BY <2>1, <2>4, <2>5, <2>7
<1>3. CASE k = "delay"
  <2>1. Completed(k, off, q) = Delay(q) BY <1>3 DEF Completed
  <2> DEFINE v == IF q.cx = 0 THEN q.mem[0] ELSE q.ax
             t == [q EXCEPT !.mem[0] = v]
  <2>2. v \in Words BY <1>0, RegsFields
  <2>3. Delay(q) = [t EXCEPT !.cx = 0] BY DEF Delay
  <2> HIDE DEF v
  <2>4. t \in Regs BY <1>0, <2>2, RegsUpdates
  <2> HIDE DEF t
  <2> QED BY <1>0, <2>1, <2>3, <2>4, RegsUpdates
<1>4. ASSUME NEW a \in CodesOfBodies, NEW b \in CodesOfBodies
      PROVE  Mempat(a, b, q) \in Regs
  <2>1. \A s \in Regs : Tests(a, b)[s] \in Regs BY TestsStay
  <2>2. Repeat(Tests(a, b), q, q.cx) \in Regs BY <1>0, <2>1, RepeatStays
  <2>3. Mempat(a, b, q) = [Repeat(Tests(a, b), q, q.cx) EXCEPT !.cx = 0]
    BY MempatIs
  <2> DEFINE s == Repeat(Tests(a, b), q, q.cx)
  <2>4. s \in Regs BY <2>2
  <2> HIDE DEF s
  <2>5. [s EXCEPT !.cx = 0] \in Regs BY <1>0, <2>4, RegsUpdates
  <2> QED BY <2>3, <2>5 DEF s
<1>5. CASE k = "shl"
  <2>1. Completed(k, off, q) = Mempat("61DB", "61DD", q) BY <1>5 DEF Completed
  <2> QED BY <1>4, <2>1 DEF CodesOfBodies
<1>6. CASE k = "rcl"
  <2>1. Completed(k, off, q) = Mempat("61E9", "61EB", q) BY <1>6 DEF Completed
  <2> QED BY <1>4, <2>1 DEF CodesOfBodies
<1> QED BY <1>1, <1>2, <1>3, <1>5, <1>6 DEF Counted

\* Registers are like themselves.
LEMMA LikeItself == \A q \in Regs : <<q, q>> \in Like
BY LikeIs

\* Turns with and without the count.
LEMMA TurnsAlike ==
    ASSUME NEW k \in {"copy", "shl", "rcl"},
           NEW G, \A s \in Regs : G[s] = Iteration(k, s),
           NEW q \in Regs, NEW s \in Regs, <<q, s>> \in Like
    PROVE  \A n \in Nat : <<Repeat(Turn(k), q, n), Repeat(G, s, n)>> \in Like
<1>0. k \in Counted BY DEF Counted
<1>1. \A d \in Like : <<Turn(k)[d[1]], G[d[2]]>> \in Like
  <2> SUFFICES ASSUME NEW x \in Regs, NEW y \in Regs, <<x, y>> \in Like
               PROVE  <<Turn(k)[x], G[y]>> \in Like
    BY DEF Like
  <2>1. <<Iteration(k, x), Iteration(k, y)>> \in Like
    <3>1. CASE k = "copy"
      <4>1. <<Work("3C34", x), Work("3C34", y)>> \in Like BY WorkLike
      <4> QED BY <3>1, <4>1, IterationIs
    <3>2. CASE k = "shl"
      <4>1. <<Work("61DB", x), Work("61DB", y)>> \in Like BY WorkLike
      <4>2. <<Work("61DD", Work("61DB", x)), Work("61DD", Work("61DB", y))>> \in Like
        BY <4>1, WorkLike
      <4> QED BY <3>2, <4>2, IterationIs
    <3>3. CASE k = "rcl"
      <4>1. <<Work("61E9", x), Work("61E9", y)>> \in Like BY WorkLike
      <4>2. <<Work("61EB", Work("61E9", x)), Work("61EB", Work("61E9", y))>> \in Like
        BY <4>1, WorkLike
      <4> QED BY <3>3, <4>2, IterationIs
    <3> QED BY <3>1, <3>2, <3>3
  <2>2. Turn(k)[x] = [Iteration(k, x) EXCEPT !.cx = Word(x.cx - 1)] BY <1>0, TurnIs
  <2>3. Word(x.cx - 1) \in Words BY RegsFields, WordsStay
  <2> QED BY <2>1, <2>2, <2>3, LikeCount
<1> QED BY <1>1, RepeatsAgree

\* Without carry in the result: all that counts.
LEMMA ResultIs ==
    ASSUME NEW k, NEW s \in Regs, NEW t \in Regs,
           s.cx = t.cx, s.mem = t.mem, s.acc = t.acc,
           k = "copy" \/ s.p = t.p,
           k \notin {"shl", "rcl"} \/ s.fl = t.fl
    PROVE  Result(k, s) = Result(k, t)
<1>1. (IF k = "copy" THEN 0 ELSE s.p) = (IF k = "copy" THEN 0 ELSE t.p) OBVIOUS
<1>2. (k \in {"shl", "rcl"} /\ Carry(s.fl)) = (k \in {"shl", "rcl"} /\ Carry(t.fl)) OBVIOUS
<1> QED BY <1>1, <1>2, Zenon DEF Result

\* What the plain loop leaves but for CX at zero.
LEMMA CountZero ==
    ASSUME NEW s, NEW t, <<s, t>> \in Like, s.cx = 0
    PROVE  LET z == [t EXCEPT !.cx = 0]
           IN  /\ z \in Regs /\ z.cx = s.cx /\ z.mem = s.mem /\ z.acc = s.acc
               /\ z.p = s.p /\ z.fl = s.fl
<1> DEFINE z == [t EXCEPT !.cx = 0]
<1>1. t \in Regs /\ s.p = t.p /\ s.acc = t.acc /\ s.fl = t.fl /\ s.mem = t.mem BY LikeIs
<1>2. z \in Regs BY <1>1, RegsUpdates, WordsStay
<1>3. z.cx = 0 /\ z.mem = t.mem /\ z.acc = t.acc /\ z.p = t.p /\ z.fl = t.fl
  BY <1>1, RegsIs
<1> QED BY <1>1, <1>2, <1>3

\* complete_copy does what the loop does, as long as its bound is not reached.
LEMMA CopyIsPlain ==
    ASSUME NEW q \in Regs, q.cx >= 1, q.cx <= CopyMax
    PROVE  Result("copy", Completed("copy", "3C34", q)) = Result("copy", PlainLoop("copy", q))
<1>0. q.cx \in Nat /\ "copy" \in Counted /\ 0 \in Words
  BY RegsFields, WordsStay DEF Counted
<1>1. CopyCount(q) = q.cx BY <1>0, WordsAssumption DEF CopyCount
<1> DEFINE s == PlainLoop("copy", q)
           t == Repeat(Copies, q, q.cx)
           u == [t EXCEPT !.cx = 0, !.fl = SetZf(@, FALSE)]
<1>2. Completed("copy", "3C34", q) = u BY <1>1, CompletersAre DEF Completed
<1>3. <<s, t>> \in Like
  <2>1. \A x \in Regs : Copies[x] = Iteration("copy", x) BY CopiesStay, IterationIs
  <2>2. <<Repeat(Turn("copy"), q, q.cx), t>> \in Like
    BY <1>0, <2>1, LikeItself, TurnsAlike
  <2>3. s = Repeat(Turn("copy"), q, q.cx) BY <1>0, PlainLoopCounts
  <2> QED BY <2>2, <2>3
<1>4. s \in Regs /\ s.cx = 0 BY <1>0, PlainLoopStays
<1> HIDE DEF s, t
<1>5. t \in Regs /\ t.acc = s.acc /\ t.mem = s.mem BY <1>3, LikeIs
<1>6. u.cx = 0 /\ u.acc = t.acc /\ u.mem = t.mem BY <1>5, RegsIs
<1>7. u \in Regs
  <2>1. u = Completed("copy", "3C34", q) BY <1>2
  <2> QED BY <1>0, <2>1, CompletedStays
<1> HIDE DEF u
<1> QED BY <1>2, <1>4, <1>5, <1>6, <1>7, ResultIs DEF s

\* complete_delay: what the loop stores every time it stores once.
LEMMA DelayIsPlain ==
    ASSUME NEW q \in Regs, q.cx >= 1
    PROVE  /\ Result("delay", Completed("delay", "4139", q)) =
                  Result("delay", PlainLoop("delay", q))
           /\ Result("delay", Completed("delay", "413D", Work("4139", q))) =
                  Result("delay", PlainLoop("delay", q))
<1>0. q.cx \in Nat /\ "delay" \in Counted /\ 0 \in Words
  BY RegsFields, WordsStay DEF Counted
<1> DEFINE m == [q.mem EXCEPT ![0] = q.ax]
           S == {x \in Regs : x.mem = m /\ x.ax = q.ax /\ x.p = q.p /\ x.acc = q.acc}
           s == PlainLoop("delay", q)
<1>1. m \in [Words -> Words] /\ m[0] = q.ax BY <1>0, RegsFields
<1>2. ASSUME NEW x \in Regs, x.mem = q.mem \/ x.mem = m, x.ax = q.ax, x.p = q.p, x.acc = q.acc
      PROVE  Turn("delay")[x] \in S
  <2>1. Turn("delay")[x] = [Work("4139", x) EXCEPT !.cx = Word(x.cx - 1)]
    BY <1>0, TurnIs, IterationIs
  <2>2. Turn("delay")[x] \in Regs BY <1>0, TurnIs
  <2>3. Work("4139", x) = [x EXCEPT !.mem[0] = x.ax] BY WorkIs
  <2>4. [x.mem EXCEPT ![0] = x.ax] = m BY <1>1, <1>2
  <2> HIDE DEF m
  <2> DEFINE y == [x EXCEPT !.mem[0] = x.ax]
  <2>5. y \in Regs BY <1>0, RegsFields, RegsUpdates
  <2>6. y.mem = m /\ y.ax = q.ax /\ y.p = q.p /\ y.acc = q.acc BY <1>2, <2>4, RegsIs
  <2> HIDE DEF y
  <2>7. Turn("delay")[x] = [y EXCEPT !.cx = Word(x.cx - 1)] BY <2>1, <2>3 DEF y
  <2>8. /\ Turn("delay")[x].mem = m /\ Turn("delay")[x].ax = q.ax
        /\ Turn("delay")[x].p = q.p /\ Turn("delay")[x].acc = q.acc
    BY <2>5, <2>6, <2>7, RegsIs
  <2> QED BY <2>2, <2>8
<1>3. s \in S
  <2> DEFINE first == Turn("delay")[q]
  <2>1. first \in S BY <1>2
  <2>2. \A x \in S : Turn("delay")[x] \in S BY <1>2
  <2>3. first \in Regs BY <1>0, TurnIs
  <2>4. s = Repeat(Turn("delay"), first, q.cx - 1) BY <1>0, PlainLoopCounts
  <2>5. q.cx - 1 \in Nat BY <1>0
  <2> HIDE DEF first, S, s
  <2> QED BY <2>1, <2>2, <2>4, <2>5, RepeatStays
<1>4. s \in Regs /\ s.cx = 0 BY <1>0, PlainLoopStays
<1> HIDE DEF s
<1>5. ASSUME NEW x \in Regs, x.mem = q.mem \/ x.mem = m, x.ax = q.ax, x.p = q.p,
             x.acc = q.acc, x.cx = q.cx
      PROVE  /\ Delay(x).mem = m /\ Delay(x).p = q.p /\ Delay(x).acc = q.acc
             /\ Delay(x).cx = 0
  <2>0. (IF x.cx = 0 THEN x.mem[0] ELSE x.ax) = x.ax BY <1>0, <1>5
  <2>1. Delay(x) = [x EXCEPT !.mem[0] = x.ax, !.cx = 0] BY <2>0, Zenon DEF Delay
  <2>2. [x.mem EXCEPT ![0] = x.ax] = m BY <1>1, <1>5
  <2> HIDE DEF m
  <2> QED BY <1>5, <2>1, <2>2, RegsIs
<1>6. ASSUME NEW x \in Regs, NEW off, x.mem = q.mem \/ x.mem = m, x.ax = q.ax, x.p = q.p,
             x.acc = q.acc, x.cx = q.cx
      PROVE  Result("delay", Completed("delay", off, x)) = Result("delay", s)
  <2>1. Completed("delay", off, x) = Delay(x) BY DEF Completed
  <2>2. Delay(x) \in Regs BY <1>0, <2>1, CompletedStays
  <2>3. /\ Delay(x).mem = s.mem /\ Delay(x).p = s.p /\ Delay(x).acc = s.acc
        /\ Delay(x).cx = s.cx
    BY <1>3, <1>4, <1>5, <1>6
  <2> QED BY <1>4, <2>1, <2>2, <2>3, ResultIs
<1>7. /\ Work("4139", q) \in Regs /\ Work("4139", q).mem = m /\ Work("4139", q).ax = q.ax
      /\ Work("4139", q).p = q.p /\ Work("4139", q).acc = q.acc
      /\ Work("4139", q).cx = q.cx
  <2>1. Work("4139", q) = [q EXCEPT !.mem[0] = q.ax] BY WorkIs
  <2> QED BY <2>1, <1>0, WorkStays, RegsIs DEF CodesOfBodies
<1> QED BY <1>6, <1>7 DEF s

\* complete_mempat, entered at the store or behind it.
LEMMA MempatIsPlain ==
    ASSUME NEW k, NEW store, NEW shift,
           \/ k = "shl" /\ store = "61DB" /\ shift = "61DD"
           \/ k = "rcl" /\ store = "61E9" /\ shift = "61EB",
           NEW q \in Regs, q.cx >= 1
    PROVE  /\ Result(k, Completed(k, store, q)) = Result(k, PlainLoop(k, q))
           /\ Result(k, Completed(k, shift, Work(store, q))) = Result(k, PlainLoop(k, q))
<1>0. /\ q.cx \in Nat /\ q.cx \in Words /\ k \in Counted /\ k \in {"copy", "shl", "rcl"}
      /\ store \in CodesOfBodies /\ shift \in CodesOfBodies /\ 0 \in Words
  BY RegsFields, WordsStay DEF Counted, CodesOfBodies
<1> DEFINE G == Tests(store, shift)
           s == PlainLoop(k, q)
           t == Repeat(G, q, q.cx)
           u == Work(store, q)
<1>1. \A x : Iteration(k, x) = Work(shift, Work(store, x))
  BY IterationIs
<1>2. \A x \in Regs : G[x] \in Regs /\ G[x] = Iteration(k, x) BY <1>0, <1>1, TestsStay
<1>3. <<s, t>> \in Like /\ s \in Regs /\ s.cx = 0
  <2>1. s = Repeat(Turn(k), q, q.cx) BY <1>0, PlainLoopCounts
  <2>2. s \in Regs /\ s.cx = 0 BY <1>0, PlainLoopStays
  <2> HIDE DEF G, s
  <2>3. <<q, q>> \in Like BY LikeItself
  <2>4. \A x \in Regs : G[x] = Iteration(k, x) BY <1>2
  <2>5. \A n \in Nat : <<Repeat(Turn(k), q, n), Repeat(G, q, n)>> \in Like
    BY <1>0, <2>3, <2>4, TurnsAlike
  <2> QED BY <1>0, <2>1, <2>2, <2>5
<1>4. u \in Regs /\ u.cx = q.cx BY <1>0, WorkStays, WorkKeepsCx
\* The store done once more changes nothing.
<1>5. Work(store, u) = u
  <2>1. Work(store, q) = [q EXCEPT !.mem[q.p] = q.ax] BY WorkIs
  <2>2. Work(store, u) = [u EXCEPT !.mem[u.p] = u.ax] BY WorkIs
  <2>3. q.p \in Words /\ q.ax \in Words /\ q.mem \in [Words -> Words] BY RegsFields
  <2>4. u.p = q.p /\ u.ax = q.ax /\ u.mem[q.p] = q.ax BY <2>1, <2>3, RegsIs
  <2> HIDE DEF u
  <2>5. [u EXCEPT !.mem[u.p] = u.ax] = u BY <1>4, <2>3, <2>4, RegsIs
  <2> QED BY <2>2, <2>5
<1>6. Repeat(G, u, q.cx) = t
  <2> DEFINE n == q.cx - 1
  <2>1. n \in Nat /\ q.cx = n + 1 BY <1>0
  <2>2. G[u] = G[q] BY <1>1, <1>2, <1>4, <1>5
  <2> HIDE DEF n, G, u
  <2>3. Repeat(G, u, n + 1) = Repeat(G, G[u], n) BY <2>1, RepeatShift
  <2>4. Repeat(G, q, n + 1) = Repeat(G, G[q], n) BY <2>1, RepeatShift
  <2> QED BY <2>1, <2>2, <2>3, <2>4
<1>7. \A off, x : Completed(k, off, x) = Mempat(store, shift, x)
  BY DEF Completed
<1>8. \A off : /\ Completed(k, off, q) = [t EXCEPT !.cx = 0]
               /\ Completed(k, off, u) = [t EXCEPT !.cx = 0]
  <2>1. Mempat(store, shift, q) = [t EXCEPT !.cx = 0] BY MempatIs
  <2>2. Mempat(store, shift, u) = [Repeat(G, u, u.cx) EXCEPT !.cx = 0] BY MempatIs
  <2> HIDE DEF t, u, G
  <2> QED BY <1>4, <1>6, <1>7, <2>1, <2>2
<1> HIDE DEF s, t
<1> DEFINE z == [t EXCEPT !.cx = 0]
<1>9. /\ z \in Regs /\ z.cx = s.cx /\ z.mem = s.mem /\ z.acc = s.acc
      /\ z.p = s.p /\ z.fl = s.fl
  BY <1>3, CountZero
<1> HIDE DEF z
<1>10. Result(k, z) = Result(k, s) BY <1>3, <1>9, ResultIs
<1> QED BY <1>8, <1>10 DEF s, z

\* complete_checksum, entered at the load or behind it.
LEMMA AddsAlike ==
    \A d \in Like : <<Turn("checksum")[d[1]], Adds[d[2]]>> \in Like
<1> SUFFICES ASSUME NEW x \in Regs, NEW y \in Regs, <<x, y>> \in Like
             PROVE  <<Turn("checksum")[x], Adds[y]>> \in Like
  BY DEF Like
<1>0. "checksum" \in Counted BY DEF Counted
<1>1. /\ x.p = y.p /\ x.ax = y.ax /\ x.acc = y.acc /\ x.fl = y.fl /\ x.mem = y.mem
  BY LikeIs
<1>2. x.p \in Words /\ x.acc \in Bytes BY RegsFields
<1> DEFINE w == Data[x.p]
           x1 == [x EXCEPT !.word = w, !.p = Word(x.p + 1)]
           x2 == [x1 EXCEPT !.acc = Byte(x1.acc + x1.word[1])]
           x3 == [x2 EXCEPT !.acc = Byte(x2.acc + x2.word[2])]
           sum == Byte(x.acc + w[1] + w[2])
<1>3. w \in Bytes \X Bytes /\ w[1] \in Bytes /\ w[2] \in Bytes
  BY <1>2, WordsAssumption DEF Words, Bytes
<1>4. Work("3CC1", x) = x1 /\ Work("3CC2", x1) = x2 /\ Work("3CC4", x2) = x3
  BY WorkIs
<1>5. Iteration("checksum", x) = x3 BY <1>4, IterationIs
<1>6. x1 \in Regs /\ x2 \in Regs /\ x3 \in Regs
  <2>1. x1 \in Regs BY <1>4, WorkStays DEF CodesOfBodies
  <2> HIDE DEF x1
  <2>2. x2 \in Regs BY <1>4, <2>1, WorkStays DEF CodesOfBodies
  <2> HIDE DEF x2
  <2>3. x3 \in Regs BY <1>4, <2>2, WorkStays DEF CodesOfBodies
  <2> QED BY <2>1, <2>2, <2>3
<1>7. /\ x1.word = w /\ x1.p = Word(x.p + 1) /\ x1.acc = x.acc
      /\ x1.ax = x.ax /\ x1.fl = x.fl /\ x1.mem = x.mem
  <2> HIDE DEF w
  <2> QED BY RegsIs
<1> HIDE DEF w
<1>8. /\ x2.word = w /\ x2.p = Word(x.p + 1) /\ x2.acc = Byte(x.acc + w[1])
      /\ x2.ax = x.ax /\ x2.fl = x.fl /\ x2.mem = x.mem
  <2> HIDE DEF x1
  <2> QED BY <1>6, <1>7, RegsIs
<1>9. /\ x3.p = Word(x.p + 1) /\ x3.acc = sum
      /\ x3.ax = x.ax /\ x3.fl = x.fl /\ x3.mem = x.mem
  <2>1. Byte(Byte(x.acc + w[1]) + w[2]) = sum BY <1>2, <1>3, ByteSum DEF Bytes
  <2> HIDE DEF x2, sum
  <2> QED BY <1>6, <1>8, <2>1, RegsIs
<1>10. Adds[y] = [y EXCEPT !.acc = sum, !.p = Word(x.p + 1)] /\ Adds[y] \in Regs
  BY <1>1, AddsStay DEF w
<1> HIDE DEF x3, sum
<1>11. <<x3, Adds[y]>> \in Like
  <2> DEFINE z == Adds[y]
  <2>1. z.acc = sum /\ z.p = Word(x.p + 1) /\ z.ax = y.ax /\ z.fl = y.fl /\ z.mem = y.mem
    BY <1>10, RegsIs
  <2>2. z \in Regs BY <1>10
  <2>3. y \in Regs /\ x.ax = y.ax /\ x.fl = y.fl /\ x.mem = y.mem BY <1>1
  <2> HIDE DEF z
  <2>4. <<x3, z>> \in Like BY <1>6, <1>9, <2>1, <2>2, <2>3, LikeIs
  <2> QED BY <2>4 DEF z
<1>12. Turn("checksum")[x] = [x3 EXCEPT !.cx = Word(x.cx - 1)] BY <1>0, <1>5, TurnIs
<1>13. Word(x.cx - 1) \in Words BY RegsFields, WordsStay
<1> QED BY <1>11, <1>12, <1>13, LikeCount

\* From a load on, complete_checksum does what the loop does.
LEMMA AddingIsPlain ==
    ASSUME NEW s, NEW t, <<s, t>> \in Like, s.cx = t.cx
    PROVE  Result("checksum", [Repeat(Adds, t, t.cx) EXCEPT !.cx = 0]) =
               Result("checksum", Repeat(Turn("checksum"), s, s.cx))
<1>0. s \in Regs /\ t \in Regs /\ "checksum" \in Counted BY LikeIs DEF Counted
<1>1. t.cx \in Nat BY <1>0, RegsFields, WordsStay
<1> DEFINE x == Repeat(Turn("checksum"), s, s.cx)
           y == Repeat(Adds, t, t.cx)
<1>2. <<x, y>> \in Like
  <2>1. x = Repeat(Turn("checksum"), s, t.cx) OBVIOUS
  <2> HIDE DEF x
  <2>2. \A n \in Nat : <<Repeat(Turn("checksum"), s, n), Repeat(Adds, t, n)>> \in Like
    BY AddsAlike, RepeatsAgree
  <2> QED BY <1>1, <2>1, <2>2
<1>3. x \in Regs /\ x.cx = 0 BY <1>0, TurnsStay
<1> HIDE DEF x, y
<1> DEFINE z == [y EXCEPT !.cx = 0]
<1>4. /\ z \in Regs /\ z.cx = x.cx /\ z.mem = x.mem /\ z.acc = x.acc
      /\ z.p = x.p /\ z.fl = x.fl
  BY <1>2, <1>3, CountZero
<1> HIDE DEF z
<1>5. Result("checksum", z) = Result("checksum", x) BY <1>3, <1>4, ResultIs
<1> QED BY <1>5 DEF x, y, z

\* The checksum completer does what the plain loop does.
LEMMA ChecksumIsPlain ==
    ASSUME NEW q \in Regs, q.cx >= 1
    PROVE  /\ Result("checksum", Completed("checksum", "3CC1", q)) =
                  Result("checksum", PlainLoop("checksum", q))
           /\ Result("checksum", Completed("checksum", "3CC2", Work("3CC1", q))) =
                  Result("checksum", PlainLoop("checksum", q))
<1>0. /\ "checksum" \in Counted /\ q.cx \in Nat
      /\ \A off, x : Completed("checksum", off, x) = Checksum(off, x)
  BY RegsFields, WordsStay DEF Counted, Completed
<1>1. Result("checksum", Completed("checksum", "3CC1", q)) =
          Result("checksum", PlainLoop("checksum", q))
  <2>1. <<q, q>> \in Like BY LikeItself
  <2>2. Checksum("3CC1", q) = [Repeat(Adds, q, q.cx) EXCEPT !.cx = 0] BY CompletersAre
  <2>3. PlainLoop("checksum", q) = Repeat(Turn("checksum"), q, q.cx)
    BY <1>0, PlainLoopCounts
  <2> QED BY <1>0, <2>1, <2>2, <2>3, AddingIsPlain
<1> DEFINE w == Data[q.p]
           x == [q EXCEPT !.word = w, !.p = Word(q.p + 1)]
           s == Turn("checksum")[q]
           t == FinishLoad(x)
\* The iteration under way, finished.
<1>2. /\ q.p \in Words /\ q.acc \in Bytes
      /\ w \in Bytes \X Bytes /\ w[1] \in Bytes /\ w[2] \in Bytes
  BY RegsFields, WordsAssumption DEF Words, Bytes
<1>3. Work("3CC1", q) = x /\ x \in Regs
  <2>1. Work("3CC1", q) = x BY WorkIs
  <2> HIDE DEF x
  <2> QED BY <2>1, WorkStays DEF CodesOfBodies
<1>4. /\ x.word = w /\ x.p = Word(q.p + 1) /\ x.acc = q.acc /\ x.cx = q.cx
      /\ x.ax = q.ax /\ x.fl = q.fl /\ x.mem = q.mem
  <2> HIDE DEF w
  <2> QED BY RegsIs
<1>5. s \in Regs /\ s.cx = q.cx - 1
  <2>1. q.cx # 0 BY <1>0
  <2> QED BY <1>0, <2>1, PlainLoopCounts
<1>6. <<s, Adds[q]>> \in Like
  <2>1. <<q, q>> \in Like BY LikeItself
  <2> QED BY <2>1, AddsAlike
<1>7. Adds[q] \in Regs /\ Adds[q] = [q EXCEPT !.acc = Byte(q.acc + w[1] + w[2]),
                                             !.p = Word(q.p + 1)]
  BY AddsStay
<1> HIDE DEF w, s, x
<1> DEFINE v == Byte(q.acc + w[1] + w[2])
<1>8. t = [x EXCEPT !.acc = v, !.cx = q.cx - 1]
  <2>1. AddWord(x, x.word) = [x EXCEPT !.acc = v] BY <1>4 DEF AddWord
  <2> HIDE DEF v
  <2>2. [x EXCEPT !.acc = v].cx = q.cx BY <1>3, <1>4, RegsIs
  <2>3. q.cx # 0 BY <1>0
  <2> QED BY <2>1, <2>2, <2>3 DEF FinishLoad
<1>9. t \in Regs BY <1>3, FinishLoadStays
<1> HIDE DEF t, v
<1>10. /\ t.acc = v /\ t.cx = q.cx - 1 /\ t.p = Word(q.p + 1)
       /\ t.ax = q.ax /\ t.fl = q.fl /\ t.mem = q.mem
  BY <1>3, <1>4, <1>8, RegsIs
<1>11. <<s, t>> \in Like
  <2> DEFINE z == Adds[q]
  <2>1. /\ z.acc = v /\ z.p = Word(q.p + 1)
        /\ z.ax = q.ax /\ z.fl = q.fl /\ z.mem = q.mem
    BY <1>7, RegsIs DEF v
  <2> HIDE DEF z
  <2>2. /\ s.p = z.p /\ s.ax = z.ax /\ s.acc = z.acc /\ s.fl = z.fl /\ s.mem = z.mem
    BY <1>6, LikeIs DEF z
  <2> QED BY <1>5, <1>9, <1>10, <2>1, <2>2, LikeIs
<1>12. Checksum("3CC2", x) = [Repeat(Adds, t, t.cx) EXCEPT !.cx = 0]
  BY ChecksumInside DEF t
<1>13. PlainLoop("checksum", q) = Repeat(Turn("checksum"), s, s.cx)
  BY <1>0, <1>5, PlainLoopCounts DEF s
<1>14. Result("checksum", Checksum("3CC2", x)) =
           Result("checksum", Repeat(Turn("checksum"), s, s.cx))
  BY <1>5, <1>10, <1>11, <1>12, AddingIsPlain
<1> QED BY <1>0, <1>1, <1>3, <1>13, <1>14

\* What the guest has of an iteration begun at q when it gets to the body's i-th address.
Done(k, i, q) == CASE i = 1 -> q
                   [] i = 2 -> Work(Body[k][1], q)
                   [] i = 3 -> Work(Body[k][2], Work(Body[k][1], q))
                   [] i = 4 -> Work(Body[k][3], Work(Body[k][2], Work(Body[k][1], q)))

\* Each kind's body, address by address.
LEMMA BodyIs ==
    /\ Body["checksum"] = <<"3CC1", "3CC2", "3CC4", "3CC6">>
    /\ Body["copy"] = <<"3C34", "3C4C">>
    /\ Body["delay"] = <<"4139", "413D">>
    /\ Body["shl"] = <<"61DB", "61DD", "61DF">>
    /\ Body["rcl"] = <<"61E9", "61EB", "61ED">>
BY DEF Body

\* A completer entered where it repeats nothing finishes the loop, the iteration under way
\* included.
LEMMA CompletedIsPlain ==
    ASSUME NEW k \in Counted, NEW i \in DOMAIN Body[k], NEW q \in Regs, q.cx >= 1,
           k = "copy" => q.cx <= CopyMax,
           Body[k][i] \in Offsets(k), Body[k][i] \in CleanEntries
    PROVE  Result(k, Completed(k, Body[k][i], Done(k, i, q))) = Result(k, PlainLoop(k, q))
<1>0. Done(k, 1, q) = q /\ Done(k, 2, q) = Work(Body[k][1], q) BY DEF Done
<1>1. CASE k = "checksum"
  <2>1. i \in 1..4 /\ i \notin {3, 4} BY <1>1, BodyIs DEF CleanEntries
  <2>2. CASE i = 1 BY <1>0, <1>1, <2>2, BodyIs, ChecksumIsPlain
  <2>3. CASE i = 2 BY <1>0, <1>1, <2>3, BodyIs, ChecksumIsPlain
  <2> QED BY <2>1, <2>2, <2>3
<1>2. CASE k = "copy"
  <2>1. i = 1 BY <1>2, BodyIs DEF CleanEntries
  <2> QED BY <1>0, <1>2, <2>1, BodyIs, CopyIsPlain
<1>3. CASE k = "delay"
  <2>1. i \in 1..2 BY <1>3, BodyIs
  <2>2. CASE i = 1 BY <1>0, <1>3, <2>2, BodyIs, DelayIsPlain
  <2>3. CASE i = 2 BY <1>0, <1>3, <2>3, BodyIs, DelayIsPlain
  <2> QED BY <2>1, <2>2, <2>3
<1>4. CASE k = "shl"
  <2>1. i \in 1..3 /\ i # 3 BY <1>4, BodyIs DEF CleanEntries
  <2>2. CASE i = 1 BY <1>0, <1>4, <2>2, BodyIs, MempatIsPlain
  <2>3. CASE i = 2 BY <1>0, <1>4, <2>3, BodyIs, MempatIsPlain
  <2> QED BY <2>1, <2>2, <2>3
<1>5. CASE k = "rcl"
  <2>1. i \in 1..3 /\ i # 3 BY <1>5, BodyIs DEF CleanEntries
  <2>2. CASE i = 1 BY <1>0, <1>5, <2>2, BodyIs, MempatIsPlain
  <2>3. CASE i = 2 BY <1>0, <1>5, <2>3, BodyIs, MempatIsPlain
  <2> QED BY <2>1, <2>2, <2>3
<1> QED BY <1>1, <1>2, <1>3, <1>4, <1>5 DEF Counted

------------------------------------------------------------------------------------
(* The type of the guest's data.                                                   *)

\* What there is to know of a visit.
Visits == [fired: Addrs \cup {"none"}, count: Words, acted: BOOLEAN, want: Regs]

DataOK ==
    /\ kind \in run.visits \cup {"none"}
    /\ r \in Regs
    /\ hits \in [Counters -> Nat]
    /\ \A c \in Counters : hits[c] < Threshold[c]
    /\ idle \in {"spin", "hlt", "cli"}
    /\ visit \in Visits

\* The registers at rest are registers.
LEMMA AtRestIs == AtRest \in Regs
<1>1. [i \in 0..WordMod - 1 |-> i] \in [Words -> Words] BY DEF Words
<1>2. 0 \in Words /\ 0 \in Bytes /\ <<0, 0>> \in Bytes \X Bytes BY WordsStay
<1> QED BY <1>1, <1>2, FlagsStay, RegsIs DEF AtRest

\* So is the record of no visit one of a visit.
LEMMA NoVisitIs == NoVisit \in Visits
BY AtRestIs, WordsStay DEF NoVisit, Visits

\* The flags a loop starts with are flags.
LEMMA CarriesAre == \A f \in Carries : f \in FlagsType
BY FlagsStay DEF Carries, Codes

\* The registers a loop starts with are registers.
LEMMA RegistersAre ==
    ASSUME NEW n \in Words, NEW a \in Words, NEW d \in Words, NEW f \in FlagsType
    PROVE  Registers(n, a, d, f) \in Regs /\ Registers(n, a, d, f).cx = n
<1> DEFINE q1 == [AtRest EXCEPT !.cx = n]
           q2 == [q1 EXCEPT !.ax = a]
           q3 == [q2 EXCEPT !.p = d]
           q4 == [q3 EXCEPT !.fl = f]
<1>1. q1 \in Regs /\ q1.cx = n BY AtRestIs, RegsUpdates, RegsIs
<1>2. Registers(n, a, d, f) = q4 BY DEF Registers
<1> HIDE DEF q1
<1>3. q2 \in Regs /\ q2.cx = n BY <1>1, RegsUpdates, RegsIs
<1> HIDE DEF q2
<1>4. q3 \in Regs /\ q3.cx = n BY <1>3, RegsUpdates, RegsIs
<1> HIDE DEF q3
<1>5. q4 \in Regs /\ q4.cx = n BY <1>4, RegsUpdates, RegsIs
<1> QED BY <1>2, <1>5

\* So are the starts of every kind.
LEMMA StartsAre ==
    ASSUME NEW k, NEW q \in Starts(k)
    PROVE  q \in Regs
<1> DEFINE cx == IF k \in Counted \cup Waits THEN Counts ELSE {0}
           ax == IF k \in {"shl", "rcl"} THEN {3} ELSE IF k \in Counted \cup {"6D3A"} THEN {1}
                 ELSE IF k = "errorlog" THEN {0, 1} ELSE {0}
           p  == IF k = "shl" THEN {WordMod \div 4 + 1}
                 ELSE IF k = "rcl" THEN {WordMod \div 2} ELSE {0}
           fl == IF k \in {"rcl", "errorlog"} THEN Carries ELSE {NoFlags}
<1>1. q \in {Registers(n, a, d, f) : n \in cx, a \in ax, d \in p, f \in fl} BY DEF Starts
<1>2. /\ \A n \in cx : n \in Words
      /\ \A a \in ax : a \in Words
      /\ \A d \in p : d \in Words
  <2>1. WordMod \in Nat /\ WordMod >= 4 BY WordMods
  <2>2. /\ \A n \in Counts : n \in Words
        /\ 0 \in Words /\ 1 \in Words /\ 3 \in Words
        /\ WordMod \div 4 + 1 \in Words /\ WordMod \div 2 \in Words
    BY <2>1, WordsAssumption, WordsStay DEF Words
  <2> QED BY <2>2
<1>3. \A f \in fl : f \in FlagsType BY CarriesAre, FlagsStay
<1> HIDE DEF cx, ax, p, fl
<1>4. PICK n \in cx, a \in ax, d \in p, f \in fl : q = Registers(n, a, d, f) BY <1>1
<1> QED BY <1>2, <1>3, <1>4, RegistersAre

\* What a step may do to the registers, the counts and the history.
LEMMA DataStart == LoopInit => DataOK
<1> SUFFICES ASSUME LoopInit PROVE DataOK OBVIOUS
<1>1. /\ kind = "none" /\ r = AtRest /\ idle = "spin" /\ hits = [c \in Counters |-> 0]
      /\ visit = NoVisit
  BY DEF LoopInit
<1>2. hits \in [Counters -> Nat] /\ \A c \in Counters : hits[c] < Threshold[c]
  BY <1>1, ThresholdAssumption
<1> QED BY <1>1, <1>2, AtRestIs, NoVisitIs DEF DataOK

\* hits below its threshold counts on.
LEMMA CountsKeep ==
    ASSUME DataOK, NEW k \in Counted \cup Waits, HookCounts(k)
    PROVE  DataOK'
<1> DEFINE c == CounterOf(k)
<1>1. c \in Counters BY DEF Counters
<1>2. /\ ~(hits[c] + 1 >= Threshold[c]) /\ hits' = [hits EXCEPT ![c] = hits[c] + 1]
      /\ UNCHANGED <<run, kind, r, idle, visit>>
  BY DEF HookCounts, Due, guest
<1> HIDE DEF c
<1>3. hits \in [Counters -> Nat] /\ \A d \in Counters : hits[d] < Threshold[d]
  BY DEF DataOK
<1>4. \A d \in Counters : Threshold[d] \in Nat BY ThresholdAssumption
<1>5. hits' \in [Counters -> Nat] BY <1>1, <1>2, <1>3
<1>6. ASSUME NEW d \in Counters PROVE hits'[d] < Threshold[d]
  BY <1>1, <1>2, <1>3, <1>4
<1> QED BY <1>2, <1>5, <1>6 DEF DataOK

\* The hit that fires starts over.
LEMMA FiresKeep ==
    ASSUME DataOK, TypeOK, NEW k \in Counted \cup Waits, NEW q \in Regs, HookFires(k, q)
    PROVE  DataOK'
<1> DEFINE c == CounterOf(k)
<1>1. c \in Counters BY DEF Counters
<1>2. /\ hits' = [hits EXCEPT ![c] = 0] /\ r' = q
      /\ visit' = [visit EXCEPT !.fired = at, !.count = r.cx, !.acted = TRUE]
      /\ UNCHANGED <<run, kind, idle>>
  BY DEF HookFires
<1> HIDE DEF c
<1>3. hits \in [Counters -> Nat] /\ \A d \in Counters : hits[d] < Threshold[d]
  BY DEF DataOK
<1>4. \A d \in Counters : Threshold[d] \in Nat \ {0} BY ThresholdAssumption
<1>5. hits' \in [Counters -> Nat] BY <1>1, <1>2, <1>3
<1>6. ASSUME NEW d \in Counters PROVE hits'[d] < Threshold[d]
  <2>1. hits'[d] = 0 \/ hits'[d] = hits[d] BY <1>2, <1>3
  <2> QED BY <1>3, <1>4, <2>1
<1>7. visit' \in Visits
  <2>1. at \in Addrs BY DEF TypeOK
  <2>2. r.cx \in Words BY RegsFields DEF DataOK
  <2> QED BY <1>2, <2>1, <2>2 DEF DataOK, Visits
<1> QED BY <1>2, <1>5, <1>6, <1>7 DEF DataOK

\* A hook that acts on the visit leaves data of type.
LEMMA ActedKeeps ==
    ASSUME DataOK, run' = run, kind' = kind, idle' = idle, hits' = hits, r' \in Regs,
           visit' = [visit EXCEPT !.acted = TRUE] \/ visit' = visit
    PROVE  DataOK'
BY DEF DataOK, Visits

\* A hook that goes away leaves data of type.
LEMMA RestedKeeps ==
    ASSUME DataOK, run' = run, idle' = idle, hits' = hits,
           kind' = "none", r' = AtRest, visit' = NoVisit
    PROVE  DataOK'
BY AtRestIs, NoVisitIs DEF DataOK

\* What the hook writes when it ends a wait.
LEMMA WaitOverIs ==
    \A q : /\ WaitOver("6943", q) = [q EXCEPT !.acc = 1, !.fl = SetZf(@, FALSE)]
           /\ WaitOver("C960", q) = [q EXCEPT !.cx = 0]
           /\ WaitOver("EA90", q) = [q EXCEPT !.cx = 0]
           /\ WaitOver("6961", q) = [q EXCEPT !.mem[0] = 1]
           /\ WaitOver("53C1", q) = q
BY DEF WaitOver, WaitEndsWith

\* It leaves registers.
LEMMA WaitOverStays ==
    ASSUME NEW k \in Waits, NEW q \in Regs PROVE WaitOver(k, q) \in Regs
<1>1. CASE k = "6943"
  <2> DEFINE s == [q EXCEPT !.acc = 1]
  <2>1. s \in Regs /\ s.fl = q.fl BY WordsStay, RegsUpdates, RegsIs
  <2>2. SetZf(q.fl, FALSE) \in FlagsType BY RegsFields, FlagsStay
  <2>3. WaitOver(k, q) = [s EXCEPT !.fl = SetZf(q.fl, FALSE)] BY <1>1, WaitOverIs
  <2> HIDE DEF s
  <2> QED BY <2>1, <2>2, <2>3, RegsUpdates
<1>2. CASE k \in {"C960", "EA90"}
  <2>1. WaitOver(k, q) = [q EXCEPT !.cx = 0] BY <1>2, WaitOverIs
  <2> QED BY <2>1, WordsStay, RegsUpdates
<1>3. CASE k = "6961"
  <2>1. WaitOver(k, q) = [q EXCEPT !.mem[0] = 1] BY <1>3, WaitOverIs
  <2> QED BY <2>1, WordsStay, RegsUpdates
<1>4. CASE k = "53C1" BY <1>4, WaitOverIs
<1> QED BY <1>1, <1>2, <1>3, <1>4 DEF Waits

\* So do the forced sites.
LEMMA ForcedStays == ASSUME NEW k, NEW q \in Regs PROVE Forced(k, q) \in Regs
<1>1. [q EXCEPT !.ax = 1] \in Regs BY WordsStay, RegsUpdates
<1>2. [q EXCEPT !.p = Word(@ + 1)] \in Regs BY RegsFields, WordsStay, RegsUpdates
<1> QED BY <1>1, <1>2 DEF Forced

\* The hook's step leaves data of type.
LEMMA HookData == ASSUME DataOK, TypeOK, RunInv, Hook PROVE DataOK'
<1>0. r \in Regs BY DEF DataOK
<1>1. CASE HookReset BY <1>1, RestedKeeps DEF HookReset
<1>2. CASE HookCounted
  <2>1. kind \in Counted BY <1>2 DEF HookCounted
  <2>2. Completed(kind, at, r) \in Regs BY <1>0, <2>1, CompletedStays
  <2> QED BY <1>2, <2>1, <2>2, CountsKeep, FiresKeep DEF HookCounted
<1>3. CASE HookWait
  <2>1. WaitOver(kind, r) \in Regs BY <1>0, <1>3, WaitOverStays DEF HookWait
  <2> QED BY <1>3, <2>1, CountsKeep, FiresKeep DEF HookWait
<1>4. CASE HookOneShot
  <2>1. Forced(kind, r) \in Regs BY <1>0, ForcedStays
  <2> QED BY <1>4, <2>1, ActedKeeps DEF HookOneShot
<1>5. CASE Hook61BE
  <2> DEFINE f == SetCf(SetZf(r.fl, TRUE), FALSE)
             s == [r EXCEPT !.ax = 0]
  <2>1. f \in FlagsType
    <3>1. r.fl \in FlagsType BY <1>0, RegsFields
    <3>2. SetZf(r.fl, TRUE) \in FlagsType BY <3>1, FlagsStay
    <3> QED BY <3>2, FlagsStay
  <2>2. s \in Regs /\ s.fl = r.fl BY <1>0, WordsStay, RegsUpdates, RegsIs
  <2>3. r' = [s EXCEPT !.fl = f] BY <1>5 DEF Hook61BE
  <2> HIDE DEF f, s
  <2>4. r' \in Regs BY <2>1, <2>2, <2>3, RegsUpdates
  <2> QED BY <1>5, <2>4, ActedKeeps DEF Hook61BE
<1>6. CASE HookErrorLog
  <2> DEFINE f == [r.fl EXCEPT !.eflags = @ \ {"C"}]
             s == [r EXCEPT !.acc = 0]
  <2>1. f \in FlagsType
    <3>1. r.fl \in FlagsType BY <1>0, RegsFields
    <3> QED BY <3>1 DEF FlagsType
  <2>2. s \in Regs /\ s.fl = r.fl BY <1>0, WordsStay, RegsUpdates, RegsIs
  <2>3. r' = [s EXCEPT !.fl = f] BY <1>6 DEF HookErrorLog
  <2> HIDE DEF f, s
  <2>4. r' \in Regs BY <2>1, <2>2, <2>3, RegsUpdates
  <2> QED BY <1>6, <2>4, ActedKeeps DEF HookErrorLog
<1>7. CASE HookDeclines BY <1>0, <1>7, ActedKeeps DEF HookDeclines, guest
<1> QED BY <1>1, <1>2, <1>3, <1>4, <1>5, <1>6, <1>7 DEF Hook

\* A loop's start leaves data of type.
LEMMA StartData ==
    ASSUME DataOK, NEW k \in run.visits, StartVisit(k)
    PROVE  DataOK'
<1>1. PICK q \in Starts(k) :
        /\ r' = q
        /\ visit' = [NoVisit EXCEPT !.want = IF k \in Counted THEN PlainLoop(k, q) ELSE q]
  BY DEF StartVisit
<1>2. q \in Regs BY StartsAre
<1> DEFINE w == IF k \in Counted THEN PlainLoop(k, q) ELSE q
<1>3. w \in Regs BY <1>2, PlainLoopStays
<1>4. visit' = [NoVisit EXCEPT !.want = w] BY <1>1
<1> HIDE DEF w
<1>5. visit' \in Visits
  BY <1>3, <1>4, NoVisitIs DEF Visits
<1>6. kind' = k /\ run' = run /\ hits' = hits /\ idle' = idle BY DEF StartVisit
<1> QED BY <1>1, <1>2, <1>5, <1>6 DEF DataOK

\* The instruction at each address of a body, and the branch.
LEMMA BodyCodes ==
    \A k \in Counted : \A i \in DOMAIN Body[k] :
        i < Len(Body[k]) => Body[k][i] \in CodesOfBodies
<1> SUFFICES ASSUME NEW k \in Counted, NEW i \in DOMAIN Body[k], i < Len(Body[k])
             PROVE  Body[k][i] \in CodesOfBodies
  OBVIOUS
<1>1. CASE k = "checksum"
  <2>1. i \in {1, 2, 3} BY <1>1, BodyIs
  <2> QED BY <1>1, <2>1, BodyIs DEF CodesOfBodies
<1>2. CASE k = "copy" BY <1>2, BodyIs DEF CodesOfBodies
<1>3. CASE k = "delay" BY <1>3, BodyIs DEF CodesOfBodies
<1>4. CASE k = "shl"
  <2>1. i \in {1, 2} BY <1>4, BodyIs
  <2> QED BY <1>4, <2>1, BodyIs DEF CodesOfBodies
<1>5. CASE k = "rcl"
  <2>1. i \in {1, 2} BY <1>5, BodyIs
  <2> QED BY <1>5, <2>1, BodyIs DEF CodesOfBodies
<1> QED BY <1>1, <1>2, <1>3, <1>4, <1>5 DEF Counted

\* The guest's step leaves data of type.
LEMMA GuestData == ASSUME DataOK, TypeOK, RunInv, Guest PROVE DataOK'
<1>0. r \in Regs BY DEF DataOK
<1>1. CASE RunBody
  <2>1. kind \in Counted /\ UNCHANGED <<run, kind, idle, hits, visit>> BY <1>1 DEF RunBody
  <2>2. PICK i \in DOMAIN Body[kind] :
            /\ at = Body[kind][i]
            /\ \/ i < Len(Body[kind]) /\ r' = Work(at, r)
               \/ r' = [r EXCEPT !.cx = Word(@ - 1)]
    BY <1>1 DEF RunBody, CountDown
  <2>3. CASE i < Len(Body[kind]) /\ r' = Work(at, r)
    <3>1. at \in CodesOfBodies BY <2>1, <2>2, <2>3, BodyCodes
    <3>2. r' \in Regs BY <1>0, <2>3, <3>1, WorkStays
    <3> QED BY <2>1, <3>2, ActedKeeps
  <2>4. CASE r' = [r EXCEPT !.cx = Word(@ - 1)]
    <3>1. Word(r.cx - 1) \in Words BY <1>0, RegsFields, WordsStay
    <3>2. r' \in Regs BY <1>0, <2>4, <3>1, RegsUpdates
    <3> QED BY <2>1, <3>2, ActedKeeps
  <2> QED BY <2>2, <2>3, <2>4
<1>2. CASE RunHead
  <2>1. UNCHANGED <<run, kind, idle, hits, visit>> BY <1>2 DEF RunHead
  <2>2. \/ \E bit \in {0, 1} : r' = [r EXCEPT !.acc = bit]
        \/ r' = r \/ r' = [r EXCEPT !.mem[0] = 1]
    BY <1>2 DEF RunHead
  <2>3. r' \in Regs BY <1>0, <2>2, WordsStay, RegsUpdates
  <2> QED BY <2>1, <2>3, ActedKeeps
<1>3. CASE RunSite
  <2>1. UNCHANGED <<run, kind, idle, hits, visit>> BY <1>3 DEF RunSite
  <2>2. \/ r' = [r EXCEPT !.fl = SetZf(@, r.acc # 1)]
        \/ r' = [r EXCEPT !.cx = Word(@ - 1)] \/ r' = r
    BY <1>3 DEF RunSite, CountDown
  <2>3. CASE r' = [r EXCEPT !.fl = SetZf(@, r.acc # 1)]
    <3>1. (r.acc # 1) \in BOOLEAN OBVIOUS
    <3>2. r.fl \in FlagsType BY <1>0, RegsFields
    <3> DEFINE f == SetZf(r.fl, r.acc # 1)
    <3>3. f \in FlagsType BY <3>1, <3>2, FlagsStay, Zenon
    <3>4. r' = [r EXCEPT !.fl = f] BY <2>3
    <3> HIDE DEF f
    <3>5. r' \in Regs BY <1>0, <3>3, <3>4, RegsUpdates
    <3> QED BY <2>1, <3>5, ActedKeeps
  <2>4. CASE r' = [r EXCEPT !.cx = Word(@ - 1)] \/ r' = r
    <3>1. Word(r.cx - 1) \in Words BY <1>0, RegsFields, WordsStay
    <3>2. r' \in Regs BY <1>0, <2>4, <3>1, RegsUpdates
    <3> QED BY <2>1, <3>2, ActedKeeps
  <2> QED BY <2>2, <2>3, <2>4
<1>4. CASE RunScan BY <1>0, <1>4, ActedKeeps DEF RunScan, guest
<1>5. CASE RunReturn BY <1>0, <1>5, ActedKeeps DEF RunReturn, guest
<1>6. CASE RunInt15
  <2>1. PICK n \in {0, 1}, f \in Carries : r' = [r EXCEPT !.acc = n, !.fl = f]
    BY <1>6 DEF RunInt15
  <2> DEFINE s == [r EXCEPT !.acc = n]
  <2>2. n \in Bytes /\ f \in FlagsType BY WordsStay, CarriesAre
  <2>3. s \in Regs BY <1>0, <2>2, RegsUpdates
  <2>4. r' = [s EXCEPT !.fl = f] BY <2>1
  <2> HIDE DEF s
  <2>5. r' \in Regs BY <2>2, <2>3, <2>4, RegsUpdates
  <2> QED BY <1>6, <2>5, ActedKeeps DEF RunInt15
<1>7. CASE RunOut64
  <2>1. idle' \in {"spin", "hlt", "cli"} /\ UNCHANGED <<run, kind, r, hits, visit>>
    BY <1>7 DEF RunOut64
  <2> QED BY <2>1 DEF DataOK
<1>8. CASE RunIdle BY <1>0, <1>8, ActedKeeps DEF RunIdle, guest
<1>9. CASE RunOn BY <1>9, RestedKeeps DEF RunOn
<1> QED
  BY <1>1, <1>2, <1>3, <1>4, <1>5, <1>6, <1>7, <1>8, <1>9, StartData DEF Guest, RunWait

\* Every step of the composition leaves data of type.
LEMMA DataKeeps == LoopInv /\ DataOK /\ [LoopNext]_loopVars => DataOK'
<1> SUFFICES ASSUME LoopInv, DataOK, [LoopNext]_loopVars PROVE DataOK' OBVIOUS
<1>0. TypeOK /\ RunInv /\ r \in Regs BY DEF LoopInv, ExecInv, DataOK
<1>1. CASE Hook BY <1>0, <1>1, HookData
<1>2. CASE Guest BY <1>0, <1>2, GuestData
<1>3. CASE HostKick \/ HostCut \/ HostWake
  BY <1>0, <1>3, ActedKeeps DEF HostKick, HostCut, HostWake, guest
<1>4. CASE UNCHANGED loopVars BY <1>0, <1>4, ActedKeeps DEF loopVars, guest
<1> QED BY <1>1, <1>2, <1>3, <1>4 DEF LoopNext

\* The registers the completers and the guest compute stay registers, and no count
\* reaches its threshold (the statics of pc110_post_intercept).
THEOREM LoopTypeCorrect == LoopSpec => []LoopTypeOK
<1>1. LoopInv /\ DataOK => LoopTypeOK
  BY DEF LoopInv, ExecInv, RunInv, DataOK, LoopTypeOK, Visits, Words
<1> QED BY <1>1, DataStart, DataKeeps, Invariance, PTL DEF LoopSpec

------------------------------------------------------------------------------------
(* What a completed loop leaves.                                                   *)

\* A counted loop under way is at the i-th address of an iteration begun at q, from which
\* the plain loop comes to what it comes to from the start.
UnderWay ==
    /\ visit.fired = "none"
    /\ \E q \in Regs, i \in DOMAIN Body[kind] :
        /\ at = Body[kind][i] /\ r = Done(kind, i, q)
        /\ PlainLoop(kind, q) = visit.want

\* Or the loop is over, with the plain loop's result unless a LOOPE left it early or a
\* completer repeated something or does not do such a count in full.
Finished ==
    /\ at = ExitOf[kind]
    /\ ~LeftEarly /\ visit.fired \in CleanEntries /\ WithinCount =>
           Result(kind, r) = Result(kind, visit.want)

\* As long as no jump leads astray.
EffectInv == LinksFaithful /\ kind \in Counted => UnderWay \/ Finished

\* Sites of the hook and the guest that no counted loop has.
OtherSites == {"61BE", "5F232", "out64", "after"}

\* The exits of the counted loops.
LEMMA CountedExits ==
    /\ ExitOf["checksum"] = "3CC8" /\ ExitOf["copy"] = "3C4E" /\ ExitOf["delay"] = "413F"
    /\ ExitOf["shl"] = "61E1" /\ ExitOf["rcl"] = "61EF"
BY DEF ExitOf, Ended, Kinds, Counted

\* A counted loop's exit is neither in its body nor another hook's address.
LEMMA SitesApart ==
    ASSUME NEW k \in Counted
    PROVE  /\ ExitOf[k] \notin OtherSites /\ ExitOf[k] \notin Offsets(k)
           /\ 1 \in DOMAIN Body[k] /\ Len(Body[k]) \in DOMAIN Body[k] /\ Len(Body[k]) \in 2..4
           /\ DOMAIN Body[k] = 1..Len(Body[k])
           /\ \A i \in DOMAIN Body[k] :
                /\ Body[k][i] \notin OtherSites /\ Body[k][i] # ExitOf[k]
                /\ Body[k][i] # "none"
                /\ \A j \in DOMAIN Body[k] : Body[k][i] = Body[k][j] => i = j
<1>1. CASE k = "checksum" BY <1>1, BodyIs, CountedExits DEF OtherSites, Offsets
<1>2. CASE k = "copy" BY <1>2, BodyIs, CountedExits DEF OtherSites, Offsets
<1>3. CASE k = "delay" BY <1>3, BodyIs, CountedExits DEF OtherSites, Offsets
<1>4. CASE k = "shl" BY <1>4, BodyIs, CountedExits DEF OtherSites, Offsets
<1>5. CASE k = "rcl" BY <1>5, BodyIs, CountedExits DEF OtherSites, Offsets
<1> QED BY <1>1, <1>2, <1>3, <1>4, <1>5 DEF Counted

\* From address to address an iteration is done.
LEMMA DoneSteps ==
    ASSUME NEW k \in Counted, NEW q \in Regs
    PROVE  /\ Done(k, 1, q) = q
           /\ \A i \in DOMAIN Body[k] : i < Len(Body[k]) =>
                Work(Body[k][i], Done(k, i, q)) = Done(k, i + 1, q)
           /\ [Done(k, Len(Body[k]), q) EXCEPT !.cx = Word(@ - 1)] = Turn(k)[q]
<1>1. /\ Done(k, 1, q) = q /\ Done(k, 2, q) = Work(Body[k][1], q)
      /\ Done(k, 3, q) = Work(Body[k][2], Work(Body[k][1], q))
      /\ Done(k, 4, q) = Work(Body[k][3], Work(Body[k][2], Work(Body[k][1], q)))
  BY DEF Done
<1>2. ASSUME NEW i \in DOMAIN Body[k], i < Len(Body[k])
      PROVE  Work(Body[k][i], Done(k, i, q)) = Done(k, i + 1, q)
  <2>1. i \in {1, 2, 3} BY <1>2, SitesApart
  <2> QED BY <1>1, <2>1
<1>3. Done(k, Len(Body[k]), q) = Iteration(k, q)
  <2>1. CASE k = "checksum" BY <1>1, <2>1, BodyIs, IterationIs
  <2>2. CASE k = "copy" BY <1>1, <2>2, BodyIs, IterationIs
  <2>3. CASE k = "delay" BY <1>1, <2>3, BodyIs, IterationIs
  <2>4. CASE k = "shl" BY <1>1, <2>4, BodyIs, IterationIs
  <2>5. CASE k = "rcl" BY <1>1, <2>5, BodyIs, IterationIs
  <2> QED BY <2>1, <2>2, <2>3, <2>4, <2>5 DEF Counted
<1>4. Turn(k)[q] = [Iteration(k, q) EXCEPT !.cx = Word(@ - 1)] BY DEF Turn
<1> QED BY <1>1, <1>2, <1>3, <1>4

\* And the count is what it was.
LEMMA DoneKeepsCx ==
    ASSUME NEW k \in Counted, NEW q \in Regs, NEW i \in DOMAIN Body[k]
    PROVE  Done(k, i, q) \in Regs /\ Done(k, i, q).cx = q.cx
<1> DEFINE T == {n \in Nat : n + 1 \in DOMAIN Body[k] =>
                    Done(k, n + 1, q) \in Regs /\ Done(k, n + 1, q).cx = q.cx}
<1>1. DOMAIN Body[k] = 1..Len(Body[k]) /\ Len(Body[k]) \in 2..4 BY SitesApart
<1>2. 0 \in T
  <2>1. Done(k, 1, q) = q BY DoneSteps
  <2>2. 0 + 1 = 1 OBVIOUS
  <2> QED BY <2>1, <2>2
<1>3. ASSUME NEW n \in Nat, n \in T PROVE n + 1 \in T
  <2> SUFFICES ASSUME (n + 1) + 1 \in DOMAIN Body[k]
               PROVE  Done(k, (n + 1) + 1, q) \in Regs /\ Done(k, (n + 1) + 1, q).cx = q.cx
    OBVIOUS
  <2> DEFINE m == n + 1
             d == Done(k, m, q)
  <2>1. m \in DOMAIN Body[k] /\ m < Len(Body[k]) BY <1>1
  <2>2. d \in Regs /\ d.cx = q.cx BY <1>3, <2>1
  <2> HIDE DEF m, T
  <2>3. Work(Body[k][m], Done(k, m, q)) = Done(k, m + 1, q)
    <3>1. \A j \in DOMAIN Body[k] : j < Len(Body[k]) =>
              Work(Body[k][j], Done(k, j, q)) = Done(k, j + 1, q)
      BY DoneSteps
    <3> QED BY <2>1, <3>1, Zenon
  <2>4. Body[k][m] \in CodesOfBodies BY <2>1, BodyCodes
  <2> HIDE DEF d
  <2>5. Work(Body[k][m], d) \in Regs /\ Work(Body[k][m], d).cx = q.cx
    BY <2>2, <2>4, WorkStays, WorkKeepsCx
  <2> QED BY <2>3, <2>5 DEF d, m
<1> HIDE DEF T
<1>4. Nat \subseteq T BY <1>2, <1>3, SetInduction
<1>5. i - 1 \in Nat /\ (i - 1) + 1 = i BY <1>1
<1>6. i - 1 \in T BY <1>4, <1>5
<1> QED BY <1>5, <1>6 DEF T

\* Links are never taken back, and a faithful one leads where the jump was to go.
LEMMA LinksStay == [Next]_vars => links \subseteq links'
BY DEF Next, InLoop, InCode, Outside, TakeReset, Enter, EnterBlock, LinkLast, Complete,
       Answer, Continue, Inside, JumpTo, FarTo, Halt, Kick, Cut, Wake, cache, vars

\* A chain faithful after a step was faithful before it.
LEMMA FaithfulBefore == LinksFaithful' /\ [Next]_vars => LinksFaithful
BY LinksStay DEF LinksFaithful

\* A jump gets where it goes when the links are faithful.
LEMMA Arrives ==
    ASSUME LinksFaithful, NEW t, Inside(t) \/ JumpTo(t) \/ FarTo(t)
    PROVE  at' = t
BY DEF LinksFaithful, Inside, JumpTo, FarTo

------------------------------------------------------------------------------------
\* A step that leaves the visit alone.
LEMMA EffectStays ==
    ASSUME EffectInv, [Next]_vars, UNCHANGED <<at, kind, r, visit>>
    PROVE  EffectInv'
<1> SUFFICES ASSUME LinksFaithful', kind' \in Counted
             PROVE  (UnderWay \/ Finished)'
  BY DEF EffectInv
<1>1. UnderWay \/ Finished BY FaithfulBefore DEF EffectInv
<1>2. CASE UnderWay
  <2>1. PICK q \in Regs, i \in DOMAIN Body[kind] :
            /\ at = Body[kind][i] /\ r = Done(kind, i, q)
            /\ PlainLoop(kind, q) = visit.want
    BY <1>2 DEF UnderWay
  <2> QED BY <1>2, <2>1 DEF UnderWay
<1>3. CASE Finished
  <2>1. (LeftEarly' <=> LeftEarly) /\ (WithinCount' <=> WithinCount)
    BY DEF LeftEarly, WithinCount
  <2> QED BY <1>3, <2>1 DEF Finished
<1> QED BY <1>1, <1>2, <1>3

\* While a counted loop is visited, the guest is at one of its addresses or its exit.
LEMMA EffectSites ==
    ASSUME EffectInv, LinksFaithful, kind \in Counted
    PROVE  at \notin OtherSites
<1>1. CASE UnderWay BY <1>1, SitesApart DEF UnderWay
<1>2. CASE Finished BY <1>2, SitesApart DEF Finished
<1> QED BY <1>1, <1>2 DEF EffectInv

\* A completer finishes what is under way.
LEMMA FiresEffect ==
    ASSUME EffectInv, [Next]_vars, kind \in Counted, at \in Offsets(kind),
           DataOK, HookFires(kind, Completed(kind, at, r))
    PROVE  EffectInv'
<1> SUFFICES ASSUME LinksFaithful'
             PROVE  Finished'
  BY DEF EffectInv, HookFires
<1>1. UnderWay
  <2>1. UnderWay \/ Finished BY FaithfulBefore DEF EffectInv
  <2>2. ~Finished BY SitesApart DEF Finished
  <2> QED BY <2>1, <2>2
<1>2. PICK q \in Regs, i \in DOMAIN Body[kind] :
        /\ at = Body[kind][i] /\ r = Done(kind, i, q)
        /\ PlainLoop(kind, q) = visit.want
  BY <1>1 DEF UnderWay
<1>3. /\ r' = Completed(kind, at, r) /\ kind' = kind /\ at' = ExitOf[kind]
      /\ visit' = [visit EXCEPT !.fired = at, !.count = r.cx, !.acted = TRUE]
  BY DEF HookFires, Complete, Answer, Continue
<1>4. visit'.fired = at /\ visit'.count = q.cx /\ visit'.want = visit.want
  <2>1. r.cx = q.cx BY <1>2, DoneKeepsCx
  <2> QED BY <1>3, <2>1 DEF DataOK, Visits
<1>5. at # "none" BY <1>2, SitesApart
<1>6. ASSUME at \in CleanEntries, WithinCount'
      PROVE  Result(kind, r') = Result(kind, visit.want)
  <2>1. Body[kind][i] \in Offsets(kind) /\ Body[kind][i] \in CleanEntries BY <1>2, <1>6
  <2>2. q.cx # 0 /\ (kind = "copy" => q.cx <= CopyMax)
    BY <1>3, <1>4, <1>5, <1>6 DEF WithinCount
  <2>3. q.cx >= 1 BY <2>2, RegsFields, WordsStay
  <2>4. Result(kind, Completed(kind, Body[kind][i], Done(kind, i, q))) =
            Result(kind, PlainLoop(kind, q))
    BY <2>1, <2>2, <2>3, CompletedIsPlain
  <2> QED BY <1>2, <1>3, <2>4
<1> QED BY <1>3, <1>4, <1>6 DEF Finished

\* A visit that starts leaves its loop under way.
LEMMA StartEffect ==
    ASSUME EffectInv, [Next]_vars, NEW k \in Kinds, StartVisit(k)
    PROVE  EffectInv'
<1> SUFFICES ASSUME LinksFaithful', k \in Counted
             PROVE  UnderWay'
  BY DEF EffectInv, StartVisit
<1>1. PICK q \in Starts(k) :
        /\ r' = q
        /\ visit' = [NoVisit EXCEPT !.want = IF k \in Counted THEN PlainLoop(k, q) ELSE q]
  BY DEF StartVisit
<1>2. q \in Regs BY StartsAre
<1>3. visit'.want = PlainLoop(k, q) /\ visit'.fired = "none" BY <1>1 DEF NoVisit
<1>4. at' = Body[k][1] /\ kind' = k
  <2>1. JumpTo(Entry(k)) \/ FarTo(Entry(k)) BY DEF StartVisit, Reach
  <2>2. at' = Entry(k) BY <2>1, FaithfulBefore, Arrives
  <2> QED BY <2>2, EntriesAre DEF StartVisit
<1>5. 1 \in DOMAIN Body[k] /\ Done(k, 1, q) = q BY <1>2, SitesApart, DoneSteps
<1> QED BY <1>1, <1>2, <1>3, <1>4, <1>5 DEF UnderWay

\* The guest goes one instruction on.
LEMMA BodyEffect ==
    ASSUME EffectInv, [Next]_vars, DataOK, RunBody
    PROVE  EffectInv'
<1>0. kind \in Counted /\ kind' = kind /\ visit' = visit BY DEF RunBody
<1> SUFFICES ASSUME LinksFaithful'
             PROVE  UnderWay' \/ Finished'
  BY <1>0 DEF EffectInv
<1>1. LinksFaithful BY FaithfulBefore
<1>2. PICK j \in DOMAIN Body[kind] :
        /\ at = Body[kind][j]
        /\ IF j < Len(Body[kind])
           THEN r' = Work(at, r) /\ Inside(Body[kind][j + 1])
           ELSE \/ CountDown(Body[kind][1], ExitOf[kind])
                \/ kind = "copy" /\ CountDown(ExitOf[kind], ExitOf[kind])
  BY DEF RunBody
<1>3. UnderWay
  <2>1. ~Finished BY <1>0, <1>2, SitesApart DEF Finished
  <2> QED BY <1>0, <1>1, <2>1 DEF EffectInv
<1>4. PICK q \in Regs, i \in DOMAIN Body[kind] :
        /\ at = Body[kind][i] /\ r = Done(kind, i, q)
        /\ PlainLoop(kind, q) = visit.want
  BY <1>3 DEF UnderWay
<1>5. i = j BY <1>0, <1>2, <1>4, SitesApart
<1>6. visit.fired = "none" BY <1>3 DEF UnderWay
<1>7. CASE j < Len(Body[kind])
  <2>0. Work(Body[kind][j], Done(kind, j, q)) = Done(kind, j + 1, q)
    <3>1. \A i0 \in DOMAIN Body[kind] : i0 < Len(Body[kind]) =>
            Work(Body[kind][i0], Done(kind, i0, q)) = Done(kind, i0 + 1, q)
      BY <1>0, <1>4, DoneSteps
    <3> QED BY <1>2, <1>7, <3>1
  <2>1. r' = Done(kind, j + 1, q) BY <1>2, <1>4, <1>5, <1>7, <2>0
  <2>2. at' = Body[kind][j + 1] BY <1>1, <1>2, <1>7, Arrives
  <2>3. j + 1 \in DOMAIN Body[kind] BY <1>0, <1>7, SitesApart
  <2> QED BY <1>0, <1>4, <1>6, <2>1, <2>2, <2>3 DEF UnderWay
<1>8. CASE ~(j < Len(Body[kind]))
  <2>1. j = Len(Body[kind]) BY <1>0, <1>8, SitesApart
  <2> DEFINE s == Turn(kind)[q]
  <2>2. r' = s
    <3>1. r' = [r EXCEPT !.cx = Word(@ - 1)] BY <1>2, <1>8 DEF CountDown
    <3>2. r = Done(kind, Len(Body[kind]), q) BY <1>4, <1>5, <2>1
    <3> QED BY <1>0, <3>1, <3>2, DoneSteps
  <2>3. s \in Regs BY <1>0, <1>4, TurnIs
  <2>4. visit.want = IF s.cx = 0 THEN s ELSE PlainLoop(kind, s)
    BY <1>0, <1>4, PlainLoopTurns
  <2> HIDE DEF s
  <2>5. \/ at' = IF s.cx = 0 THEN ExitOf[kind] ELSE Body[kind][1]
        \/ kind = "copy" /\ at' = ExitOf[kind]
    BY <1>1, <1>2, <1>8, <2>2, Arrives DEF CountDown
  <2>6. CASE s.cx = 0
    <3>1. s = visit.want BY <2>4, <2>6
    <3> QED BY <1>0, <2>2, <2>5, <2>6, <3>1 DEF Finished
  <2>7. CASE s.cx # 0 /\ at' = Body[kind][1]
    <3>1. 1 \in DOMAIN Body[kind] /\ Done(kind, 1, s) = s
      BY <1>0, <2>3, SitesApart, DoneSteps
    <3> QED BY <1>0, <1>6, <2>2, <2>3, <2>4, <2>7, <3>1 DEF UnderWay
  <2>8. CASE s.cx # 0 /\ kind = "copy" /\ at' = ExitOf[kind]
    <3>1. LeftEarly' BY <1>0, <1>6, <2>2, <2>8 DEF LeftEarly
    <3> QED BY <1>0, <2>8, <3>1 DEF Finished
  <2> QED BY <2>5, <2>6, <2>7, <2>8
<1> QED BY <1>7, <1>8

\* At the start no visit is under way.
LEMMA EffectStart == LoopInit => EffectInv
<1>1. "none" \notin Counted BY DEF Counted
<1> QED BY <1>1 DEF LoopInit, EffectInv

\* Every step keeps the visit under way, or finishes it with the plain loop's effect.
LEMMA EffectKeeps ==
    LoopInv /\ DataOK /\ EffectInv /\ [LoopNext]_loopVars => EffectInv'
<1> SUFFICES ASSUME LoopInv, DataOK, EffectInv, [LoopNext]_loopVars PROVE EffectInv'
  OBVIOUS
<1>0. [Next]_vars
  <2>1. CASE LoopNext BY <2>1, LoopShape, ShapeIsNext DEF LoopInv
  <2>2. CASE UNCHANGED loopVars BY <2>2 DEF loopVars
  <2> QED BY <2>1, <2>2
<1>1. CASE kind' \notin Counted BY <1>1 DEF EffectInv
<1>2. CASE ~LinksFaithful' BY <1>2 DEF EffectInv
<1>3. CASE UNCHANGED <<at, kind, r, visit>> BY <1>0, <1>3, EffectStays
<1>4. ASSUME kind' \in Counted, LinksFaithful', ~UNCHANGED <<at, kind, r, visit>>
      PROVE  EffectInv'
  <2>0. LinksFaithful BY <1>0, <1>4, FaithfulBefore
  <2>1. "none" \notin Counted BY DEF Counted
  <2>2. kind' = kind => at \notin OtherSites BY <1>4, <2>0, EffectSites
  <2>3. CASE Hook
    <3>1. ~HookReset BY <1>4, <2>1 DEF HookReset
    <3>2. CASE HookCounted
      <4>1. ~HookCounts(kind) BY <1>4 DEF HookCounts, EnterBlock, guest
      <4>2. kind \in Counted /\ at \in Offsets(kind) /\ HookFires(kind, Completed(kind, at, r))
        BY <3>2, <4>1 DEF HookCounted
      <4> QED BY <1>0, <4>2, FiresEffect
    <3>3. ~HookWait
      <4>1. HookWait => kind \in Waits /\ kind' = kind
        BY DEF HookWait, HookCounts, HookFires, guest
      <4> QED BY <1>4, <4>1 DEF Waits, Counted
    <3>4. ~HookOneShot
      <4>1. HookOneShot => kind \in OneShots /\ kind' = kind BY DEF HookOneShot
      <4> QED BY <1>4, <4>1 DEF OneShots, Counted
    <3>5. ~Hook61BE BY <2>2 DEF Hook61BE, OtherSites
    <3>6. ~HookErrorLog BY <2>2 DEF HookErrorLog, AsksForLog, OtherSites
    <3>7. ~HookDeclines BY <1>4 DEF HookDeclines, Enter, EnterBlock, guest
    <3> QED BY <2>3, <3>1, <3>2, <3>3, <3>4, <3>5, <3>6, <3>7 DEF Hook
  <2>4. CASE Guest
    <3>1. ASSUME NEW k \in run.visits, StartVisit(k) PROVE EffectInv'
      <4>1. k \in Kinds BY RunsAssumption DEF LoopInv, RunInv
      <4> QED BY <1>0, <3>1, <4>1, StartEffect
    <3>2. CASE RunBody BY <1>0, <3>2, BodyEffect
    <3>3. ~RunWait
      <4>1. RunWait => kind \in Waits /\ kind' = kind BY DEF RunWait, RunHead, RunSite
      <4> QED BY <1>4, <4>1 DEF Waits, Counted
    <3>4. ~RunReturn BY <2>2 DEF RunReturn, OtherSites, guest
    <3>5. ~RunInt15 BY <2>2 DEF RunInt15, OtherSites
    <3>6. ~RunOut64 BY <2>2 DEF RunOut64, OtherSites
    <3>7. ~RunIdle BY <2>2 DEF RunIdle, OtherSites, guest
    <3>8. ~RunOn BY <1>4, <2>1 DEF RunOn
    <3>9. ~RunScan
      <4>1. RunScan => kind = "6D3A" /\ kind' = kind BY DEF RunScan, ScanStays, guest
      <4> QED BY <1>4, <4>1 DEF Counted
    <3> QED BY <2>4, <3>1, <3>2, <3>3, <3>4, <3>5, <3>6, <3>7, <3>8, <3>9 DEF Guest
  <2>5. CASE HostKick \/ HostCut \/ HostWake
    BY <1>4, <2>5 DEF HostKick, HostCut, HostWake, Kick, Cut, Wake, guest
  <2>6. CASE UNCHANGED loopVars BY <1>4, <2>6 DEF loopVars, guest, vars
  <2> QED BY <2>3, <2>4, <2>5, <2>6 DEF LoopNext
<1> QED BY <1>1, <1>2, <1>3, <1>4

\* Whatever the guest did of a counted loop and whatever the completer did, the code
\* behind the loop finds what the plain loop leaves, for any data, counts and word sizes,
\* a count of 0 that stands for 2^16 included (complete_checksum, complete_copy,
\* complete_delay, complete_mempat): provided the completer was entered before anything
\* it does again and with a count it does in full, no LOOPE left early, and no jump of the
\* loop has been led out of it.
THEOREM LoopEffectHolds == LoopSpec => []LoopEffect
<1>1. EffectInv => LoopEffect
  <2> SUFFICES ASSUME EffectInv, kind \in Counted, at = ExitOf[kind], ~LeftEarly,
                      visit.fired \in CleanEntries, WithinCount, LinksFaithful
               PROVE  Result(kind, r) = Result(kind, visit.want)
    BY DEF LoopEffect
  <2>1. ~UnderWay BY SitesApart DEF UnderWay
  <2> QED BY <2>1 DEF EffectInv, Finished
<1> QED BY <1>1, DataStart, DataKeeps, EffectStart, EffectKeeps, Invariance, PTL DEF LoopSpec

------------------------------------------------------------------------------------
(* Liveness.  Whether an action is enabled is the one thing the prover cannot tell: *)
(* what the theorem assumes about it has a name.                                    *)

\* The guards of the actions, as their ENABLED: the hook answers or declines wherever the
\* loop calls it, the guest gets out of every block it is in the middle of, an exit request
\* ends what spins at a block's start, and an interrupt a HLT that allows it.
MayHook == ENABLED <<Hook>>_loopVars
MayGo   == ENABLED <<Guest>>_loopVars
MayKick == ENABLED <<HostKick>>_loopVars
MayWake == ENABLED <<HostWake>>_loopVars
NeverStuck ==
    /\ mode = "loop" => MayHook
    /\ mode = "code" => IF at = block THEN MayKick ELSE MayGo
    /\ mode = "halted" /\ idle = "hlt" => MayWake

\* A halted guest has executed a HLT behind its OUT 64,FE.
HaltInv == mode = "halted" => idle # "spin"

\* How many instructions of its block the guest may still execute before it leaves it.
Early  == {"3CC1"}
Middle == {"3CC2", "61DB", "61E9"}
Late   == {"3CC4", "3C34", "4139", "61DD", "61EB", "out64", "in6943", "inC960", "EA86", "6958"}

\* Out of the block it was in.
Left == \/ mode = "loop"
        \/ mode = "code" /\ at = block
        \/ mode = "halted" /\ idle # "spin"

\* An instruction nearer to its end.
Nearer == \/ at \in Early /\ at' \in Middle
          \/ at \in Middle /\ at' \in Late
          \/ at \in Late /\ at' \notin Early \cup Middle \cup Late

\* A transfer of control leaves the block.
LEMMA Transfers ==
    ASSUME NEW t, JumpTo(t) \/ FarTo(t)
    PROVE  mode = "code" /\ Left'
BY DEF JumpTo, FarTo, Left

\* So do the loops' bodies, an instruction at a time.
LEMMA BodyMoves == ASSUME RunBody PROVE Left' \/ Nearer
<1>1. PICK i \in DOMAIN Body[kind] :
        /\ kind \in Counted /\ at = Body[kind][i]
        /\ IF i < Len(Body[kind])
           THEN Inside(Body[kind][i + 1])
           ELSE JumpTo(Body[kind][1]) \/ JumpTo(ExitOf[kind])
  BY DEF RunBody, CountDown
<1>2. CASE ~(i < Len(Body[kind])) BY <1>1, <1>2, Transfers
<1>3. CASE i < Len(Body[kind])
  <2>1. at' = Body[kind][i + 1] BY <1>1, <1>3 DEF Inside
  <2>2. CASE kind = "checksum"
    BY <1>1, <1>3, <2>1, <2>2 DEF Body, Nearer, Early, Middle, Late
  <2>3. CASE kind = "copy"
    BY <1>1, <1>3, <2>1, <2>3 DEF Body, Nearer, Early, Middle, Late
  <2>4. CASE kind = "delay"
    BY <1>1, <1>3, <2>1, <2>4 DEF Body, Nearer, Early, Middle, Late
  <2>5. CASE kind = "shl"
    BY <1>1, <1>3, <2>1, <2>5 DEF Body, Nearer, Early, Middle, Late
  <2>6. CASE kind = "rcl"
    BY <1>1, <1>3, <2>1, <2>6 DEF Body, Nearer, Early, Middle, Late
  <2> QED BY <1>1, <2>2, <2>3, <2>4, <2>5, <2>6 DEF Counted
<1> QED BY <1>2, <1>3

\* So does the guest wherever it is; it takes no reset back.
LEMMA GuestMoves ==
    ASSUME Guest
    PROVE  mode = "code" /\ (pending => pending') /\ (Left' \/ Nearer)
<1>1. ASSUME NEW k \in run.visits, StartVisit(k)
      PROVE  mode = "code" /\ (pending => pending') /\ Left'
  BY <1>1, Transfers DEF StartVisit, Reach
<1>2. CASE RunBody
  <2>1. mode = "code"
    BY <1>2 DEF RunBody, CountDown, Inside, JumpTo
  <2> QED BY <1>2, <2>1, BodyMoves DEF RunBody
<1>3. CASE RunHead
  <2>1. kind \in Waits /\ kind # "53C1" /\ at = WaitHead[kind] /\ pending' = pending
    BY <1>3 DEF RunHead
  <2>2. at \in Late BY <2>1, HeadsAre DEF Waits, Late
  <2>3. kind \notin Early \cup Middle \cup Late BY <2>1 DEF Waits, Early, Middle, Late
  <2>4. Inside(kind) \/ JumpTo(kind) \/ JumpTo("ready") BY <1>3 DEF RunHead, PastIo
  <2>5. CASE Inside(kind) BY <2>1, <2>2, <2>3, <2>5 DEF Inside, Nearer
  <2>6. CASE JumpTo(kind) \/ JumpTo("ready") BY <2>1, <2>6, Transfers
  <2> QED BY <2>4, <2>5, <2>6
<1>4. CASE RunSite
  <2>1. (\E t : JumpTo(t)) /\ pending' = pending BY <1>4 DEF RunSite, CountDown
  <2> QED BY <2>1, Transfers
<1>5. CASE RunScan BY <1>5, Transfers DEF RunScan
<1>6. CASE RunReturn BY <1>6, Transfers DEF RunReturn
<1>7. CASE RunInt15 BY <1>7, Transfers DEF RunInt15
<1>8. CASE RunOut64
  <2>1. pending' /\ at = "out64" BY <1>8 DEF RunOut64, Out64, PastIo
  <2>2. CASE JumpTo("after") BY <2>1, <2>2, Transfers
  <2>3. CASE Inside("after")
    BY <2>1, <2>3 DEF Inside, Nearer, Early, Middle, Late
  <2> QED BY <1>8, <2>2, <2>3 DEF RunOut64, PastIo
<1>9. CASE RunIdle
  <2>1. CASE idle = "spin" BY <1>9, <2>1, Transfers DEF RunIdle
  <2>2. CASE idle # "spin" BY <1>9, <2>2 DEF RunIdle, Halt, guest, Left
  <2> QED BY <2>1, <2>2
<1>10. CASE RunOn BY <1>10, Transfers DEF RunOn
<1> QED
  BY <1>1, <1>2, <1>3, <1>4, <1>5, <1>6, <1>7, <1>8, <1>9, <1>10 DEF Guest, RunWait

\* With a reset pending the hook answers for the error log once, or resets.
LEMMA HookMoves ==
    ASSUME Hook
    PROVE  /\ mode = "loop"
           /\ pending => IF AsksForLog THEN pending' /\ mode' = "loop" /\ ~AsksForLog'
                                       ELSE ~pending'
<1>1. CASE HookReset BY <1>1 DEF HookReset, TakeReset, Continue
<1>2. CASE HookErrorLog
  <2>1. ExitOf["errorlog"] = "5F239" BY DEF ExitOf, Ended, Kinds
  <2> QED BY <1>2, <2>1 DEF HookErrorLog, Answer, Continue, AsksForLog
<1>3. CASE ~HookReset /\ ~HookErrorLog
  BY <1>3 DEF Hook, HookCounted, HookWait, HookCounts, HookFires, HookOneShot, Hook61BE,
              HookDeclines, Complete, Answer, Continue, Enter, EnterBlock
<1> QED BY <1>1, <1>2, <1>3

\* No step halts a guest that spins.
LEMMA HaltKeeps == HaltInv /\ [LoopNext]_loopVars => HaltInv'
<1> SUFFICES ASSUME HaltInv, [LoopNext]_loopVars, mode' = "halted" PROVE idle' # "spin"
  BY DEF HaltInv
<1>1. CASE Hook
  <2>1. mode' \in {"loop", "code"}
    BY <1>1 DEF Hook, HookReset, TakeReset, HookErrorLog, HookCounted, HookWait, HookCounts,
                HookFires, HookOneShot, Hook61BE, HookDeclines, Complete, Answer, Continue,
                Enter, EnterBlock
  <2> QED BY <2>1
<1>2. CASE Guest
  <2>1. CASE RunIdle BY <2>1 DEF RunIdle, JumpTo, guest
  <2>2. CASE ~RunIdle
    <3>1. mode = "code" /\ \E t : Inside(t) \/ JumpTo(t) \/ FarTo(t)
      BY <1>2, <2>2, GuestMoves
      DEF Guest, StartVisit, Reach, RunBody, RunWait, RunHead, RunSite, RunScan, RunReturn,
          RunInt15, RunOut64, RunOn, CountDown, PastIo
    <3> QED BY <3>1 DEF Inside, JumpTo, FarTo
  <2> QED BY <2>1, <2>2
<1>3. CASE HostKick \/ HostCut \/ HostWake
  BY <1>3 DEF HostKick, HostCut, HostWake, Kick, Cut, Wake
<1>4. CASE UNCHANGED loopVars BY <1>4 DEF loopVars, vars, guest, HaltInv
<1> QED BY <1>1, <1>2, <1>3, <1>4 DEF LoopNext

\* The host brings the guest to the loop where it is.
LEMMA HostMoves ==
    ASSUME HostKick \/ HostCut \/ HostWake
    PROVE  /\ mode' = "loop" /\ pending' = pending
           /\ AsksForLog' <=> AsksForLog
           /\ HostWake => mode = "halted"
           /\ mode = "code" => at = block \/ at \in run.cuts
BY DEF HostKick, HostCut, HostWake, Kick, Cut, Wake, guest, AsksForLog

\* Where a guest may be while its reset is pending.
Dead    == mode = "halted" /\ idle = "cli"
Asking  == pending /\ mode = "loop" /\ AsksForLog
Taking  == pending /\ mode = "loop" /\ ~AsksForLog
AtStart == pending /\ mode = "code" /\ at = block
Asleep  == pending /\ mode = "halted" /\ idle = "hlt"

\* In the middle of a block, a number of instructions before the next block.
Mid     == pending /\ mode = "code" /\ at # block
Mid3    == Mid /\ at \in Early
Mid2    == Mid /\ at \in Middle
Mid1    == Mid /\ at \in Late
Mid0    == Mid /\ at \notin Early \cup Middle \cup Late

Arrived == Asking \/ Taking \/ AtStart \/ Asleep \/ Dead

\* Out of a block it is at one of the places above.
LEMMA LeftArrives == ASSUME LoopTypeOK', Left', pending' PROVE Arrived'
BY DEF LoopTypeOK, Left, Arrived, Asking, Taking, AtStart, Asleep, Dead

\* In the middle of a block a guest's step brings it nearer to one of them.
LEMMA MidMoves ==
    ASSUME LoopTypeOK', HaltInv', Mid, Guest PROVE Arrived' \/ (Mid' /\ Nearer)
<1>1. pending' /\ (Left' \/ Nearer) /\ mode = "code" BY GuestMoves DEF Mid
<1>2. CASE Left' BY <1>1, <1>2, LeftArrives
<1>3. CASE ~Left' /\ Nearer
  <2>1. mode' \in {"loop", "code", "halted"} BY DEF LoopTypeOK, TypeOK
  <2> QED BY <1>1, <1>3, <2>1 DEF HaltInv, Left, Mid
<1> QED BY <1>1, <1>2, <1>3

\* Other steps leave it there, or take it to the loop.
LEMMA MidStays ==
    ASSUME LoopTypeOK', HaltInv', Mid, [LoopNext]_loopVars, ~Guest
    PROVE  Arrived' \/ (Mid' /\ UNCHANGED at)
<1>1. ~Hook BY HookMoves DEF Mid
<1>2. CASE UNCHANGED loopVars BY <1>2 DEF loopVars, vars, cache, Mid
<1>3. CASE HostKick \/ HostCut \/ HostWake
  BY <1>3, HostMoves, LeftArrives DEF Mid, Left
<1> QED BY <1>1, <1>2, <1>3 DEF LoopNext

\* With a reset pending: in the loop, at a block's start, asleep.
LEMMA ArrivedMoves ==
    ASSUME LoopTypeOK', HaltInv', [LoopNext]_loopVars, pending
    PROVE  /\ Asking => Asking' \/ Taking'
           /\ Asking /\ Hook => Taking'
           /\ Taking => Taking' \/ ~pending'
           /\ Taking /\ Hook => ~pending'
           /\ AtStart => Arrived' \/ Mid'
           /\ HostKick => Asking' \/ Taking'
           /\ Asleep => Asleep' \/ Asking' \/ Taking'
           /\ HostWake => Asking' \/ Taking'
<1> USE DEF Asking, Taking, AtStart, Asleep
<1>1. CASE Hook BY <1>1, HookMoves, HostMoves
<1>2. CASE Guest /\ ~Hook
  <2>1. mode = "code" /\ pending' BY <1>2, GuestMoves
  <2>2. mode' \in {"loop", "code", "halted"} BY DEF LoopTypeOK, TypeOK
  <2>3. Arrived' \/ Mid'
    <3>1. CASE Left' BY <2>1, <3>1, LeftArrives
    <3>2. CASE ~Left' BY <2>1, <2>2, <3>2 DEF Left, Mid, HaltInv
    <3> QED BY <3>1, <3>2
  <2> QED BY <1>2, <2>1, <2>3, HostMoves
<1>3. CASE (HostKick \/ HostCut \/ HostWake) /\ ~Hook
  BY <1>3, HostMoves DEF Arrived
<1>4. CASE UNCHANGED loopVars /\ ~Hook /\ ~(HostKick \/ HostCut \/ HostWake)
  BY <1>4 DEF loopVars, vars, cache, guest, AsksForLog, Arrived
<1> QED BY <1>1, <1>2, <1>3, <1>4 DEF LoopNext

\* What the argument needs of the invariants.
WaitInv == LoopTypeOK /\ HaltInv

\* It holds always.
LEMMA WaitInvariance == LoopSpec => []WaitInv
<1>1. LoopInit => HaltInv BY DEF LoopInit, Init, HaltInv
<1> QED BY <1>1, HaltKeeps, LoopTypeCorrect, PTL DEF LoopSpec, WaitInv

\* Where hook, guest and host are never stuck, a pending reset is taken, unless the guest has
\* halted with interrupts off: the guest leaves every block within four instructions, and
\* spins over linked blocks no longer than until the next exit request; in the loop the hook
\* resets at once, or after one answer for the error log (patches/02, pc110post.c:434).
THEOREM ResetTakenHolds == FairLoopSpec /\ []NeverStuck => ResetTaken
<1> DEFINE Step == WaitInv /\ WaitInv' /\ [LoopNext]_loopVars
           Fair == FairLoopSpec /\ []NeverStuck
<1>1. /\ NeverStuck /\ (Asking \/ Taking) => MayHook
      /\ NeverStuck /\ Mid => MayGo
      /\ NeverStuck /\ AtStart => MayKick
      /\ NeverStuck /\ Asleep => MayWake
  BY DEF NeverStuck, Asking, Taking, Mid, AtStart, Asleep
<1>2. /\ Step /\ Asking => Asking' \/ Taking'
      /\ Step /\ Asking /\ Hook => Taking'
      /\ Step /\ Taking => Taking' \/ ~pending'
      /\ Step /\ Taking /\ Hook => ~pending'
      /\ Step /\ AtStart => Arrived' \/ Mid'
      /\ Step /\ (Arrived \/ Mid) /\ HostKick => Asking' \/ Taking' \/ ~pending
      /\ Step /\ Asleep => Asleep' \/ Asking' \/ Taking'
      /\ Step /\ Asleep /\ HostWake => Asking' \/ Taking'
  BY ArrivedMoves DEF WaitInv, Asking, Taking, AtStart, Asleep
<1>3. /\ Step /\ Mid3 => Arrived' \/ Mid3' \/ Mid2'
      /\ Step /\ Mid3 /\ Guest => Arrived' \/ Mid2'
      /\ Step /\ Mid2 => Arrived' \/ Mid2' \/ Mid1'
      /\ Step /\ Mid2 /\ Guest => Arrived' \/ Mid1'
      /\ Step /\ Mid1 => Arrived' \/ Mid1' \/ Mid0'
      /\ Step /\ Mid1 /\ Guest => Arrived' \/ Mid0'
      /\ Step /\ Mid0 => Arrived' \/ Mid0'
      /\ Step /\ Mid0 /\ Guest => Arrived'
  BY MidMoves, MidStays
  DEF WaitInv, Mid3, Mid2, Mid1, Mid0, Nearer, Early, Middle, Late
<1>4. /\ Mid <=> Mid3 \/ Mid2 \/ Mid1 \/ Mid0
      /\ Arrived <=> Asking \/ Taking \/ AtStart \/ Asleep \/ Dead
  BY DEF Mid3, Mid2, Mid1, Mid0, Arrived
<1>5. WaitInv /\ pending => Arrived \/ Mid
  BY DEF WaitInv, HaltInv, LoopTypeOK, TypeOK, Arrived, Asking, Taking, AtStart, Asleep, Dead, Mid
<1>6. FairLoopSpec => /\ [][LoopNext]_loopVars /\ []WaitInv
                      /\ WF_loopVars(Hook) /\ WF_loopVars(HostWake)
                      /\ SF_loopVars(Guest) /\ SF_loopVars(HostKick)
  BY WaitInvariance, PTL DEF FairLoopSpec, LoopSpec
<1>7. Fair => (Taking ~> ~pending)
  BY <1>1, <1>2, <1>6, PTL DEF MayHook
<1>8. Fair => (Asking ~> Taking)
  BY <1>1, <1>2, <1>6, PTL DEF MayHook
<1>9. Fair => (Asleep ~> (Asking \/ Taking))
  BY <1>1, <1>2, <1>6, PTL DEF MayWake
<1>10. Fair => (Mid ~> Arrived)
  <2>1. Fair => (Mid0 ~> Arrived) BY <1>1, <1>3, <1>4, <1>6, PTL DEF MayGo
  <2>2. Fair => (Mid1 ~> (Arrived \/ Mid0)) BY <1>1, <1>3, <1>4, <1>6, PTL DEF MayGo
  <2>3. Fair => (Mid2 ~> (Arrived \/ Mid1)) BY <1>1, <1>3, <1>4, <1>6, PTL DEF MayGo
  <2>4. Fair => (Mid3 ~> (Arrived \/ Mid2)) BY <1>1, <1>3, <1>4, <1>6, PTL DEF MayGo
  <2> QED BY <2>1, <2>2, <2>3, <2>4, <1>4, PTL
<1>11. Fair => (AtStart ~> (Asking \/ Taking \/ Asleep \/ Dead \/ ~pending))
  BY <1>1, <1>2, <1>3, <1>4, <1>5, <1>6, <1>10, PTL DEF MayKick
<1>12. ResetTaken <=> (pending ~> (~pending \/ Dead))
  BY PTL DEF ResetTaken, Dead
<1> QED BY <1>4, <1>5, <1>6, <1>7, <1>8, <1>9, <1>10, <1>11, <1>12, PTL
------------------------------------------------------------------------------------
(* What an ended wait leaves.                                                      *)

\* Where a wait is left.
Ready == {"6949", "C966", "EA92", "timedout"}

\* Where the guest may be once the hook has completed its visit.
PastHook == {ExitOf[kind]} \cup IF kind = "6961" THEN {"ready", ResetVector} ELSE {}

\* What the loop behind 6961 has been led to is no way back.
Onwards(t, jump) == t = "ready" => jump \in {"ready", ResetVector}

JumpsInv == /\ last # NoExit => mode = "loop" /\ Onwards(last[2], at)
            /\ \A l \in links : Onwards(l.to, l.jump)

\* What a wait is left with, at its exits.
LooksOver == /\ at = "6949" => r.acc = 1 /\ ~Zero(r.fl)
             /\ at \in {"C966", "EA92"} => r.cx = 0

FiredInv == visit.fired # "none" =>
                /\ kind \in Counted \cup Waits /\ at \in PastHook
                /\ kind = "6961" => r.mem[0] = 1
                /\ LooksOver

OverInv == JumpsInv /\ FiredInv /\ (LinksFaithful => LooksOver)

\* The reset vector is none of the addresses above.
LEMMA ResetApart ==
    ResetVector \notin Ready \cup Waits \cup OneShots
                      \cup {"6958", "ready", "61BE", "5F232", "out64", "after", "rom"}
<1>1. /\ "61BE" \in Kinds /\ "6961" \in Kinds /\ "reset" \in Kinds /\ "errorlog" \in Kinds
      /\ "61BE" \in OneShots \cup {"61BE"} /\ "6961" \in Waits
  BY DEF Kinds, Waits
<1>2. ResetVector \notin {"61BE", "6958", "out64", "5F232"}
  BY <1>1, EntriesAre, HeadsAre, SitesAre
<1>3. ASSUME NEW k \in OneShots PROVE k # ResetVector
  BY EntriesAre, SitesAre DEF Kinds
<1>4. Ready \subseteq Exits /\ "ready" \in Exits
  <2>1. {"6943", "C960", "EA90"} \subseteq Ended \ {"6961"} BY DEF Ended, Kinds, Waits
  <2>2. ExitOf["6943"] = "6949" /\ ExitOf["C960"] = "C966" /\ ExitOf["EA90"] = "EA92"
    BY <2>1 DEF ExitOf
  <2>3. {"6949", "C966", "EA92"} \subseteq Exits BY <2>1, <2>2 DEF Exits
  <2> QED BY <2>3 DEF Ready, Exits
<1> QED BY <1>2, <1>3, <1>4, SitesAre

\* No visit starts where a wait is left.
LEMMA EntriesNotReady == \A k \in Kinds : Entry(k) \notin Ready
<1> SUFFICES ASSUME NEW k \in Kinds PROVE Entry(k) \notin Ready OBVIOUS
<1>1. CASE k \in Counted
  <2>1. Body[k][1] \notin Ready BY <1>1, BodyIs DEF Counted, Ready
  <2> QED BY <1>1, <2>1, EntriesAre
<1>2. CASE k \in Waits
  <2>1. WaitHead[k] \notin Ready BY <1>2, HeadsAre DEF Waits, Ready
  <2> QED BY <1>2, <2>1, EntriesAre
<1>3. CASE k \in {"reset", "errorlog"} BY <1>3, EntriesAre DEF Ready
<1>4. CASE k \in OneShots \cup {"61BE"}
  <2>1. k \notin Ready BY <1>4 DEF OneShots, Ready
  <2> QED BY <1>4, <2>1, EntriesAre
<1> QED BY <1>1, <1>2, <1>3, <1>4 DEF Kinds

\* Nor is any instruction of a counted loop there.
LEMMA BodiesNotReady == \A k \in Counted : \A i \in DOMAIN Body[k] : Body[k][i] \notin Ready
<1> SUFFICES ASSUME NEW k \in Counted, NEW i \in DOMAIN Body[k] PROVE Body[k][i] \notin Ready
  OBVIOUS
<1>1. CASE k = "checksum" BY <1>1, BodyIs DEF Ready
<1>2. CASE k = "copy" BY <1>2, BodyIs DEF Ready
<1>3. CASE k = "delay" BY <1>3, BodyIs DEF Ready
<1>4. CASE k = "shl" BY <1>4, BodyIs DEF Ready
<1>5. CASE k = "rcl" BY <1>5, BodyIs DEF Ready
<1> QED BY <1>1, <1>2, <1>3, <1>4, <1>5 DEF Counted

\* The exits of the waits.
LEMMA WaitExits ==
    /\ ExitOf["6943"] = "6949" /\ ExitOf["C960"] = "C966" /\ ExitOf["EA90"] = "EA92"
    /\ ExitOf["6961"] = "6958" /\ ExitOf["53C1"] = "53CE"
BY DEF ExitOf, Ended, Kinds, Waits

\* Where the guest is once the hook has completed its visit nothing else is done to it.
LEMMA PastApart ==
    ASSUME kind \in Counted \cup Waits, at \in PastHook
    PROVE  /\ at \notin Waits \cup {"61BE", "5F232", "out64", "after", "rom", "timedout"}
           /\ kind \in Counted => at \notin Offsets(kind) /\ at \notin Ready
                                 /\ \A i \in DOMAIN Body[kind] : at # Body[kind][i]
           /\ kind \in Waits /\ at = WaitHead[kind] => kind = "6961" \/ kind = "53C1"
           /\ at \in Ready => /\ at = "6949" => kind = "6943"
                              /\ at \in {"C966", "EA92"} => kind \in {"C960", "EA90"}
<1>1. CASE kind \in Counted
  <2>1. at = ExitOf[kind] /\ kind \notin Waits BY <1>1 DEF PastHook, Counted, Waits
  <2>2. at \in {"3CC8", "3C4E", "413F", "61E1", "61EF"} BY <1>1, <2>1, CountedExits DEF Counted
  <2>3. at \notin Offsets(kind) /\ \A i \in DOMAIN Body[kind] : at # Body[kind][i]
    BY <1>1, <2>1, SitesApart
  <2> QED BY <1>1, <2>1, <2>2, <2>3 DEF Waits, Ready
<1>2. CASE kind \in Waits
  <2>1. kind \notin Counted BY <1>2 DEF Counted, Waits
  <2>2. CASE kind # "6961"
    <3>1. at = ExitOf[kind] BY <2>2 DEF PastHook
    <3> QED BY <1>2, <2>1, <2>2, <3>1, WaitExits, HeadsAre DEF Waits, Ready
  <2>3. CASE kind = "6961"
    <3>1. at \in {"6958", "ready", ResetVector} BY <2>3, WaitExits DEF PastHook
    <3>2. CASE at = ResetVector BY <2>1, <2>3, <3>2, ResetApart DEF Ready
    <3>3. CASE at \in {"6958", "ready"} BY <2>1, <2>3, <3>3 DEF Waits, Ready
    <3> QED BY <3>1, <3>2, <3>3
  <2> QED BY <2>2, <2>3
<1> QED BY <1>1, <1>2

\* The hook redirects no jump behind 6961, but for a reset.
LEMMA HookJumps == ASSUME JumpsInv, Hook PROVE JumpsInv'
<1>1. CASE TakeReset BY <1>1 DEF TakeReset, Continue, cache, JumpsInv, Onwards
<1>2. CASE EnterBlock BY <1>2 DEF EnterBlock, LinkLast, JumpsInv, Onwards
<1>3. ASSUME NEW t, Answer(t), at \notin {"ready", ResetVector} PROVE JumpsInv'
  BY <1>3 DEF Answer, Continue, cache, JumpsInv, Onwards
<1>4. ASSUME NEW k, NEW q, HookCounts(k) \/ HookFires(k, q), at \notin {"ready", ResetVector}
      PROVE  JumpsInv'
  BY <1>2, <1>3, <1>4 DEF HookCounts, HookFires, Complete
<1>5. CASE HookCounted
  <2>1. kind \in Counted /\ at \in Offsets(kind) BY <1>5 DEF HookCounted
  <2>2. PICK i \in DOMAIN Body[kind] : at = Body[kind][i]
    <3>1. Body["copy"][1] = "3C34" /\ 1 \in DOMAIN Body["copy"] BY BodyIs
    <3> QED BY <2>1, <3>1 DEF Offsets
  <2>3. at # "ready"
    <3>1. CASE kind = "checksum" BY <2>2, <3>1, BodyIs
    <3>2. CASE kind = "copy" BY <2>2, <3>2, BodyIs
    <3>3. CASE kind = "delay" BY <2>2, <3>3, BodyIs
    <3>4. CASE kind = "shl" BY <2>2, <3>4, BodyIs
    <3>5. CASE kind = "rcl" BY <2>2, <3>5, BodyIs
    <3> QED BY <2>1, <3>1, <3>2, <3>3, <3>4, <3>5 DEF Counted
  <2>4. at # ResetVector BY <2>1, <2>2, SitesAre
  <2> QED BY <1>4, <1>5, <2>3, <2>4 DEF HookCounted
<1>6. CASE HookWait
  <2>1. at \in Waits BY <1>6 DEF HookWait
  <2>2. at \notin {"ready", ResetVector} BY <2>1, ResetApart DEF Waits
  <2> QED BY <1>4, <1>6, <2>2 DEF HookWait
<1>7. CASE HookOneShot
  <2>1. at \in OneShots BY <1>7 DEF HookOneShot
  <2>2. at \notin {"ready", ResetVector} BY <2>1, ResetApart DEF OneShots
  <2> QED BY <1>3, <1>7, <2>2 DEF HookOneShot, Complete
<1>8. CASE HookErrorLog
  <2>1. at = "5F232" BY <1>8 DEF HookErrorLog, AsksForLog
  <2> QED BY <1>3, <1>8, <2>1, ResetApart DEF HookErrorLog
<1>9. CASE HookReset BY <1>1, <1>9 DEF HookReset
<1>10. CASE Hook61BE \/ HookDeclines BY <1>2, <1>10 DEF Hook61BE, HookDeclines, Enter
<1> QED BY <1>5, <1>6, <1>7, <1>8, <1>9, <1>10 DEF Hook

\* So a jump behind 6961 is led where it was to go, or to the reset vector.
LEMMA JumpsKeeps == JumpsInv /\ RunInv /\ [LoopNext]_loopVars => JumpsInv'
<1> SUFFICES ASSUME JumpsInv, RunInv, [LoopNext]_loopVars PROVE JumpsInv' OBVIOUS
<1>1. CASE Guest
  <2>1. mode = "code" BY <1>1, GuestMoves
  <2>2. last = NoExit /\ \A l \in links : Onwards(l.to, l.jump) BY <2>1 DEF JumpsInv
  <2>3. ASSUME NEW t, Inside(t) \/ JumpTo(t) \/ FarTo(t) PROVE JumpsInv'
    BY <2>2, <2>3 DEF Inside, JumpTo, FarTo, cache, NoExit, JumpsInv, Onwards
  <2>4. CASE Halt BY <2>2, <2>4 DEF Halt, cache, JumpsInv
  <2>5. (\E t : Inside(t) \/ JumpTo(t) \/ FarTo(t)) \/ Halt
    BY <1>1 DEF Guest, StartVisit, Reach, RunBody, RunWait, RunHead, RunSite, RunScan,
                RunReturn, RunInt15, RunOut64, RunIdle, RunOn, CountDown, PastIo
  <2> QED BY <2>3, <2>4, <2>5
<1>2. CASE HostKick \/ HostCut \/ HostWake
  BY <1>2 DEF HostKick, HostCut, HostWake, Kick, Cut, Wake, cache, JumpsInv
<1>3. CASE UNCHANGED loopVars BY <1>3 DEF loopVars, vars, cache, JumpsInv
<1> QED BY <1>1, <1>2, <1>3, HookJumps DEF LoopNext

\* An ended wait looks over where it is left.
LEMMA EndedLooksOver ==
    ASSUME DataOK, kind \in Waits, HookFires(kind, WaitOver(kind, r))
    PROVE  LooksOver' /\ (kind = "6961" => r'.mem[0] = 1)
<1>1. r' = WaitOver(kind, r) /\ at' = ExitOf[kind]
  BY DEF HookFires, Complete, Answer, Continue
<1>2. r \in Regs BY DEF DataOK
<1>3. CASE kind = "6943"
  <2> DEFINE f == SetZf(r.fl, FALSE)
  <2>1. ~Zero(f) BY DEF Zero, SetZf, StoreEflags, ComputeEflags, With
  <2>2. r' = [r EXCEPT !.acc = 1, !.fl = f] BY <1>1, <1>3, WaitOverIs
  <2> HIDE DEF f
  <2>3. r'.acc = 1 /\ r'.fl = f BY <1>2, <2>2, RegsIs
  <2> QED BY <1>1, <1>3, <2>1, <2>3, WaitExits DEF LooksOver
<1>4. CASE kind \in {"C960", "EA90"}
  <2>1. r' = [r EXCEPT !.cx = 0] BY <1>1, <1>4, WaitOverIs
  <2>2. r'.cx = 0 BY <1>2, <2>1, RegsIs
  <2> QED BY <1>1, <1>4, <2>2, WaitExits DEF LooksOver
<1>5. CASE kind = "6961"
  <2>1. r' = [r EXCEPT !.mem[0] = 1] BY <1>1, <1>5, WaitOverIs
  <2>2. r'.mem[0] = 1 BY <1>2, <2>1, RegsFields, WordsStay, RegsIs
  <2> QED BY <1>1, <1>5, <2>2, WaitExits DEF LooksOver
<1>6. CASE kind = "53C1" BY <1>1, <1>6, WaitExits DEF LooksOver
<1> QED BY <1>3, <1>4, <1>5, <1>6 DEF Waits

\* Away from the waits' exits there is nothing to show.
LEMMA NotReady == ASSUME at' \notin Ready PROVE LooksOver'
BY DEF Ready, LooksOver

\* Once the hook has completed a visit, it stays completed until it is over.
LEMMA FiredKeeps == ASSUME JumpsInv, DataOK, FiredInv, [LoopNext]_loopVars PROVE FiredInv'
<1>1. CASE UNCHANGED <<at, kind, r, visit>> BY <1>1 DEF FiredInv, PastHook, LooksOver
<1>2. CASE visit'.fired = "none" BY <1>2 DEF FiredInv
<1>3. ASSUME ~UNCHANGED <<at, kind, r, visit>>, visit'.fired # "none" PROVE FiredInv'
  <2>0. "none" = NoVisit.fired BY DEF NoVisit
  <2>1. visit.fired # "none" =>
            /\ kind \in Counted \cup Waits /\ at \in PastHook
            /\ kind = "6961" => r.mem[0] = 1
    BY DEF FiredInv
  <2>2. CASE Hook
    <3>1. ~HookReset /\ ~HookDeclines
      BY <1>3, <2>0 DEF HookReset, HookDeclines, Enter, EnterBlock, guest
    <3>2. CASE HookCounted
      <4>1. kind \in Counted BY <3>2 DEF HookCounted
      <4>2. ~HookCounts(kind) BY <1>3 DEF HookCounts, EnterBlock, guest
      <4>3. HookFires(kind, Completed(kind, at, r)) BY <3>2, <4>2 DEF HookCounted
      <4>4. at' = ExitOf[kind] /\ kind' = kind
        BY <4>3 DEF HookFires, Complete, Answer, Continue
      <4>5. at' \notin Ready BY <4>1, <4>4, CountedExits DEF Counted, Ready
      <4>6. kind # "6961" BY <4>1 DEF Counted
      <4> QED BY <4>1, <4>4, <4>5, <4>6, NotReady DEF FiredInv, PastHook
    <3>3. CASE HookWait
      <4>1. kind \in Waits BY <3>3 DEF HookWait
      <4>2. ~HookCounts(kind) BY <1>3 DEF HookCounts, EnterBlock, guest
      <4>3. HookFires(kind, WaitOver(kind, r)) BY <3>3, <4>2 DEF HookWait
      <4>4. at' = ExitOf[kind] /\ kind' = kind
        BY <4>3 DEF HookFires, Complete, Answer, Continue
      <4>5. LooksOver' /\ (kind = "6961" => r'.mem[0] = 1) BY <4>1, <4>3, EndedLooksOver
      <4> QED BY <4>1, <4>4, <4>5 DEF FiredInv, PastHook
    <3>4. ~HookOneShot
      <4> SUFFICES ASSUME HookOneShot PROVE FALSE OBVIOUS
      <4>1. kind \in OneShots /\ visit' = [visit EXCEPT !.acted = TRUE]
        BY DEF HookOneShot
      <4>2. visit.fired # "none" BY <1>3, <4>1 DEF DataOK, Visits
      <4> QED BY <2>1, <4>1, <4>2 DEF OneShots, Counted, Waits
    <3>5. ~Hook61BE /\ ~HookErrorLog
      <4> SUFFICES ASSUME Hook61BE \/ HookErrorLog PROVE FALSE OBVIOUS
      <4>1. at \in {"61BE", "5F232"} /\ visit' = [visit EXCEPT !.acted = TRUE]
        BY DEF Hook61BE, HookErrorLog, AsksForLog
      <4>2. visit.fired # "none" BY <1>3, <4>1 DEF DataOK, Visits
      <4> QED BY <2>1, <4>1, <4>2, PastApart
    <3> QED BY <2>2, <3>1, <3>2, <3>3, <3>4, <3>5 DEF Hook
  <2>3. CASE Guest
    <3>1. ~(\E k \in run.visits : StartVisit(k))
      <4> SUFFICES ASSUME NEW k \in run.visits, StartVisit(k) PROVE FALSE OBVIOUS
      <4>1. visit'.fired = "none" BY DEF StartVisit, NoVisit
      <4> QED BY <1>3, <4>1
    <3>2. ~RunOn BY <1>3, <2>0 DEF RunOn
    <3>3. visit' = visit /\ kind' = kind
      BY <2>3, <3>1, <3>2 DEF Guest, RunBody, RunWait, RunHead, RunSite, RunScan, RunReturn,
                              RunInt15, RunOut64, RunIdle, guest
    <3>4. /\ kind \in Counted \cup Waits /\ at \in PastHook
          /\ kind = "6961" => r.mem[0] = 1
      BY <1>3, <2>1, <3>3
    <3>5. ~RunReturn /\ ~RunInt15 /\ ~RunOut64 /\ ~RunIdle
      BY <3>4, PastApart DEF RunReturn, RunInt15, RunOut64, RunIdle
    <3>6. ~RunBody BY <3>4, PastApart DEF RunBody
    <3>7. ~RunSite BY <3>4, PastApart DEF RunSite
    <3>8. ~RunScan BY <3>4 DEF RunScan, ScanStays, Counted, Waits
    <3>9. CASE RunHead
      <4>1. kind = "6961" BY <3>4, <3>9, PastApart DEF RunHead
      <4>2. r'.mem[0] = 1
        <5>1. r' = [r EXCEPT !.mem[0] = 1] BY <3>4, <3>9, <4>1 DEF RunHead
        <5> QED BY <5>1, RegsFields, WordsStay, RegsIs DEF DataOK
      <4>3. JumpTo("ready") BY <3>4, <3>9, <4>1 DEF RunHead
      <4>4. at' \in {"ready", ResetVector} BY <4>3 DEF JumpTo, JumpsInv, Onwards
      <4>5. at' \notin Ready BY <4>4, ResetApart DEF Ready
      <4> QED BY <3>3, <3>4, <4>1, <4>2, <4>4, <4>5, NotReady DEF FiredInv, PastHook
    <3> QED BY <2>3, <3>1, <3>2, <3>5, <3>6, <3>7, <3>8, <3>9 DEF Guest, RunWait
  <2>4. ~(HostKick \/ HostCut \/ HostWake)
    BY <1>3 DEF HostKick, HostCut, HostWake, Kick, Cut, Wake, guest
  <2>5. ~UNCHANGED loopVars BY <1>3 DEF loopVars, vars, guest
  <2> QED BY <2>2, <2>3, <2>4, <2>5 DEF LoopNext
<1> QED BY <1>1, <1>2, <1>3

\* Over faithful links a wait is left only when it is over.
LEMMA LooksKeeps ==
    ASSUME LoopInv, DataOK, [LoopNext]_loopVars, LinksFaithful => LooksOver, LinksFaithful'
    PROVE  LooksOver'
<1>0. [Next]_vars /\ RunInv
  <2>1. CASE LoopNext BY <2>1, LoopShape, ShapeIsNext DEF LoopInv
  <2>2. CASE UNCHANGED loopVars BY <2>2 DEF loopVars, LoopInv
  <2> QED BY <2>1, <2>2
<1>1. LinksFaithful /\ LooksOver BY <1>0, FaithfulBefore
<1>2. r \in Regs BY DEF DataOK
<1>3. CASE UNCHANGED <<at, r>> BY <1>1, <1>3 DEF LooksOver
<1>4. CASE Hook
  <2>1. ASSUME NEW k \in Ended, k \notin Waits, at' = ExitOf[k] PROVE LooksOver'
    <3>1. ExitOf[k] \notin Ready
      BY <2>1 DEF ExitOf, Ended, Kinds, Counted, Waits, OneShots, Ready
    <3> QED BY <2>1, <3>1, NotReady
  <2>2. CASE HookReset
    <3>1. at' = ResetVector BY <2>2 DEF HookReset, TakeReset, Continue
    <3> QED BY <3>1, ResetApart, NotReady
  <2>3. CASE HookCounted
    <3>1. kind \in Counted /\ kind \in Ended /\ kind \notin Waits
      BY <2>3 DEF HookCounted, Ended, Kinds, Counted, Waits
    <3>2. CASE HookCounts(kind) BY <1>3, <3>2 DEF HookCounts, EnterBlock, guest
    <3>3. CASE HookFires(kind, Completed(kind, at, r))
      <4>1. at' = ExitOf[kind] BY <3>3 DEF HookFires, Complete, Answer, Continue
      <4> QED BY <2>1, <3>1, <4>1
    <3> QED BY <2>3, <3>2, <3>3 DEF HookCounted
  <2>4. CASE HookWait
    <3>1. CASE HookCounts(kind) BY <1>3, <3>1 DEF HookCounts, EnterBlock, guest
    <3>2. CASE HookFires(kind, WaitOver(kind, r)) BY <2>4, <3>2, EndedLooksOver DEF HookWait
    <3> QED BY <2>4, <3>1, <3>2 DEF HookWait
  <2>5. CASE HookOneShot
    <3>1. kind \in Ended /\ kind \notin Waits
      BY <2>5 DEF HookOneShot, Ended, Kinds, OneShots, Waits
    <3>2. at' = ExitOf[kind] BY <2>5 DEF HookOneShot, Complete, Answer, Continue
    <3> QED BY <2>1, <3>1, <3>2
  <2>6. CASE Hook61BE
    <3>1. at' = "61BE" BY <2>6 DEF Hook61BE, EnterBlock
    <3> QED BY <3>1, NotReady DEF Ready
  <2>7. CASE HookErrorLog
    <3>1. "errorlog" \in Ended /\ "errorlog" \notin Waits BY DEF Ended, Kinds, Waits
    <3>2. at' = ExitOf["errorlog"] BY <2>7 DEF HookErrorLog, Answer, Continue
    <3> QED BY <2>1, <3>1, <3>2
  <2>8. CASE HookDeclines BY <1>3, <2>8 DEF HookDeclines, Enter, EnterBlock, guest
  <2> QED BY <1>4, <2>2, <2>3, <2>4, <2>5, <2>6, <2>7, <2>8 DEF Hook
<1>5. CASE Guest
  <2>1. ASSUME NEW t, t \notin Ready, Inside(t) \/ JumpTo(t) \/ FarTo(t) PROVE LooksOver'
    BY <1>1, <2>1, Arrives, NotReady
  <2>2. ASSUME NEW k \in run.visits, StartVisit(k) PROVE LooksOver'
    <3>1. k \in Kinds BY <1>0, RunsAssumption DEF RunInv
    <3>2. Entry(k) \notin Ready BY <3>1, EntriesNotReady
    <3> QED BY <2>1, <2>2, <3>2 DEF StartVisit, Reach
  <2>3. CASE RunBody
    <3>1. kind \in Counted BY <2>3 DEF RunBody
    <3>2. PICK i \in DOMAIN Body[kind] :
            IF i < Len(Body[kind])
            THEN Inside(Body[kind][i + 1])
            ELSE JumpTo(Body[kind][1]) \/ JumpTo(ExitOf[kind])
      BY <2>3 DEF RunBody, CountDown
    <3>3. 1 \in DOMAIN Body[kind] /\ (i < Len(Body[kind]) => i + 1 \in DOMAIN Body[kind])
      BY <3>1, SitesApart
    <3>4. \A j \in DOMAIN Body[kind] : Body[kind][j] \notin Ready
      BY <3>1, BodiesNotReady
    <3>5. ExitOf[kind] \notin Ready BY <3>1, CountedExits DEF Counted, Ready
    <3> QED BY <2>1, <3>2, <3>3, <3>4, <3>5
  <2>4. CASE RunHead
    <3>1. kind \in Waits /\ (Inside(kind) \/ JumpTo(kind) \/ JumpTo("ready"))
      BY <2>4 DEF RunHead, PastIo
    <3>2. kind \notin Ready /\ "ready" \notin Ready BY <3>1 DEF Waits, Ready
    <3> QED BY <2>1, <3>1, <3>2
  <2>5. CASE RunSite
    <3>1. kind \in Waits /\ WaitHead[kind] \notin Ready
      <4>1. kind \in Waits BY <2>5 DEF RunSite
      <4> QED BY <4>1, HeadsAre DEF Waits, Ready
    <3>2. CASE kind = "6943"
      <4>1. /\ r' = [r EXCEPT !.fl = SetZf(@, r.acc # 1)]
            /\ JumpTo(IF r.acc = 1 THEN "6949" ELSE "in6943")
        BY <2>5, <3>2 DEF RunSite
      <4>2. CASE r.acc # 1 BY <2>1, <4>1, <4>2 DEF Ready
      <4>3. CASE r.acc = 1
        <5>1. at' = "6949" BY <1>1, <4>1, <4>3, Arrives
        <5> DEFINE f == SetZf(r.fl, r.acc # 1)
        <5>2. ~Zero(f) BY <4>3 DEF Zero, SetZf, StoreEflags, ComputeEflags, With
        <5>3. r' = [r EXCEPT !.fl = f] BY <4>1
        <5> HIDE DEF f
        <5>4. r'.acc = 1 /\ r'.fl = f BY <1>2, <4>3, <5>3, RegsIs
        <5> QED BY <5>1, <5>2, <5>4 DEF LooksOver
      <4> QED BY <4>2, <4>3
    <3>3. CASE kind \in {"C960", "EA90"} /\ CountDown(WaitHead[kind], ExitOf[kind])
      <4>1. CASE r'.cx = 0
        <5>1. at' = ExitOf[kind] BY <1>1, <3>3, <4>1, Arrives DEF CountDown
        <5> QED BY <3>3, <4>1, <5>1, WaitExits DEF LooksOver
      <4>2. CASE r'.cx # 0 BY <2>1, <3>1, <3>3, <4>2 DEF CountDown
      <4> QED BY <4>1, <4>2
    <3>4. CASE JumpTo(WaitHead[kind]) BY <2>1, <3>1, <3>4
    <3>5. CASE kind = "6961"
      <4>1. JumpTo("6958") \/ JumpTo("timedout") BY <2>5, <3>5 DEF RunSite, CountDown
      <4>2. CASE JumpTo("6958") BY <2>1, <4>2 DEF Ready
      <4>3. CASE JumpTo("timedout") BY <1>1, <4>3, Arrives DEF LooksOver
      <4> QED BY <4>1, <4>2, <4>3
    <3>6. CASE kind = "53C1"
      <4>1. JumpTo("53C1") \/ JumpTo("53CE") BY <2>5, <3>6 DEF RunSite
      <4> QED BY <2>1, <4>1 DEF Ready
    <3>7. kind \in {"C960", "EA90"} =>
              JumpTo(WaitHead[kind]) \/ CountDown(WaitHead[kind], ExitOf[kind])
      BY <2>5 DEF RunSite
    <3> QED BY <3>1, <3>2, <3>3, <3>4, <3>5, <3>6, <3>7 DEF Waits
  <2>6. CASE RunScan BY <2>1, <2>6 DEF RunScan, Ready
  <2>7. CASE RunReturn \/ RunInt15
    <3>1. ExitOf["61BE"] = "418D" /\ ExitOf["errorlog"] = "5F239"
      BY DEF ExitOf, Ended, Kinds, Waits, Counted, OneShots
    <3> QED BY <2>1, <2>7, <3>1 DEF RunReturn, RunInt15, Ready
  <2>8. CASE RunOut64 BY <2>1, <2>8 DEF RunOut64, PastIo, Ready
  <2>9. CASE RunIdle
    <3>1. CASE Halt BY <1>3, <2>9, <3>1 DEF RunIdle, Halt, guest
    <3>2. CASE JumpTo("after") BY <2>1, <3>2 DEF Ready
    <3> QED BY <2>9, <3>1, <3>2 DEF RunIdle
  <2>10. CASE RunOn BY <2>1, <2>10 DEF RunOn, Ready
  <2> QED
    BY <1>5, <2>2, <2>3, <2>4, <2>5, <2>6, <2>7, <2>8, <2>9, <2>10 DEF Guest, RunWait
<1>6. CASE HostKick \/ HostCut \/ HostWake
  BY <1>3, <1>6 DEF HostKick, HostCut, HostWake, Kick, Cut, Wake, guest
<1>7. CASE UNCHANGED loopVars BY <1>3, <1>7 DEF loopVars, vars, guest
<1> QED BY <1>4, <1>5, <1>6, <1>7 DEF LoopNext

\* What the code behind a wait finds, for any addresses, visits, counts and widths: bit 5 of
\* port 61h and ZF clear behind 6943, no count behind C960 and EA90, and never the time-out
\* of 6961 once the hook has ended it (pc110post.c:1013-1036).
THEOREM WaitLooksOverHolds == LoopSpec => []WaitLooksOver
<1>1. LoopInit => OverInv
  <2> SUFFICES ASSUME LoopInit PROVE OverInv OBVIOUS
  <2>1. last = NoExit /\ links = {} /\ at = ResetVector BY DEF LoopInit, Init
  <2>2. visit.fired = "none" BY DEF LoopInit, NoVisit
  <2>3. LooksOver BY <2>1, ResetApart DEF Ready, LooksOver
  <2> QED BY <2>1, <2>2, <2>3 DEF OverInv, JumpsInv, FiredInv
<1>2. LoopInv /\ DataOK /\ OverInv /\ [LoopNext]_loopVars => OverInv'
  BY JumpsKeeps, FiredKeeps, LooksKeeps DEF OverInv, LoopInv
<1>3. OverInv => WaitLooksOver
  <2> SUFFICES ASSUME OverInv, visit.fired # "none" \/ LinksFaithful PROVE
          LooksOver /\ (at = "timedout" => visit.fired = "none")
    BY DEF WaitLooksOver, LooksOver
  <2>1. LooksOver BY DEF OverInv, FiredInv
  <2>2. visit.fired # "none" => at # "timedout" BY PastApart DEF OverInv, FiredInv
  <2> QED BY <2>1, <2>2
<1> QED BY <1>1, <1>2, <1>3, Invariance, DataStart, DataKeeps, PTL DEF LoopSpec
====================================================================================
