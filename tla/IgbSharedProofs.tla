---------------------------- MODULE IgbSharedProofs ----------------------------
(***************************************************************************)
(* Proofs about what a NIC of the igb driver shares: its PHY and its link, *)
(* which the threads of the driver and the firmware use (IgbLink), and its *)
(* filters, which its virtual functions and the host use (IgbVf).          *)
(*                                                                         *)
(* IgbLink, for every kind of PHY, any partners and any access that fails. *)
(* LinkInv says which thread is inside an access: one that has marked what *)
(* it uses, alone, so that every mark can be given back.  It also says     *)
(* that somebody will look after the link of a device that is up, and that *)
(* the watchdog ends with its report.  PauseInv relates what is left of    *)
(* each call to what is known of the link: as long as the flow control is  *)
(* not what was negotiated some call has still to read, or to force, it.   *)
(*                                                                         *)
(* IgbVf, for any number of VFs, VLANs, addresses and entries.  VfInv says *)
(* of the tables that the filters let pass what the pools are registered   *)
(* for, and of the mailbox that an answer promises a guest no address but  *)
(* the one that the NIC has: HearsOwnMac alone does not survive an answer  *)
(* that is taken late, for nothing in it speaks of answers on their way.   *)
(***************************************************************************)
EXTENDS IgbLink, IgbVf, SequenceTheorems, TLAPS

(***************************************************************************)
(* The link                                                                *)
(***************************************************************************)
(* Who has marked what: every thread that is inside an access has marked   *)
(* what it uses, alone, and every mark of the driver has its thread.       *)
SyncInv ==
  /\ \A t \in Threads : call[t].in =>
       Accessing(t) /\ <<Wants(t), "sw">> \in sync /\ <<Wants(t), "fw">> \notin sync
  /\ \A t, u \in Threads : call[t].in /\ call[u].in /\ Wants(t) = Wants(u) => t = u
  /\ Returned

(* A run of the watchdog ends with its report, whatever fails.             *)
Reports(todo) == todo # <<>> /\ todo[Len(todo)] = "report"

(* While the device is up somebody looks after the link, or will.          *)
WatchInv ==
  /\ ~Idle("watchdog") => Reports(call["watchdog"].todo)
  /\ ~dev.down => dev.queued \/ ~Idle("watchdog")

Typed == call \in [Threads -> CallType] /\ dev \in DevType

(* The inductive invariant. *)
LinkInv == Typed /\ SyncInv /\ WatchInv

-----------------------------------------------------------------------------
LEMMA StepNames ==
  /\ Accesses \subseteq Steps /\ Always \subseteq Steps
  /\ \A step \in {"down", "reset", "reset_blocked", "note", "force"} : step \in Steps
  /\ "report" \in Always /\ "report" \notin Accesses
BY DEF Steps, Accesses, Always

LEMMA ConfigFcType == \A auto \in BOOLEAN : ConfigFc(auto) \in Seq(Steps)
BY StepNames DEF ConfigFc, Accesses

LEMMA SetupLinkType ==
  ASSUME NEW auto \in BOOLEAN
  PROVE  SetupLink(auto) \in Seq(Steps)
<1>1. SetupPhy \in Seq(Steps)
  BY StepNames, PhyAssumption DEF SetupPhy, SetupM88, SetupIgp, Setup82580, Accesses
<1>2. ForcePhy \in Seq(Steps)
  BY StepNames, PhyAssumption DEF ForcePhy, ForceM88, ForceIgp, Force82580, Accesses
<1>3. <<"advertise", "restart">> \in Seq(Steps) /\ <<"status">> \in Seq(Steps)
  BY StepNames DEF Accesses
<1> QED BY <1>1, <1>2, <1>3, ConfigFcType DEF SetupLink

LEMMA ReinitType ==
  ASSUME NEW auto \in BOOLEAN, NEW blocked \in BOOLEAN
  PROVE  Reinit(auto, blocked) \in Seq(Steps)
<1>1. /\ <<"down">> \in Seq(Steps) /\ <<"reset_blocked">> \in Seq(Steps)
      /\ <<"reset">> \in Seq(Steps) /\ <<"info", "up">> \in Seq(Steps)
  BY StepNames DEF Accesses, Always
<1> QED BY <1>1, SetupLinkType DEF Reinit

LEMMA HasLinkType ==
  ASSUME NEW getlink, NEW last \in {"report", "end"}
  PROVE  /\ HasLink(getlink) \o <<last>> \in Seq(Steps)
         /\ last = "report" => Reports(HasLink(getlink) \o <<last>>)
<1>1. /\ HasLink(getlink) \in Seq(Steps) /\ <<last>> \in Seq(Steps)
      /\ HasLink(getlink) = <<"status", "note">> \/ HasLink(getlink) = <<>>
  BY StepNames DEF HasLink, Accesses, Always
<1>2. CASE HasLink(getlink) = <<"status", "note">>
  BY <1>1, <1>2 DEF Reports
<1>3. CASE HasLink(getlink) = <<>>
  BY <1>1, <1>3 DEF Reports
<1> QED BY <1>1, <1>2, <1>3

-----------------------------------------------------------------------------
(* Going on with the steps that are left. *)
LEMMA Begun ==
  ASSUME Typed, NEW t \in Threads, NEW s \in Seq(Steps), Begin(t, s)
  PROVE  /\ call' \in [Threads -> CallType]
         /\ call'[t] = [todo |-> s, in |-> FALSE]
         /\ \A u \in Threads : u # t => call'[u] = call[u]
BY DEF Typed, CallType, Begin

(* What is left of a sequence that ends with the report ends with it too, *)
(* unless the report was all.                                              *)
StillReports(s, r) == Reports(s) => Reports(r) \/ (r = <<>> /\ Head(s) = "report")

LEMMA TailReports ==
  ASSUME NEW s \in Seq(Steps), s # <<>>
  PROVE  StillReports(s, Tail(s))
<1> SUFFICES ASSUME Reports(s) PROVE Reports(Tail(s)) \/ (Tail(s) = <<>> /\ Head(s) = "report")
  BY DEF StillReports
<1> DEFINE r == Tail(s)
<1>1. Len(s) \in Nat /\ Len(s) > 0 /\ s[Len(s)] = "report" /\ Head(s) = s[1]
  BY DEF Reports
<1>2. /\ r \in Seq(Steps) /\ Len(r) = Len(s) - 1
      /\ \A i \in 1..Len(r) : r[i] = s[i + 1]
  BY HeadTailProperties
<1> HIDE DEF r
<1>3. CASE Len(s) = 1
  <2>1. r = <<>>
    BY <1>2, <1>3
  <2> QED BY <1>1, <1>3, <2>1 DEF r
<1>4. CASE Len(s) # 1
  <2>1. r[Len(r)] = s[Len(s)]
    BY <1>1, <1>2, <1>4
  <2>2. r # <<>>
    BY <1>1, <1>2, <1>4
  <2>3. Reports(r)
    BY <1>1, <2>1, <2>2 DEF Reports
  <2> QED BY <2>3 DEF r
<1> QED BY <1>3, <1>4

LEMMA Continued ==
  ASSUME Typed, NEW t \in Threads, ~Idle(t), Done(t) \/ GiveUp(t)
  PROVE  \E s \in Seq(Steps) :
           /\ Begin(t, s)
           /\ StillReports(call[t].todo, s)
<1> DEFINE todo == call[t].todo
<1>1. todo \in Seq(Steps) /\ todo # <<>> /\ Len(todo) \in Nat /\ Len(todo) > 0
  BY DEF Typed, CallType, Idle
<1>2. CASE Done(t)
  <2> DEFINE s == Tail(todo)
  <2>1. s \in Seq(Steps) /\ Begin(t, s)
    BY <1>1, <1>2 DEF Done
  <2>2. StillReports(todo, s)
    BY <1>1, TailReports
  <2> HIDE DEF s
  <2> QED BY <2>1, <2>2
<1>3. CASE GiveUp(t)
  <2>1. PICK n \in 2..(Len(todo) + 1) :
          /\ \A k \in 2..(n - 1) : todo[k] \notin Always
          /\ n <= Len(todo) => todo[n] \in Always
          /\ Begin(t, SubSeq(todo, n, Len(todo)))
    BY <1>3 DEF GiveUp
  <2> DEFINE s == SubSeq(todo, n, Len(todo))
  <2>2. /\ s \in Seq(Steps) /\ (n > Len(todo) => s = <<>>)
        /\ n <= Len(todo) => Len(s) = Len(todo) - n + 1 /\ s[Len(s)] = todo[Len(todo)]
    <3> DEFINE last == Len(todo)
    <3>1. todo \in Seq(Steps) /\ last = Len(todo) /\ last \in Int /\ n \in Int /\ n >= 2
      BY <1>1, <2>1
    <3> HIDE DEF todo, last
    <3>2. \A i \in n..last : todo[i] \in Steps
      BY <3>1
    <3>3. /\ SubSeq(todo, n, last) \in Seq(Steps)
          /\ Len(SubSeq(todo, n, last)) = IF n <= last THEN last - n + 1 ELSE 0
          /\ \A i \in 1..(last - n + 1) : SubSeq(todo, n, last)[i] = todo[n + i - 1]
      BY <3>1, <3>2, SubSeqProperties
    <3>4. n > last => SubSeq(todo, n, last) = <<>>
      BY <3>1, SubSeqEmpty
    <3>5. n <= last => SubSeq(todo, n, last)[last - n + 1] = todo[last]
      <4>1. n <= last => last - n + 1 \in 1..(last - n + 1) /\ n + (last - n + 1) - 1 = last
        BY <3>1
      <4> QED BY <3>3, <4>1
    <3>6. s = SubSeq(todo, n, last)
      BY <3>1
    <3> HIDE DEF s
    <3> QED BY <3>1, <3>3, <3>4, <3>5, <3>6
  <2>3. StillReports(todo, s)
    <3> SUFFICES ASSUME Reports(todo) PROVE Reports(s) \/ (s = <<>> /\ Head(todo) = "report")
      BY DEF StillReports
    <3>1. todo[Len(todo)] = "report" /\ Head(todo) = todo[1]
      BY <1>1 DEF Reports
    <3> HIDE DEF s
    <3>2. CASE n <= Len(todo)
      <4>1. s # <<>> /\ s[Len(s)] = "report"
        BY <1>1, <2>1, <2>2, <3>1, <3>2
      <4> QED BY <4>1 DEF Reports
    <3>3. CASE n > Len(todo)
      <4> DEFINE last == Len(todo)
      <4>0. last \in Nat /\ last > 0 /\ n \in 2..(last + 1) /\ n > last /\ todo[last] \in Always
        BY <1>1, <2>1, <3>1, <3>3, StepNames
      <4>1. \A k \in 2..(n - 1) : todo[k] \notin Always
        BY <2>1
      <4> HIDE DEF todo, last
      <4>2. last = 1
        BY <4>0, <4>1
      <4> QED BY <2>2, <3>1, <3>3, <4>2 DEF last
    <3> QED BY <1>1, <2>1, <3>2, <3>3
  <2>4. Begin(t, s)
    BY <2>1
  <2> HIDE DEF s
  <2> QED BY <2>2, <2>3, <2>4
<1> QED BY <1>2, <1>3

(* What a step of a thread does to the marks. *)
LEMMA ReleaseKeeps ==
  ASSUME Typed, SyncInv, NEW t \in Threads, call[t].in, NEW s \in Seq(Steps), Begin(t, s), Released(t)
  PROVE  SyncInv'
<1>1. call'[t].in = FALSE /\ \A u \in Threads : u # t => call'[u] = call[u]
  <2>1. call'[t] = [todo |-> s, in |-> FALSE] /\ \A u \in Threads : u # t => call'[u] = call[u]
    BY Begun, Zenon
  <2> QED BY <2>1
<1>2. \A u \in Threads : u # t =>
        (Wants(u))' = Wants(u) /\ (Accessing(u))' = Accessing(u) /\ call'[u].in = call[u].in
  BY <1>1 DEF Wants, Accessing, At, Idle
<1>3. \A u \in Threads : u # t /\ call[u].in => Wants(u) # Wants(t)
  BY DEF SyncInv
<1>4. \A u \in Threads : call'[u].in =>
        (Accessing(u))' /\ <<(Wants(u))', "sw">> \in sync' /\ <<(Wants(u))', "fw">> \notin sync'
  BY <1>1, <1>2, <1>3 DEF SyncInv, Released
<1>5. \A u, v \in Threads : call'[u].in /\ call'[v].in /\ (Wants(u))' = (Wants(v))' => u = v
  BY <1>1, <1>2 DEF SyncInv
<1>6. Returned'
  <2> SUFFICES ASSUME NEW res \in Resources, <<res, "sw">> \in sync'
               PROVE  \E u \in Threads : call'[u].in /\ (Wants(u))' = res
    BY DEF Returned
  <2>1. <<res, "sw">> \in sync /\ res # Wants(t)
    BY DEF Released
  <2>2. PICK u \in Threads : call[u].in /\ Wants(u) = res
    BY <2>1 DEF SyncInv, Returned
  <2> QED BY <1>2, <2>1, <2>2
<1> QED BY <1>4, <1>5, <1>6 DEF SyncInv

LEMMA OutsideKeeps ==
  ASSUME Typed, SyncInv, NEW t \in Threads, ~call[t].in, NEW s \in Seq(Steps), Begin(t, s), sync' = sync
  PROVE  SyncInv'
<1>1. call'[t].in = FALSE /\ \A u \in Threads : u # t => call'[u] = call[u]
  <2>1. call'[t] = [todo |-> s, in |-> FALSE] /\ \A u \in Threads : u # t => call'[u] = call[u]
    BY Begun, Zenon
  <2> QED BY <2>1
<1>2. \A u \in Threads : u # t =>
        (Wants(u))' = Wants(u) /\ (Accessing(u))' = Accessing(u) /\ call'[u].in = call[u].in
  BY <1>1 DEF Wants, Accessing, At, Idle
<1>3. \A u \in Threads : call'[u].in => u # t /\ call[u].in
  BY <1>1, <1>2
<1>4. \A u \in Threads : call'[u].in =>
        (Accessing(u))' /\ <<(Wants(u))', "sw">> \in sync' /\ <<(Wants(u))', "fw">> \notin sync'
  BY <1>2, <1>3 DEF SyncInv
<1>5. \A u, v \in Threads : call'[u].in /\ call'[v].in /\ (Wants(u))' = (Wants(v))' => u = v
  BY <1>2, <1>3 DEF SyncInv
<1>6. Returned'
  <2> SUFFICES ASSUME NEW res \in Resources, <<res, "sw">> \in sync'
               PROVE  \E u \in Threads : call'[u].in /\ (Wants(u))' = res
    BY DEF Returned
  <2>1. PICK u \in Threads : call[u].in /\ Wants(u) = res
    BY DEF SyncInv, Returned
  <2> QED BY <1>2, <2>1
<1> QED BY <1>4, <1>5, <1>6 DEF SyncInv

LEMMA AcquireKeeps ==
  ASSUME Typed, SyncInv, NEW t \in Threads, Accessing(t), ~call[t].in,
         {<<Wants(t), "sw">>, <<Wants(t), "fw">>} \cap sync = {},
         sync' = sync \union {<<Wants(t), "sw">>}, call' = [call EXCEPT ![t].in = TRUE]
  PROVE  SyncInv' /\ call' \in [Threads -> CallType] /\ \A u \in Threads : call'[u].todo = call[u].todo
<1>1. /\ call' \in [Threads -> CallType] /\ \A u \in Threads : call'[u].todo = call[u].todo
      /\ call'[t].in = TRUE /\ \A u \in Threads : u # t => call'[u].in = call[u].in
  BY DEF Typed, CallType
<1>2. \A u \in Threads : (Wants(u))' = Wants(u) /\ (Accessing(u))' = Accessing(u)
  BY <1>1 DEF Wants, Accessing, At, Idle
<1>3. \A u \in Threads : call[u].in => Wants(u) # Wants(t)
  BY DEF SyncInv
<1>4. \A u \in Threads : call'[u].in =>
        (Accessing(u))' /\ <<(Wants(u))', "sw">> \in sync' /\ <<(Wants(u))', "fw">> \notin sync'
  <2> TAKE u \in Threads
  <2>1. CASE u = t
    BY <1>2, <2>1
  <2>2. CASE u # t
    BY <1>1, <1>2, <2>2 DEF SyncInv
  <2> QED BY <2>1, <2>2
<1>5. \A u, v \in Threads : call'[u].in /\ call'[v].in /\ (Wants(u))' = (Wants(v))' => u = v
  BY <1>1, <1>2, <1>3 DEF SyncInv
<1>6. Returned'
  <2> SUFFICES ASSUME NEW res \in Resources, <<res, "sw">> \in sync'
               PROVE  \E u \in Threads : call'[u].in /\ (Wants(u))' = res
    BY DEF Returned
  <2>1. CASE res = Wants(t)
    BY <1>1, <1>2, <2>1
  <2>2. CASE res # Wants(t)
    <3>1. PICK u \in Threads : call[u].in /\ Wants(u) = res
      BY <2>2 DEF SyncInv, Returned
    <3> QED BY <1>1, <1>2, <2>2, <3>1
  <2> QED BY <2>1, <2>2
<1> QED BY <1>1, <1>4, <1>5, <1>6 DEF SyncInv

-----------------------------------------------------------------------------
(* What every step of a thread comes to, for the other threads and for the *)
(* watchdog.                                                               *)
Onward(t) ==
  /\ call' \in [Threads -> CallType] /\ dev' \in DevType
  /\ SyncInv' /\ ~Idle(t)
  /\ \A u \in Threads : u # t => call'[u] = call[u]
  /\ StillReports(call[t].todo, call'[t].todo)
  /\ ~dev'.down => dev'.queued \/ (~dev.down /\ dev'.queued = dev.queued /\ ~At(t, "report"))

(* Most steps go on with what is left or give up, and release what they   *)
(* have marked.                                                            *)
LEMMA ContinuedOnward ==
  ASSUME LinkInv, NEW t \in Threads, ~Idle(t), Done(t) \/ GiveUp(t),
         \/ call[t].in /\ Released(t)
         \/ ~call[t].in /\ sync' = sync,
         \/ dev' = dev /\ ~At(t, "report")
         \/ dev' \in DevType /\ (dev'.down \/ dev'.queued)
  PROVE  Onward(t)
<1>1. Typed /\ SyncInv
  BY DEF LinkInv
<1>2. PICK s \in Seq(Steps) :
        /\ Begin(t, s)
        /\ StillReports(call[t].todo, s)
  BY <1>1, Continued
<1>3. /\ call' \in [Threads -> CallType]
      /\ call'[t] = [todo |-> s, in |-> FALSE]
      /\ \A u \in Threads : u # t => call'[u] = call[u]
  BY <1>1, <1>2, Begun, Zenon
<1>4. call'[t].todo = s
  BY <1>3
<1>5. SyncInv'
  <2>1. CASE call[t].in /\ Released(t)
    BY <1>1, <1>2, <2>1, ReleaseKeeps, Zenon
  <2>2. CASE ~call[t].in /\ sync' = sync
    BY <1>1, <1>2, <2>2, OutsideKeeps, Zenon
  <2> QED BY <2>1, <2>2
<1>6. dev' \in DevType
  BY <1>1 DEF Typed
<1>7. ~dev'.down => dev'.queued \/ (~dev.down /\ dev'.queued = dev.queued /\ ~At(t, "report"))
  OBVIOUS
<1> QED BY <1>2, <1>3, <1>4, <1>5, <1>6, <1>7 DEF Onward

LEMMA Outside ==
  ASSUME SyncInv, NEW t \in Threads, ~Accessing(t)
  PROVE  ~call[t].in
BY DEF SyncInv

LEMMA Inside ==
  ASSUME SyncInv, NEW t \in Threads, call[t].in
  PROVE  ~Idle(t) /\ ~At(t, "report")
BY StepNames DEF SyncInv, Accessing, At

LEMMA OtherStep ==
  ASSUME NEW t \in Threads, NEW step \in Steps \ Accesses, At(t, step)
  PROVE  ~Idle(t) /\ ~Accessing(t) /\ (step # "report" => ~At(t, "report"))
BY DEF At, Accessing

LEMMA AccessOnward ==
  ASSUME LinkInv, NEW t \in Threads, Access(t)
  PROVE  Onward(t)
<1>1. Typed /\ SyncInv
  BY DEF LinkInv
<1>2. CASE Acquire(t)
  <2>1. Accessing(t) /\ ~call[t].in /\ dev' = dev
    BY <1>2 DEF Acquire
  <2>2. ~Idle(t) /\ ~At(t, "report")
    BY <2>1, StepNames DEF Accessing, At
  <2>3. CASE GiveUp(t) /\ sync' = sync
    BY <2>1, <2>2, <2>3, ContinuedOnward
  <2>4. CASE /\ {<<Wants(t), "sw">>, <<Wants(t), "fw">>} \cap sync = {}
             /\ sync' = sync \union {<<Wants(t), "sw">>}
             /\ call' = [call EXCEPT ![t].in = TRUE]
    <3>1. /\ SyncInv' /\ call' \in [Threads -> CallType]
          /\ \A u \in Threads : call'[u].todo = call[u].todo
      BY <1>1, <2>1, <2>4, AcquireKeeps
    <3>2. \A u \in Threads : u # t => call'[u] = call[u]
      BY <1>1, <2>4 DEF Typed
    <3> QED BY <1>1, <2>1, <2>2, <3>1, <3>2 DEF Onward, Typed, StillReports
  <2> QED BY <1>2, <2>3, <2>4 DEF Acquire
<1>3. CASE UseFails(t)
  BY <1>1, <1>3, Inside, ContinuedOnward DEF UseFails
<1>4. CASE PhyReset(t)
  BY <1>1, <1>4, Inside, ContinuedOnward DEF PhyReset, Ends
<1>5. CASE UseQuietly(t)
  BY <1>1, <1>5, Inside, ContinuedOnward DEF UseQuietly, Ends
<1>6. CASE Advertise(t)
  BY <1>1, <1>6, Inside, ContinuedOnward DEF Advertise, Ends, In
<1>7. CASE Restart(t)
  BY <1>1, <1>7, Inside, ContinuedOnward DEF Restart, Ends, In
<1>8. CASE ForceSpeed(t)
  BY <1>1, <1>8, Inside, ContinuedOnward DEF ForceSpeed, Ends, In
<1>9. CASE ReadStatus(t)
  BY <1>1, <1>9, Inside, ContinuedOnward DEF ReadStatus
<1>10. CASE ReadAbilities(t)
  BY <1>1, <1>10, Inside, ContinuedOnward DEF ReadAbilities, Ends, In
<1> QED
  BY <1>2, <1>3, <1>4, <1>5, <1>6, <1>7, <1>8, <1>9, <1>10 DEF Access

LEMMA StepOnward ==
  ASSUME LinkInv, NEW t \in Threads, Step(t)
  PROVE  Onward(t)
<1>1. Typed /\ SyncInv
  BY DEF LinkInv
<1>0. {"down", "reset", "reset_blocked", "note", "force", "up", "report", "end"} \subseteq Steps \ Accesses
  BY DEF Steps, Accesses, Always
<1>2. ASSUME NEW step \in {"down", "reset", "reset_blocked", "note", "force", "up", "report", "end"},
             At(t, step), Done(t) \/ GiveUp(t), sync' = sync,
             \/ dev' = dev /\ step # "report"
             \/ dev' \in DevType /\ (dev'.down \/ dev'.queued)
      PROVE  Onward(t)
  <2>1. ~Idle(t) /\ ~Accessing(t) /\ (step # "report" => ~At(t, "report"))
    BY <1>0, <1>2, OtherStep
  <2>2. ~call[t].in
    BY <1>1, <2>1, Outside
  <2> QED BY <1>2, <2>1, <2>2, ContinuedOnward
<1>3. CASE Access(t)
  BY <1>3, AccessOnward
<1>4. CASE Down(t)
  <2>0. PICK queued \in {FALSE, dev.queued} :
          dev' = [down |-> TRUE, queued |-> queued, carrier |-> FALSE]
    BY <1>4 DEF Down
  <2>1. dev' \in DevType /\ dev'.down
    <3>1. queued \in BOOLEAN
      BY <1>1 DEF Typed, DevType
    <3>2. dev' \in DevType
      BY <2>0, <3>1 DEF DevType
    <3>3. dev'.down = TRUE
      BY <2>0
    <3> QED BY <3>2, <3>3
  <2> QED BY <1>2, <1>4, <2>1 DEF Down
<1>5. CASE ResetMac(t)
  BY <1>2, <1>5 DEF ResetMac
<1>6. CASE ResetBlocked(t)
  BY <1>2, <1>6 DEF ResetBlocked
<1>7. CASE Note(t)
  <2>1. ~Idle(t) /\ ~Accessing(t) /\ ~At(t, "report") /\ dev' = dev /\ sync' = sync
    BY <1>0, <1>7, OtherStep DEF Note
  <2>2. ~call[t].in
    BY <1>1, <2>1, Outside
  <2> DEFINE todo == call[t].todo
             first == IF mac.auto THEN ConfigFc(TRUE) ELSE <<>>
             s == first \o Tail(todo)
  <2>3. todo \in Seq(Steps) /\ todo # <<>> /\ Tail(todo) \in Seq(Steps) /\ first \in Seq(Steps)
    <3>1. todo \in Seq(Steps) /\ todo # <<>>
      BY <1>1, <2>1 DEF Typed, CallType, Idle
    <3>2. Tail(todo) \in Seq(Steps)
      BY <3>1
    <3>3. ConfigFc(TRUE) \in Seq(Steps) /\ <<>> \in Seq(Steps)
      <4>1. TRUE \in BOOLEAN
        OBVIOUS
      <4>2. ConfigFc(TRUE) \in Seq(Steps)
        BY <4>1, ConfigFcType, Zenon
      <4>3. <<>> \in Seq(Steps)
        OBVIOUS
      <4> QED BY <4>2, <4>3, Zenon
    <3>4. first \in Seq(Steps)
      BY <3>3
    <3> QED BY <3>1, <3>2, <3>4
  <2>4. Begin(t, s)
    BY <1>7 DEF Note, Expand
  <2>5. StillReports(todo, s)
    <3> SUFFICES ASSUME Reports(todo) PROVE Reports(s)
      BY DEF StillReports
    <3>1. Reports(Tail(todo))
      <4>1. Head(todo) = "note"
        BY <1>7 DEF Note, At
      <4> QED BY <2>3, <4>1, TailReports DEF StillReports
    <3> DEFINE r == Tail(todo)
    <3>2. r \in Seq(Steps) /\ r # <<>> /\ r[Len(r)] = "report"
      BY <2>3, <3>1 DEF Reports
    <3> HIDE DEF r, first
    <3>3. /\ Len(first \o r) = Len(first) + Len(r)
          /\ (first \o r)[Len(first) + Len(r)] = r[Len(r)]
      BY <2>3, <3>2
    <3>4. first \o r # <<>>
      BY <2>3, <3>2, <3>3
    <3>5. Reports(first \o r)
      BY <3>2, <3>3, <3>4 DEF Reports
    <3> QED BY <3>5 DEF r
  <2>6. s \in Seq(Steps)
    <3> DEFINE r == Tail(todo)
    <3> HIDE DEF r, first
    <3>1. r \in Seq(Steps) /\ first \in Seq(Steps)
      BY <2>3 DEF r
    <3>2. first \o r \in Seq(Steps)
      BY <3>1
    <3> QED BY <3>2 DEF r
  <2> HIDE DEF s
  <2>7. /\ call' \in [Threads -> CallType]
        /\ call'[t] = [todo |-> s, in |-> FALSE]
        /\ \A u \in Threads : u # t => call'[u] = call[u]
    BY <1>1, <2>4, <2>6, Begun, Zenon
  <2>8. call'[t].todo = s
    BY <2>7
  <2>9. SyncInv'
    BY <1>1, <2>1, <2>2, <2>4, <2>6, OutsideKeeps, Zenon
  <2> QED BY <1>1, <2>1, <2>5, <2>7, <2>8, <2>9 DEF Onward, Typed
<1>8. CASE ForceMacFc(t)
  BY <1>2, <1>8 DEF ForceMacFc
<1>9. CASE Up(t)
  <2>1. dev' \in DevType /\ dev'.queued
    BY <1>1, <1>9 DEF Up, Typed, DevType
  <2> QED BY <1>2, <1>9, <2>1 DEF Up
<1>10. CASE Report(t)
  <2>1. dev' \in DevType /\ (dev'.down \/ dev'.queued)
    BY <1>1, <1>10 DEF Report, Typed, DevType
  <2> QED BY <1>2, <1>10, <2>1 DEF Report
<1>11. CASE End(t)
  BY <1>2, <1>11 DEF End
<1> QED
  BY <1>3, <1>4, <1>5, <1>6, <1>7, <1>8, <1>9, <1>10, <1>11 DEF Step

-----------------------------------------------------------------------------
LEMMA LinkInitial == Init => LinkInv
<1> SUFFICES ASSUME Init PROVE LinkInv
  OBVIOUS
<1>1. Typed
  BY DEF Init, Typed, CallType, DevType
<1>2. \A t \in Threads : ~call[t].in /\ Idle(t)
  BY DEF Init, Idle
<1>3. SyncInv
  BY <1>2 DEF Init, SyncInv, Returned
<1>4. WatchInv
  BY <1>2 DEF Init, WatchInv, Threads
<1> QED BY <1>1, <1>3, <1>4 DEF LinkInv

LEMMA OnwardInv ==
  ASSUME LinkInv, NEW t \in Threads, Step(t)
  PROVE  LinkInv'
<1>1. Onward(t)
  BY StepOnward
<1>2. Typed' /\ SyncInv'
  BY <1>1 DEF Onward, Typed
<1>3. LinkInv => WatchInv /\ "watchdog" \in Threads
  BY DEF LinkInv, Threads
<1>4. (~Idle("watchdog"))' => Reports(call'["watchdog"].todo)
  <2>1. CASE t = "watchdog"
    BY <1>1, <1>3, <2>1 DEF Onward, StillReports, WatchInv, Idle
  <2>2. CASE t # "watchdog"
    BY <1>1, <1>3, <2>2 DEF Onward, WatchInv, Idle
  <2> QED BY <2>1, <2>2
<1>5. ASSUME ~dev'.down PROVE dev'.queued \/ (~Idle("watchdog"))'
  <2>1. SUFFICES ASSUME ~dev.down, ~dev'.queued, dev'.queued = dev.queued, ~At(t, "report")
                 PROVE  (~Idle("watchdog"))'
    BY <1>1, <1>5 DEF Onward
  <2>2. ~Idle("watchdog") /\ Reports(call["watchdog"].todo)
    BY <1>3, <2>1 DEF WatchInv
  <2>3. CASE t = "watchdog"
    BY <1>1, <2>1, <2>2, <2>3 DEF Onward, StillReports, Reports, Idle, At
  <2>4. CASE t # "watchdog"
    BY <1>1, <1>3, <2>2, <2>4 DEF Onward, Idle
  <2> QED BY <2>3, <2>4
<1> QED BY <1>2, <1>4, <1>5 DEF LinkInv, WatchInv

(* The steps that are no thread's. *)
LEMMA BeginInv ==
  ASSUME LinkInv, NEW t \in Threads, Idle(t), NEW s \in Seq(Steps), Begin(t, s), sync' = sync,
         dev' \in DevType,
         IF t = "watchdog" THEN Reports(s) ELSE dev' = dev
  PROVE  LinkInv'
<1>1. Typed /\ SyncInv /\ WatchInv /\ "watchdog" \in Threads
  BY DEF LinkInv, Threads
<1>2. ~call[t].in
  BY <1>1 DEF SyncInv, Accessing
<1>3. SyncInv'
  BY <1>1, <1>2, OutsideKeeps, Zenon
<1>4. /\ call' \in [Threads -> CallType]
      /\ call'[t] = [todo |-> s, in |-> FALSE]
      /\ \A u \in Threads : u # t => call'[u] = call[u]
  BY <1>1, Begun, Zenon
<1>5. call'[t].todo = s
  BY <1>4
<1>6. WatchInv'
  <2>1. CASE t = "watchdog"
    BY <1>5, <2>1 DEF WatchInv, Idle, Reports
  <2>2. CASE t # "watchdog"
    BY <1>1, <1>4, <2>2 DEF WatchInv, Idle
  <2> QED BY <2>1, <2>2
<1> QED BY <1>3, <1>4, <1>6 DEF LinkInv, Typed

LEMMA LinkStep ==
  ASSUME LinkInv, [Next]_vars
  PROVE  LinkInv'
<1>1. Typed /\ SyncInv /\ WatchInv /\ "user" \in Threads /\ "watchdog" \in Threads
  BY DEF LinkInv, Threads
<1>2. CASE \E t \in Threads : Step(t)
  BY <1>2, OnwardInv
<1>3. CASE CallReinit
  <2>1. PICK auto \in BOOLEAN, blocked \in BOOLEAN : Begin("user", Reinit(auto, blocked))
    BY <1>3 DEF CallReinit
  <2> DEFINE s == Reinit(auto, blocked)
  <2>2. s \in Seq(Steps) /\ Begin("user", s)
    BY <2>1, ReinitType
  <2> HIDE DEF s
  <2> QED BY <1>1, <1>3, <2>2, BeginInv DEF CallReinit, Typed
<1>4. CASE CallGetLink
  <2> DEFINE getlink == mac.getlink \/ ~dev.carrier
             s == HasLink(getlink) \o <<"end">>
  <2>1. s \in Seq(Steps) /\ Begin("user", s)
    BY <1>4, HasLinkType DEF CallGetLink
  <2> HIDE DEF s
  <2> QED BY <1>1, <1>4, <2>1, BeginInv DEF CallGetLink, Typed
<1>5. CASE CallAccess
  <2>1. PICK step \in {"mii", "nvm"} : Begin("user", <<step, "end">>)
    BY <1>5 DEF CallAccess
  <2> DEFINE s == <<step, "end">>
  <2>2. s \in Seq(Steps) /\ Begin("user", s)
    BY <2>1, StepNames DEF Accesses, Always
  <2> HIDE DEF s
  <2> QED BY <1>1, <1>5, <2>2, BeginInv DEF CallAccess, Typed
<1>6. CASE WatchdogTask
  <2> DEFINE s == HasLink(mac.getlink) \o <<"report">>
  <2>1. s \in Seq(Steps) /\ Reports(s) /\ Begin("watchdog", s)
    BY <1>6, HasLinkType DEF WatchdogTask
  <2> HIDE DEF s
  <2>2. dev' \in DevType
    BY <1>1, <1>6 DEF WatchdogTask, Typed, DevType
  <2> QED BY <1>1, <1>6, <2>1, <2>2, BeginInv DEF WatchdogTask
<1>7. ASSUME call' = call, sync' = sync, dev' \in DevType, dev'.down = dev.down, dev.queued => dev'.queued
      PROVE  LinkInv'
  BY <1>1, <1>7 DEF LinkInv, Typed, SyncInv, WatchInv, Returned, Accessing, Wants, At, Idle
<1>8. CASE CallPause \/ LinkComes \/ LinkGoes \/ UNCHANGED vars
  BY <1>1, <1>7, <1>8 DEF CallPause, LinkComes, LinkGoes, vars, Typed
<1>9. CASE Interrupt
  <2>1. dev' \in DevType /\ dev'.down = dev.down /\ (dev.queued => dev'.queued)
    BY <1>1, <1>9 DEF Interrupt, Typed, DevType
  <2> QED BY <1>7, <1>9, <2>1 DEF Interrupt
<1>10. CASE Firmware
  <2>1. call' = call /\ dev' = dev
    BY <1>10 DEF Firmware
  <2>2. \A u \in Threads : Wants(u)' = Wants(u) /\ Accessing(u)' = Accessing(u)
    BY <2>1 DEF Wants, Accessing, At, Idle
  <2>3. \A res \in Resources : <<res, "sw">> \in sync' <=> <<res, "sw">> \in sync
    BY <1>10 DEF Firmware
  <2>4. \A u \in Threads : call[u].in => Wants(u) \in Resources
    BY DEF Wants, Resources
  <2>5. \A u \in Threads : call[u].in => <<Wants(u), "fw">> \notin sync'
    <3> SUFFICES ASSUME NEW u \in Threads, call[u].in PROVE <<Wants(u), "fw">> \notin sync'
      OBVIOUS
    <3> DEFINE w == Wants(u)
    <3>1. <<w, "sw">> \in sync /\ <<w, "fw">> \notin sync
      BY <1>1 DEF SyncInv
    <3> HIDE DEF w
    <3>2. CASE <<"phy", "sw">> \notin sync /\ sync' = sync \union {<<"phy", "fw">>}
      <4>1. w # "phy"
        BY <3>1, <3>2
      <4>2. <<w, "fw">> # <<"phy", "fw">>
        BY <4>1
      <4>3. <<w, "fw">> \notin sync'
        BY <3>1, <3>2, <4>2
      <4> QED BY <4>3 DEF w
    <3>3. CASE sync' = sync \ {<<"phy", "fw">>}
      <4>1. <<w, "fw">> \notin sync'
        BY <3>1, <3>3
      <4> QED BY <4>1 DEF w
    <3> QED BY <1>10, <3>2, <3>3 DEF Firmware
  <2>6. SyncInv'
    BY <1>1, <2>1, <2>2, <2>3, <2>4, <2>5 DEF SyncInv, Returned
  <2> QED BY <1>1, <2>1, <2>6 DEF LinkInv, Typed, WatchInv, Idle
<1> QED
  BY <1>2, <1>3, <1>4, <1>5, <1>6, <1>8, <1>9, <1>10 DEF Next

-----------------------------------------------------------------------------
THEOREM LinkInvariance == Spec => []LinkInv
<1>1. Init => LinkInv
  BY LinkInitial
<1>2. LinkInv /\ [Next]_vars => LinkInv'
  BY LinkStep
<1> QED BY <1>1, <1>2, PTL DEF Spec

(* Two threads, or a thread and the firmware, never use the registers of   *)
(* the PHY, or the EEPROM, at the same time: SW_FW_SYNC works whatever     *)
(* fails in the middle of a call.                                          *)
THEOREM OneAtATime == Spec => []Exclusive
<1>1. LinkInv => Exclusive
  BY DEF LinkInv, SyncInv, Exclusive
<1> QED BY <1>1, LinkInvariance, PTL

(* No call leaves a mark of the driver in SW_FW_SYNC behind, by whatever   *)
(* path it ends.                                                           *)
THEOREM AllReleased == Spec => []Returned
<1>1. LinkInv => Returned
  BY DEF LinkInv, SyncInv
<1> QED BY <1>1, LinkInvariance, PTL

(* While the device is up the watchdog runs or is armed, so that a link    *)
(* that the kernel does not know of is looked for.                         *)
THEOREM AlwaysLooked == Spec => []LinkLooked
<1>1. LinkInv => LinkLooked
  BY DEF LinkInv, WatchInv, LinkLooked
<1> QED BY <1>1, LinkInvariance, PTL

-----------------------------------------------------------------------------
(* Pauses.  What is left of a call is either a new set-up of the link,     *)
(* which ends with igb_up() whatever fails, or one of few sequences.       *)
Reinits(s) == s # <<>> /\ \A k \in 1..Len(s) : s[k] = "up" <=> k = Len(s)

Lasts == {"end", "report"}

ReadAhead(s) ==
  \E e \in Lasts : \/ s = <<"force", "complete", "abilities", "force", e>>
                   \/ s = <<"complete", "abilities", "force", e>>
                   \/ s = <<"abilities", "force", e>>

ForceAhead(s) == \E e \in Lasts : s = <<"force", e>>

Quiet(s) ==
  s = <<>> \/ \E e \in Lasts : \/ s = <<e>> \/ s = <<"status", "note", e>>
                               \/ s = <<"note", e>> \/ s = <<"mii", e>> \/ s = <<"nvm", e>>

TodoInv ==
  \A t \in Threads : LET s == call[t].todo IN
    Reinits(s) \/ ReadAhead(s) \/ ForceAhead(s) \/ Quiet(s)

(* A mode of flow control that the partner of this link agrees to. *)
Good(f) ==
  /\ f # Default
  /\ "tx" \in f => phy.lp.full /\ Heeds(phy.lp.pause, phy.adv)
  /\ ~phy.lp.full => f = {}

(* What nobody has been told to look at again. *)
Fresh ==
  ~mac.getlink /\ ~mac.lsc /\ ~missed /\ mac.auto /\ phy.auto /\ phy.link /\ ~dev.down

CurrentInv == mac.current = Default => mac.fc = {}

(* The flow control of a link that is up is right, or will be put right by *)
(* a thread: it will ask for the link to be looked at again, or will read  *)
(* what was negotiated, or has read it and will force it.                  *)
Covered ==
  \/ \E t \in Threads : Reinits(call[t].todo) \/ ReadAhead(call[t].todo)
  \/ Good(mac.current) /\ \E t \in Threads : ForceAhead(call[t].todo)
  \/ Good(mac.fc) /\ (Good(mac.current) \/ mac.current = Default)

LinkTyped == phy \in PhyState /\ mac \in MacType /\ missed \in BOOLEAN

PauseInv == LinkInv /\ LinkTyped /\ TodoInv /\ CurrentInv /\ (Fresh => Covered)

-----------------------------------------------------------------------------
(* Going on.  A set-up of the link that goes on or gives up still ends     *)
(* with igb_up(); any other call that gives up is left with its last step. *)
LEMMA GoneOn ==
  ASSUME Typed, NEW t \in Threads, ~Idle(t), Done(t)
  PROVE  /\ call'[t].todo = Tail(call[t].todo)
         /\ \A u \in Threads : u # t => call'[u] = call[u]
         /\ call' \in [Threads -> CallType]
<1> DEFINE s == Tail(call[t].todo)
<1>1. s \in Seq(Steps) /\ Begin(t, s)
  BY DEF Typed, CallType, Idle, Done
<1> HIDE DEF s
<1>2. /\ call' \in [Threads -> CallType]
      /\ call'[t] = [todo |-> s, in |-> FALSE]
      /\ \A u \in Threads : u # t => call'[u] = call[u]
  BY <1>1, Begun, Zenon
<1>3. call'[t].todo = s
  BY <1>2
<1> QED BY <1>2, <1>3 DEF s

LEMMA GivenUp ==
  ASSUME Typed, NEW t \in Threads, ~Idle(t), GiveUp(t)
  PROVE  /\ \A u \in Threads : u # t => call'[u] = call[u]
         /\ call' \in [Threads -> CallType]
         /\ LET s == call[t].todo
                r == call'[t].todo
            IN  \E n \in 2..(Len(s) + 1) :
                  /\ \A k \in 2..(n - 1) : s[k] \notin Always
                  /\ n <= Len(s) => s[n] \in Always
                  /\ r \in Seq(Steps)
                  /\ Len(r) = Len(s) - n + 1
                  /\ \A i \in 1..Len(r) : r[i] = s[n + i - 1]
<1> DEFINE s == call[t].todo
           last == Len(s)
<1>1. s \in Seq(Steps) /\ s # <<>> /\ last \in Nat /\ last > 0
  BY DEF Typed, CallType, Idle
<1>2. PICK n \in 2..(last + 1) :
        /\ \A k \in 2..(n - 1) : s[k] \notin Always
        /\ n <= last => s[n] \in Always
        /\ Begin(t, SubSeq(s, n, last))
  BY DEF GiveUp
<1> DEFINE r == SubSeq(s, n, last)
<1>3. /\ r \in Seq(Steps)
      /\ Len(r) = last - n + 1
      /\ \A i \in 1..Len(r) : r[i] = s[n + i - 1]
  <2>1. s \in Seq(Steps) /\ last = Len(s) /\ last \in Int /\ n \in Int /\ n >= 2 /\ n <= last + 1
    BY <1>1, <1>2
  <2> HIDE DEF s, last
  <2>2. \A i \in n..last : s[i] \in Steps
    BY <2>1
  <2>3. /\ r \in Seq(Steps)
        /\ Len(r) = IF n <= last THEN last - n + 1 ELSE 0
        /\ \A i \in 1..(last - n + 1) : r[i] = s[n + i - 1]
    BY <2>1, <2>2, SubSeqProperties
  <2> HIDE DEF r
  <2>4. ~(n <= last) => last - n + 1 = 0
    BY <2>1
  <2>5. Len(r) = last - n + 1
    BY <2>3, <2>4
  <2> QED BY <2>3, <2>5
<1>4. Begin(t, r)
  BY <1>2
<1> HIDE DEF r
<1>5. /\ call' \in [Threads -> CallType]
      /\ call'[t] = [todo |-> r, in |-> FALSE]
      /\ \A u \in Threads : u # t => call'[u] = call[u]
  BY <1>3, <1>4, Begun, Zenon
<1> DEFINE q == call'[t].todo
<1>6. q = r
  BY <1>5
<1> HIDE DEF s, q
<1>7. \E m \in 2..(Len(s) + 1) :
        /\ \A k \in 2..(m - 1) : s[k] \notin Always
        /\ m <= Len(s) => s[m] \in Always
        /\ q \in Seq(Steps)
        /\ Len(q) = Len(s) - m + 1
        /\ \A i \in 1..Len(q) : q[i] = s[m + i - 1]
  BY <1>2, <1>3, <1>6
<1> QED BY <1>5, <1>7, Zenon DEF s, q

LEMMA TailReinits ==
  ASSUME NEW s \in Seq(Steps), Reinits(s), Head(s) # "up"
  PROVE  Reinits(Tail(s))
<1> DEFINE r == Tail(s)
<1>1. /\ s # <<>> /\ Len(s) \in Nat /\ Len(s) > 1
      /\ \A k \in 1..Len(s) : s[k] = "up" <=> k = Len(s)
  <2>1. Len(s) \in Nat /\ Len(s) > 0 /\ Head(s) = s[1]
    BY DEF Reinits
  <2>2. Len(s) # 1
    BY <2>1 DEF Reinits
  <2> QED BY <2>1, <2>2 DEF Reinits
<1>2. /\ r \in Seq(Steps) /\ Len(r) = Len(s) - 1
      /\ \A i \in 1..Len(r) : r[i] = s[i + 1]
  BY <1>1, HeadTailProperties
<1> HIDE DEF r
<1>3. r # <<>>
  BY <1>1, <1>2
<1>4. \A k \in 1..Len(r) : r[k] = "up" <=> k = Len(r)
  BY <1>1, <1>2
<1> QED BY <1>3, <1>4 DEF Reinits, r

LEMMA ReinitGoesOn ==
  ASSUME Typed, NEW t \in Threads, Reinits(call[t].todo), Head(call[t].todo) # "up",
         Done(t) \/ GiveUp(t)
  PROVE  /\ Reinits(call'[t].todo)
         /\ \A u \in Threads : u # t => call'[u] = call[u]
         /\ call' \in [Threads -> CallType]
<1> DEFINE s == call[t].todo
           r == call'[t].todo
<1>1. ~Idle(t) /\ s \in Seq(Steps) /\ Len(s) \in Nat
  BY DEF Idle, Reinits, Typed, CallType
<1>2. CASE Done(t)
  BY <1>1, <1>2, GoneOn, TailReinits
<1>3. CASE GiveUp(t)
  <2>1. /\ \A u \in Threads : u # t => call'[u] = call[u]
        /\ call' \in [Threads -> CallType]
        /\ \E n \in 2..(Len(s) + 1) :
             /\ \A k \in 2..(n - 1) : s[k] \notin Always
             /\ n <= Len(s) => s[n] \in Always
             /\ r \in Seq(Steps)
             /\ Len(r) = Len(s) - n + 1
             /\ \A i \in 1..Len(r) : r[i] = s[n + i - 1]
    BY <1>1, <1>3, GivenUp
  <2>2. PICK n \in 2..(Len(s) + 1) :
             /\ \A k \in 2..(n - 1) : s[k] \notin Always
             /\ n <= Len(s) => s[n] \in Always
             /\ r \in Seq(Steps)
             /\ Len(r) = Len(s) - n + 1
             /\ \A i \in 1..Len(r) : r[i] = s[n + i - 1]
    BY <2>1
  <2>3. /\ Len(s) > 1 /\ Head(s) = s[1] /\ s[Len(s)] = "up"
        /\ \A k \in 1..Len(s) : s[k] = "up" <=> k = Len(s)
    <3>1. s # <<>> /\ Len(s) > 0 /\ Head(s) = s[1]
      BY <1>1 DEF Reinits
    <3>2. \A k \in 1..Len(s) : s[k] = "up" <=> k = Len(s)
      BY DEF Reinits
    <3> QED BY <1>1, <3>1, <3>2
  <2> HIDE DEF s, r
  <2>4. "up" \in Always
    BY DEF Always
  <2>5. n <= Len(s)
    BY <1>1, <2>2, <2>3, <2>4
  <2>6. r # <<>> /\ Len(r) \in Nat
    BY <1>1, <2>2, <2>5
  <2>7. \A k \in 1..Len(r) : r[k] = "up" <=> k = Len(r)
    <3> SUFFICES ASSUME NEW k \in 1..Len(r) PROVE r[k] = "up" <=> k = Len(r)
      OBVIOUS
    <3>1. n + k - 1 \in 1..Len(s) /\ (n + k - 1 = Len(s) <=> k = Len(r))
      BY <1>1, <2>2, <2>5
    <3> QED BY <2>2, <2>3, <3>1
  <2>8. Reinits(r)
    BY <2>6, <2>7 DEF Reinits
  <2> QED BY <2>1, <2>8 DEF r
<1> QED BY <1>2, <1>3

LEMMA LeftWithLast ==
  ASSUME Typed, NEW t \in Threads, NEW e \in Always, GiveUp(t),
         LET s == call[t].todo
         IN  Len(s) > 1 /\ s[Len(s)] = e /\ \A k \in 2..(Len(s) - 1) : s[k] \notin Always
  PROVE  /\ call'[t].todo = <<e>>
         /\ \A u \in Threads : u # t => call'[u] = call[u]
         /\ call' \in [Threads -> CallType]
<1> DEFINE s == call[t].todo
           r == call'[t].todo
<1>1. ~Idle(t) /\ s \in Seq(Steps) /\ Len(s) \in Nat
  BY DEF Idle, Typed, CallType
<1>2. /\ \A u \in Threads : u # t => call'[u] = call[u]
      /\ call' \in [Threads -> CallType]
      /\ \E n \in 2..(Len(s) + 1) :
           /\ \A k \in 2..(n - 1) : s[k] \notin Always
           /\ n <= Len(s) => s[n] \in Always
           /\ r \in Seq(Steps)
           /\ Len(r) = Len(s) - n + 1
           /\ \A i \in 1..Len(r) : r[i] = s[n + i - 1]
  BY <1>1, GivenUp
<1>3. PICK n \in 2..(Len(s) + 1) :
           /\ \A k \in 2..(n - 1) : s[k] \notin Always
           /\ n <= Len(s) => s[n] \in Always
           /\ r \in Seq(Steps)
           /\ Len(r) = Len(s) - n + 1
           /\ \A i \in 1..Len(r) : r[i] = s[n + i - 1]
  BY <1>2
<1>4. Len(s) > 1 /\ s[Len(s)] = e /\ \A k \in 2..(Len(s) - 1) : s[k] \notin Always
  OBVIOUS
<1> HIDE DEF s, r
<1>5. n = Len(s)
  BY <1>1, <1>3, <1>4
<1>6. Len(r) = 1 /\ r[1] = e
  BY <1>1, <1>3, <1>4, <1>5
<1>7. r = <<e>>
  BY <1>3, <1>6
<1> QED BY <1>2, <1>7 DEF r

-----------------------------------------------------------------------------
(* How the sequences of the other calls go on. *)
LEMMA Tails ==
  ASSUME NEW e
  PROVE  /\ Tail(<<e>>) = <<>> /\ Tail(<<"force", e>>) = <<e>> /\ Tail(<<"note", e>>) = <<e>>
         /\ Tail(<<"mii", e>>) = <<e>> /\ Tail(<<"nvm", e>>) = <<e>>
         /\ Tail(<<"status", "note", e>>) = <<"note", e>>
         /\ Tail(<<"abilities", "force", e>>) = <<"force", e>>
         /\ Tail(<<"complete", "abilities", "force", e>>) = <<"abilities", "force", e>>
         /\ Tail(<<"force", "complete", "abilities", "force", e>>)
              = <<"complete", "abilities", "force", e>>
OBVIOUS

LEMMA ConfigFcSteps ==
  ASSUME NEW e \in Steps
  PROVE  ConfigFc(TRUE) \o <<e>> = <<"force", "complete", "abilities", "force", e>>
<1> DEFINE first == <<"force">>
           second == <<"complete", "abilities", "force">>
           s == first \o second
           q == s \o <<e>>
<1>0. "force" \in Steps /\ "complete" \in Steps /\ "abilities" \in Steps
  BY StepNames DEF Accesses
<1>1. /\ first \in Seq(Steps) /\ Len(first) = 1 /\ first[1] = "force"
      /\ second \in Seq(Steps) /\ Len(second) = 3
      /\ second[1] = "complete" /\ second[2] = "abilities" /\ second[3] = "force"
  BY <1>0
<1>2. ConfigFc(TRUE) = s
  BY DEF ConfigFc
<1> HIDE DEF first, second
<1>3. /\ s \in Seq(Steps) /\ Len(s) = 4
      /\ s[1] = "force" /\ s[2] = "complete" /\ s[3] = "abilities" /\ s[4] = "force"
  <2>1. /\ s \in Seq(Steps) /\ Len(s) = Len(first) + Len(second)
        /\ \A k \in 1..(Len(first) + Len(second)) :
             s[k] = IF k <= Len(first) THEN first[k] ELSE second[k - Len(first)]
    BY <1>1, ConcatProperties
  <2> HIDE DEF s
  <2> QED BY <1>1, <2>1
<1> HIDE DEF s
<1>4. /\ q \in Seq(Steps) /\ Len(q) = 5
      /\ q[1] = "force" /\ q[2] = "complete" /\ q[3] = "abilities" /\ q[4] = "force" /\ q[5] = e
  <2> DEFINE last == <<e>>
  <2>1. last \in Seq(Steps) /\ Len(last) = 1 /\ last[1] = e
    OBVIOUS
  <2> HIDE DEF last
  <2>2. q = s \o last
    BY DEF last
  <2> HIDE DEF q
  <2>3. /\ q \in Seq(Steps) /\ Len(q) = Len(s) + Len(last)
        /\ \A k \in 1..(Len(s) + Len(last)) : q[k] = IF k <= Len(s) THEN s[k] ELSE last[k - Len(s)]
    BY <1>3, <2>1, <2>2, ConcatProperties
  <2> QED BY <1>3, <2>1, <2>3
<1> HIDE DEF q
<1>5. q = <<"force", "complete", "abilities", "force", e>>
  BY <1>4
<1> QED BY <1>2, <1>5 DEF q

LEMMA LastsAlways == \A e \in Lasts : e \in Always /\ e \notin Accesses
BY DEF Lasts, Always, Accesses

(* Which call may have which step before it. *)
LEMMA Forms ==
  ASSUME NEW s, ReadAhead(s) \/ ForceAhead(s) \/ Quiet(s), s # <<>>
  PROVE  \E e \in Lasts :
           \/ Head(s) = "force" /\ s = <<"force", "complete", "abilities", "force", e>>
           \/ Head(s) = "complete" /\ s = <<"complete", "abilities", "force", e>>
           \/ Head(s) = "abilities" /\ s = <<"abilities", "force", e>>
           \/ Head(s) = "force" /\ s = <<"force", e>>
           \/ Head(s) = e /\ s = <<e>>
           \/ Head(s) = "status" /\ s = <<"status", "note", e>>
           \/ Head(s) = "note" /\ s = <<"note", e>>
           \/ Head(s) = "mii" /\ s = <<"mii", e>>
           \/ Head(s) = "nvm" /\ s = <<"nvm", e>>
<1>1. CASE ReadAhead(s)
  <2>1. PICK e \in Lasts : \/ s = <<"force", "complete", "abilities", "force", e>>
                           \/ s = <<"complete", "abilities", "force", e>>
                           \/ s = <<"abilities", "force", e>>
    BY <1>1 DEF ReadAhead
  <2> QED BY <2>1
<1>2. CASE ForceAhead(s)
  <2>1. PICK e \in Lasts : s = <<"force", e>>
    BY <1>2 DEF ForceAhead
  <2> QED BY <2>1
<1>3. CASE Quiet(s)
  <2>1. PICK e \in Lasts : \/ s = <<e>> \/ s = <<"status", "note", e>>
                           \/ s = <<"note", e>> \/ s = <<"mii", e>> \/ s = <<"nvm", e>>
    BY <1>3 DEF Quiet
  <2> QED BY <2>1
<1> QED BY <1>1, <1>2, <1>3

(* Whoever gives up such a call is left with the last step. *)
LEMMA QuietGivesUp ==
  ASSUME Typed, NEW t \in Threads, GiveUp(t), Accessing(t) \/ At(t, "force"),
         LET s == call[t].todo IN ReadAhead(s) \/ ForceAhead(s) \/ Quiet(s)
  PROVE  /\ \E e \in Lasts : call'[t].todo = <<e>>
         /\ \A u \in Threads : u # t => call'[u] = call[u]
         /\ call' \in [Threads -> CallType]
<1> DEFINE s == call[t].todo
<1>1. s # <<>>
  BY DEF Accessing, At, Idle
<1>2. PICK e \in Lasts :
           \/ Head(s) = "force" /\ s = <<"force", "complete", "abilities", "force", e>>
           \/ Head(s) = "complete" /\ s = <<"complete", "abilities", "force", e>>
           \/ Head(s) = "abilities" /\ s = <<"abilities", "force", e>>
           \/ Head(s) = "force" /\ s = <<"force", e>>
           \/ Head(s) = e /\ s = <<e>>
           \/ Head(s) = "status" /\ s = <<"status", "note", e>>
           \/ Head(s) = "note" /\ s = <<"note", e>>
           \/ Head(s) = "mii" /\ s = <<"mii", e>>
           \/ Head(s) = "nvm" /\ s = <<"nvm", e>>
  BY <1>1, Forms
<1>3. e \in Always /\ e \notin Accesses /\ e # "force"
  BY LastsAlways DEF Lasts
<1>4. Head(s) # e
  BY <1>3 DEF Accessing, At
<1>5. /\ "complete" \notin Always /\ "abilities" \notin Always /\ "force" \notin Always
      /\ "note" \notin Always
  BY DEF Always
<1>6. Len(s) > 1 /\ s[Len(s)] = e /\ \A k \in 2..(Len(s) - 1) : s[k] \notin Always
  <2> HIDE DEF s
  <2>1. CASE s = <<"force", "complete", "abilities", "force", e>>
    BY <1>5, <2>1
  <2>2. CASE s = <<"complete", "abilities", "force", e>>
    BY <1>5, <2>2
  <2>3. CASE s = <<"abilities", "force", e>>
    BY <1>5, <2>3
  <2>4. CASE s = <<"status", "note", e>>
    BY <1>5, <2>4
  <2>5. ASSUME NEW a, s = <<a, e>>
        PROVE  Len(s) > 1 /\ s[Len(s)] = e /\ \A k \in 2..(Len(s) - 1) : s[k] \notin Always
    BY <2>5
  <2> QED BY <1>2, <1>4, <2>1, <2>2, <2>3, <2>4, <2>5
<1>7. call'[t].todo = <<e>> /\ (\A u \in Threads : u # t => call'[u] = call[u])
        /\ call' \in [Threads -> CallType]
  BY <1>3, <1>6, LeftWithLast
<1> QED BY <1>7

(* What is good for a link depends on what its partners have said. *)
LEMMA ResolvedGood ==
  ASSUME LinkTyped
  PROVE  Good(IF phy.lp.full THEN Resolved(phy.adv, phy.lp.pause, mac.requested) ELSE {})
<1> DEFINE adv == phy.adv
           lp == phy.lp.pause
           f == Resolved(adv, lp, mac.requested)
<1>1. f \in {Full, {"rx"}, {"tx"}, {}}
  BY DEF Resolved
<1>2. ASSUME "tx" \in f PROVE Heeds(lp, adv)
  <2> HIDE DEF f
  <2>1. ("pause" \in adv /\ "pause" \in lp) \/ (adv = {"asm"} /\ lp = {"pause", "asm"})
    <3> SUFFICES ASSUME ~("pause" \in adv /\ "pause" \in lp),
                        ~(adv = {"asm"} /\ lp = {"pause", "asm"})
                 PROVE  FALSE
      OBVIOUS
    <3>1. f = {"rx"} \/ f = {}
      BY DEF f, Resolved
    <3> QED BY <1>2, <3>1
  <2> QED BY <2>1 DEF Heeds
<1>3. f # Default /\ {} # Default
  BY <1>1 DEF Full, Default
<1> HIDE DEF f
<1> QED BY <1>2, <1>3 DEF Good, f

LEMMA NothingGood == Good({})
BY DEF Good, Default

-----------------------------------------------------------------------------
(* A step that leaves the NIC alone, and of whose thread nothing was       *)
(* expected, or as much as before, changes nothing.                        *)
LEMMA StillCovered ==
  ASSUME Covered, NEW t \in Threads,
         \A u \in Threads : u # t => call'[u] = call[u],
         phy' = phy, mac'.fc = mac.fc, mac'.current = mac.current,
         LET s == call[t].todo
             r == call'[t].todo
         IN  /\ Reinits(s) => Reinits(r)
             /\ ReadAhead(s) => ReadAhead(r)
             /\ ForceAhead(s) => ForceAhead(r)
  PROVE  Covered'
<1>2. /\ \A u \in Threads : Reinits(call[u].todo) => Reinits(call'[u].todo)
      /\ \A u \in Threads : ReadAhead(call[u].todo) => ReadAhead(call'[u].todo)
      /\ \A u \in Threads : ForceAhead(call[u].todo) => ForceAhead(call'[u].todo)
  OBVIOUS
<1>3. (Good(mac.current))' <=> Good(mac.current)
  BY DEF Good
<1>4. (Good(mac.fc))' <=> Good(mac.fc)
  BY DEF Good
<1> QED BY <1>2, <1>3, <1>4 DEF Covered

-----------------------------------------------------------------------------
(* A set-up of the link goes on until igb_up() asks for the link to be     *)
(* looked at.                                                              *)
NoUp == Seq(Steps \ {"up"})

LEMMA PrefixReinits ==
  ASSUME NEW a \in NoUp, NEW r \in Seq(Steps), Reinits(r)
  PROVE  a \o r \in Seq(Steps) /\ Reinits(a \o r)
<1> DEFINE s == a \o r
           la == Len(a)
           lr == Len(r)
<1>1. /\ a \in Seq(Steps) /\ la \in Nat /\ lr \in Nat /\ lr > 0
      /\ \A k \in 1..la : a[k] # "up"
      /\ \A k \in 1..lr : r[k] = "up" <=> k = lr
  BY DEF NoUp, Reinits
<1>2. /\ s \in Seq(Steps) /\ Len(s) = la + lr
      /\ \A k \in 1..(la + lr) : s[k] = IF k <= la THEN a[k] ELSE r[k - la]
  BY <1>1
<1> HIDE DEF s, la, lr
<1>3. \A k \in 1..(la + lr) : s[k] = "up" <=> k = la + lr
  <2> SUFFICES ASSUME NEW k \in 1..(la + lr) PROVE s[k] = "up" <=> k = la + lr
    OBVIOUS
  <2>1. CASE k <= la
    BY <1>1, <1>2, <2>1
  <2>2. CASE ~(k <= la)
    <3>1. k - la \in 1..lr /\ (k - la = lr <=> k = la + lr)
      BY <1>1, <2>2
    <3> QED BY <1>1, <1>2, <2>2, <3>1
  <2> QED BY <2>1, <2>2
<1>4. s # <<>>
  BY <1>1, <1>2
<1>5. Reinits(s)
  BY <1>2, <1>3, <1>4 DEF Reinits
<1> QED BY <1>2, <1>5 DEF s

LEMMA ConfigFcNoUp == \A auto \in BOOLEAN : ConfigFc(auto) \in NoUp
<1>1. /\ "force" \in Steps \ {"up"} /\ "complete" \in Steps \ {"up"} /\ "abilities" \in Steps \ {"up"}
  BY StepNames DEF Accesses
<1> DEFINE P == Steps \ {"up"}
<1> SUFFICES ASSUME NEW auto \in BOOLEAN PROVE ConfigFc(auto) \in Seq(P)
  BY DEF NoUp
<1> HIDE DEF P
<1>2. <<"force">> \in Seq(P) /\ <<"complete", "abilities", "force">> \in Seq(P) /\ <<>> \in Seq(P)
  BY <1>1 DEF P
<1> QED BY <1>2 DEF ConfigFc

LEMMA ReinitReinits ==
  ASSUME NEW auto \in BOOLEAN, NEW blocked \in BOOLEAN
  PROVE  Reinit(auto, blocked) \in Seq(Steps) /\ Reinits(Reinit(auto, blocked))
<1> DEFINE P == Steps \ {"up"}
<1>1. /\ "down" \in P /\ "reset" \in P /\ "reset_blocked" \in P /\ "force" \in P
      /\ Accesses \subseteq P
  BY StepNames DEF Accesses
<1>2. /\ <<"down">> \in Seq(P) /\ <<"reset_blocked">> \in Seq(P) /\ <<"reset">> \in Seq(P)
      /\ <<"advertise", "restart">> \in Seq(P) /\ <<"status">> \in Seq(P)
  <2>1. "advertise" \in P /\ "restart" \in P /\ "status" \in P
    BY <1>1 DEF Accesses
  <2> HIDE DEF P
  <2> QED BY <1>1, <2>1
<1>3. SetupPhy \in Seq(P)
  <2>1. "config" \in P /\ "soft_reset" \in P /\ "phy_reset" \in P
    BY <1>1 DEF Accesses
  <2> HIDE DEF P
  <2> QED BY <2>1, PhyAssumption DEF SetupPhy, SetupM88, SetupIgp, Setup82580
<1>4. ForcePhy \in Seq(P)
  <2>1. "config" \in P /\ "soft_reset" \in P /\ "force_phy" \in P
    BY <1>1 DEF Accesses
  <2> HIDE DEF P
  <2> QED BY <2>1, PhyAssumption DEF ForcePhy, ForceM88, ForceIgp, Force82580
<1>5. ConfigFc(auto) \in Seq(P)
  BY ConfigFcNoUp DEF NoUp
<1> DEFINE middle == IF auto THEN <<"advertise", "restart">> ELSE ForcePhy
           body == <<"down">> \o (IF blocked THEN <<"reset_blocked">> ELSE <<"reset">> \o SetupLink(auto))
           last == <<"info", "up">>
<1>6. body \in Seq(P)
  <2> HIDE DEF P
  <2>1. middle \in Seq(P)
    BY <1>2, <1>4
  <2>2. SetupLink(auto) = SetupPhy \o middle \o <<"status">> \o ConfigFc(auto)
    BY Zenon DEF SetupLink
  <2> HIDE DEF middle
  <2>3. SetupLink(auto) \in Seq(P)
    BY <1>2, <1>3, <1>5, <2>1, <2>2
  <2> QED BY <1>2, <2>3
<1>7. last \in Seq(Steps) /\ Reinits(last)
  <2>1. "info" \in Steps /\ "up" \in Steps
    BY StepNames DEF Always
  <2>2. last # <<>> /\ Len(last) = 2 /\ last[1] # "up" /\ last[2] = "up"
    OBVIOUS
  <2> QED BY <2>1, <2>2 DEF Reinits
<1>8. Reinit(auto, blocked) = body \o last
  BY Zenon DEF Reinit
<1> HIDE DEF body, last
<1> QED BY <1>6, <1>7, <1>8, PrefixReinits DEF NoUp

LEMMA ReinitKeeps ==
  ASSUME Typed, LinkTyped, SyncInv, NEW t \in Threads, Reinits(call[t].todo), Step(t)
  PROVE  /\ \A u \in Threads : u # t => call'[u] = call[u]
         /\ Reinits(call'[t].todo) \/ (mac'.getlink /\ call'[t].todo = <<>>)
<1> DEFINE s == call[t].todo
<1>1. s \in Seq(Steps) /\ s # <<>> /\ ~Idle(t) /\ Len(s) \in Nat /\ Len(s) > 0 /\ Head(s) = s[1]
  BY DEF Typed, CallType, Reinits, Idle
<1>2. CASE Head(s) # "up" /\ (Done(t) \/ GiveUp(t))
  BY <1>2, ReinitGoesOn
<1>3. CASE Head(s) # "up" /\ Acquire(t) /\ ~GiveUp(t)
  <2>1. call' = [call EXCEPT ![t].in = TRUE]
    BY <1>3 DEF Acquire
  <2>2. call'[t].todo = s /\ \A u \in Threads : u # t => call'[u] = call[u]
    BY <2>1 DEF Typed, CallType
  <2> QED BY <2>2
<1>4. CASE Head(s) # "up" /\ Note(t)
  <2> DEFINE first == IF mac.auto THEN ConfigFc(TRUE) ELSE <<>>
             r == Tail(s)
  <2>1. first \in NoUp
    <3>1. ConfigFc(TRUE) \in NoUp
      BY ConfigFcNoUp
    <3>2. <<>> \in NoUp
      BY DEF NoUp
    <3> QED BY <3>1, <3>2, Zenon
  <2>2. r \in Seq(Steps) /\ Reinits(r)
    BY <1>1, <1>4, TailReinits
  <2>3. Begin(t, first \o r)
    BY <1>4 DEF Note, Expand
  <2> HIDE DEF first, r
  <2> DEFINE q == first \o r
  <2>4. q \in Seq(Steps) /\ Reinits(q)
    BY <2>1, <2>2, PrefixReinits
  <2> HIDE DEF q
  <2>5. call'[t] = [todo |-> q, in |-> FALSE] /\ \A u \in Threads : u # t => call'[u] = call[u]
    BY <2>3, <2>4, Begun, Zenon DEF q
  <2> QED BY <2>4, <2>5
<1>5. Done(t) \/ GiveUp(t) \/ Acquire(t) \/ Note(t)
  BY DEF Step, Access, UseFails, PhyReset, UseQuietly, Advertise, Restart,
     ForceSpeed, ReadStatus, ReadAbilities, Ends, Down, ResetMac, ResetBlocked, ForceMacFc,
     Up, Report, End
<1>6. CASE Head(s) = "up"
  <2>1. ~Accessing(t) /\ ~call[t].in
    BY <1>6 DEF Accessing, Accesses, SyncInv
  <2>2. ~Access(t)
    BY <2>1 DEF Access, Acquire, UseFails, PhyReset, UseQuietly, Advertise, Restart,
       ForceSpeed, ReadStatus, ReadAbilities, In
  <2>3. Up(t)
    BY <1>6, <2>2 DEF Step, Down, ResetMac, ResetBlocked, Note, ForceMacFc, Report, End, At
  <2>4. mac'.getlink
    BY <2>3 DEF Up, LinkTyped, MacType
  <2>5. Tail(s) = <<>>
    <3>1. \A k \in 1..Len(s) : s[k] = "up" <=> k = Len(s)
      BY DEF Reinits
    <3> HIDE DEF s
    <3>2. 1 \in 1..Len(s) /\ s[1] = "up"
      BY <1>1, <1>6
    <3>3. Len(s) = 1
      BY <3>1, <3>2
    <3> DEFINE r == Tail(s)
    <3>4. r \in Seq(Steps) /\ Len(r) = 0
      BY <1>1, <3>3
    <3> HIDE DEF r
    <3>5. r = <<>>
      BY <3>4
    <3> QED BY <3>5 DEF r
  <2>7. call'[t].todo = Tail(s) /\ \A u \in Threads : u # t => call'[u] = call[u]
    BY <1>1, <2>3, GoneOn DEF Up
  <2> QED BY <2>4, <2>5, <2>7
<1> QED BY <1>2, <1>3, <1>4, <1>5, <1>6

-----------------------------------------------------------------------------
(* The steps of the other calls. *)
Simple(s) == ReadAhead(s) \/ ForceAhead(s) \/ Quiet(s)

LEMMA NotAhead ==
  ASSUME NEW s, Simple(s), s # <<>> => Head(s) \notin {"force", "complete", "abilities"}
  PROVE  Quiet(s) /\ ~ReadAhead(s) /\ ~ForceAhead(s)
<1>1. ~ReadAhead(s)
  <2> SUFFICES ASSUME ReadAhead(s) PROVE FALSE
    OBVIOUS
  <2>1. PICK e \in Lasts : \/ s = <<"force", "complete", "abilities", "force", e>>
                           \/ s = <<"complete", "abilities", "force", e>>
                           \/ s = <<"abilities", "force", e>>
    BY DEF ReadAhead
  <2> QED BY <2>1
<1>2. ~ForceAhead(s)
  <2> SUFFICES ASSUME ForceAhead(s) PROVE FALSE
    OBVIOUS
  <2>1. PICK e \in Lasts : s = <<"force", e>>
    BY DEF ForceAhead
  <2> QED BY <2>1
<1> QED BY <1>1, <1>2 DEF Simple

LEMMA LastQuiet == \A e \in Lasts : Quiet(<<e>>)
BY DEF Quiet

(* Of steps that leave the link alone. *)
LEMMA Unmoved ==
  ASSUME Fresh => Covered, NEW t \in Threads,
         \A u \in Threads : u # t => call'[u] = call[u],
         phy' = phy, mac'.fc = mac.fc, mac'.current = mac.current, Fresh' => Fresh,
         ~Reinits(call[t].todo) \/ Reinits(call'[t].todo),
         ~ReadAhead(call[t].todo) \/ ReadAhead(call'[t].todo),
         ~ForceAhead(call[t].todo) \/ ForceAhead(call'[t].todo)
  PROVE  Fresh' => Covered'
BY StillCovered

(* Giving up is remembered in `missed', unless the call had nothing to do  *)
(* with pauses or there is no negotiated link.                             *)
LEMMA GiveUpCovered ==
  ASSUME Typed, Fresh => Covered, NEW t \in Threads, Simple(call[t].todo), ~Reinits(call[t].todo),
         GiveUp(t), Accessing(t),
         phy' = phy, mac' = mac, dev' = dev,
         missed' = Missed(t) \/ (missed' = missed /\ (Head(call[t].todo) = "status" \/ ~phy.link \/ ~phy.auto))
  PROVE  Simple(call'[t].todo) /\ (\A u \in Threads : u # t => call'[u] = call[u]) /\ (Fresh' => Covered')
<1> DEFINE s == call[t].todo
           r == call'[t].todo
<1>1. PICK e \in Lasts : r = <<e>> /\ \A u \in Threads : u # t => call'[u] = call[u]
  BY QuietGivesUp DEF Simple
<1>2. Simple(r)
  BY <1>1, LastQuiet DEF Simple
<1>3. CASE Head(s) \in {"status", "mii", "nvm"}
  <2>1. ~ReadAhead(s) /\ ~ForceAhead(s)
    BY <1>3, NotAhead
  <2>2. Fresh' => Fresh
    BY <1>3 DEF Fresh, Missed
  <2> QED BY <1>1, <1>2, <2>1, <2>2, Unmoved
<1>4. CASE Head(s) \notin {"status", "mii", "nvm"}
  <2>1. Head(s) # "info"
    <3>1. s # <<>>
      BY DEF Accessing, Idle
    <3> QED BY <3>1, Forms DEF Simple, Lasts
  <2>2. ~Fresh'
    BY <1>4, <2>1 DEF Fresh, Missed
  <2> QED BY <1>1, <1>2, <2>2
<1> QED BY <1>3, <1>4

LEMMA AccessSimple ==
  ASSUME Typed, LinkTyped, SyncInv, Fresh => Covered, NEW t \in Threads,
         Simple(call[t].todo), ~Reinits(call[t].todo), Access(t)
  PROVE  /\ Simple(call'[t].todo)
         /\ \A u \in Threads : u # t => call'[u] = call[u]
         /\ Fresh' => Covered'
<1> DEFINE s == call[t].todo
           r == call'[t].todo
<1>1. /\ Accessing(t) /\ ~Idle(t) /\ s # <<>>
      /\ Head(s) \in Accesses
  <2>1. Accessing(t)
    BY DEF Access, Acquire, UseFails, PhyReset, UseQuietly, Advertise, Restart, ForceSpeed,
       ReadStatus, ReadAbilities, In, SyncInv
  <2> QED BY <2>1 DEF Accessing, Idle
<1>2. PICK e \in Lasts :
        \/ Head(s) = "complete" /\ s = <<"complete", "abilities", "force", e>>
        \/ Head(s) = "abilities" /\ s = <<"abilities", "force", e>>
        \/ Head(s) = "status" /\ s = <<"status", "note", e>>
        \/ Head(s) = "mii" /\ s = <<"mii", e>>
        \/ Head(s) = "nvm" /\ s = <<"nvm", e>>
  <2>1. "force" \notin Accesses /\ "note" \notin Accesses
    BY DEF Accesses
  <2> QED BY <1>1, <2>1, Forms, LastsAlways DEF Simple
<1>3. ASSUME GiveUp(t), phy' = phy, mac' = mac, dev' = dev,
             missed' = Missed(t) \/ (missed' = missed /\ (Head(s) = "status" \/ ~phy.link \/ ~phy.auto))
      PROVE  Simple(r) /\ (\A u \in Threads : u # t => call'[u] = call[u]) /\ (Fresh' => Covered')
  BY <1>1, <1>3, GiveUpCovered
<1>4. ASSUME Done(t), phy' = phy, mac' = mac, dev' = dev, missed' = missed, Head(s) # "abilities"
      PROVE  Simple(r) /\ (\A u \in Threads : u # t => call'[u] = call[u]) /\ (Fresh' => Covered')
  <2>1. r = Tail(s) /\ \A u \in Threads : u # t => call'[u] = call[u]
    BY <1>1, <1>4, GoneOn
  <2>2. Fresh' => Fresh
    BY <1>4 DEF Fresh
  <2>3. CASE Head(s) = "complete"
    <3>1. s = <<"complete", "abilities", "force", e>>
      BY <1>2, <2>3
    <3>2. r = <<"abilities", "force", e>>
      BY <2>1, <3>1, Tails
    <3>3. ReadAhead(r)
      BY <3>2 DEF ReadAhead
    <3> QED BY <2>1, <3>3 DEF Simple, Covered
  <2>4. CASE Head(s) # "complete"
    <3>1. ~ReadAhead(s) /\ ~ForceAhead(s)
      BY <1>2, <1>4, <2>4, NotAhead
    <3>2. r = <<"note", e>> \/ r = <<e>>
      <4> HIDE DEF s, r
      <4>1. s = <<"status", "note", e>> \/ s = <<"mii", e>> \/ s = <<"nvm", e>>
        BY <1>2, <1>4, <2>4
      <4>2. CASE s = <<"status", "note", e>>
        BY <2>1, <4>2, Tails, Zenon
      <4>3. CASE s = <<"mii", e>>
        BY <2>1, <4>3, Tails, Zenon
      <4>4. CASE s = <<"nvm", e>>
        BY <2>1, <4>4, Tails, Zenon
      <4> QED BY <4>1, <4>2, <4>3, <4>4
    <3>3. Simple(r)
      BY <3>2 DEF Simple, Quiet
    <3> QED BY <1>4, <2>1, <2>2, <3>1, <3>3, Unmoved
  <2> QED BY <2>3, <2>4
<1>5. CASE Acquire(t)
  <2>1. CASE GiveUp(t) /\ missed' = Missed(t)
    BY <1>3, <1>5, <2>1 DEF Acquire
  <2>2. CASE call' = [call EXCEPT ![t].in = TRUE] /\ missed' = missed
    <3>1. r = s /\ \A u \in Threads : u # t => call'[u] = call[u]
      BY <2>2 DEF Typed, CallType
    <3>2. phy' = phy /\ mac' = mac /\ dev' = dev
      BY <1>5 DEF Acquire
    <3>3. Fresh' => Fresh
      BY <2>2, <3>2 DEF Fresh
    <3> QED BY <3>1, <3>2, <3>3, Unmoved
  <2> QED BY <1>5, <2>1, <2>2 DEF Acquire
<1>6. CASE UseFails(t)
  BY <1>3, <1>6 DEF UseFails
<1>7. CASE UseQuietly(t)
  BY <1>2, <1>4, <1>7 DEF UseQuietly, Ends
<1>8. CASE ReadStatus(t)
  <2>1. CASE phy.link /\ (At(t, "complete") => phy.auto)
    BY <1>4, <1>8, <2>1 DEF ReadStatus
  <2>2. CASE ~(phy.link /\ (At(t, "complete") => phy.auto))
    BY <1>3, <1>8, <2>2 DEF ReadStatus, At
  <2> QED BY <2>1, <2>2
<1>9. CASE ReadAbilities(t)
  <2>1. s = <<"abilities", "force", e>>
    BY <1>2, <1>9 DEF ReadAbilities, In, At
  <2>2. r = <<"force", e>> /\ \A u \in Threads : u # t => call'[u] = call[u]
    <3>1. r = Tail(s) /\ \A u \in Threads : u # t => call'[u] = call[u]
      BY <1>1, <1>9, GoneOn DEF ReadAbilities, Ends
    <3> HIDE DEF s, r
    <3> QED BY <2>1, <3>1, Tails, Zenon
  <2>3. ForceAhead(r)
    BY <2>2 DEF ForceAhead
  <2> DEFINE f == IF phy.lp.full THEN Resolved(phy.adv, phy.lp.pause, mac.requested) ELSE {}
  <2>4. mac'.current = f /\ phy' = phy
    BY <1>9 DEF ReadAbilities, LinkTyped, MacType
  <2>5. Good(f)
    BY ResolvedGood
  <2> HIDE DEF f
  <2>6. Good(mac.current)'
    BY <2>4, <2>5 DEF Good
  <2> QED BY <2>2, <2>3, <2>6 DEF Simple, Covered
<1>10. ~PhyReset(t) /\ ~Advertise(t) /\ ~Restart(t) /\ ~ForceSpeed(t)
  BY <1>2 DEF PhyReset, Advertise, Restart, ForceSpeed, In, At
<1> QED BY <1>5, <1>6, <1>7, <1>8, <1>9, <1>10 DEF Access

LEMMA StepSimple ==
  ASSUME Typed, LinkTyped, SyncInv, CurrentInv, Fresh => Covered, NEW t \in Threads,
         Simple(call[t].todo), ~Reinits(call[t].todo), Step(t)
  PROVE  /\ Simple(call'[t].todo)
         /\ \A u \in Threads : u # t => call'[u] = call[u]
         /\ Fresh' => Covered'
<1> DEFINE s == call[t].todo
           r == call'[t].todo
<1>1. CASE Access(t)
  BY <1>1, AccessSimple
<1>2. CASE Note(t)
  <2>1. s # <<>> /\ Head(s) = "note" /\ ~Idle(t)
    BY <1>2 DEF Note, At, Idle
  <2>2. PICK e \in Lasts : s = <<"note", e>>
    BY <2>1, Forms DEF Simple, Lasts
  <2> DEFINE q == (IF mac.auto THEN ConfigFc(TRUE) ELSE <<>>) \o Tail(s)
  <2>3. Tail(s) = <<e>> /\ e \in Steps
    BY <2>2, Tails, StepNames, LastsAlways
  <2>4. q = IF mac.auto THEN <<"force", "complete", "abilities", "force", e>> ELSE <<e>>
    <3>1. CASE mac.auto
      <4>1. q = ConfigFc(TRUE) \o <<e>>
        BY <2>3, <3>1
      <4>2. ConfigFc(TRUE) \o <<e>> = <<"force", "complete", "abilities", "force", e>>
        BY <2>3, ConfigFcSteps
      <4> HIDE DEF q
      <4>3. q = <<"force", "complete", "abilities", "force", e>>
        BY <4>1, <4>2, Zenon
      <4> QED BY <3>1, <4>3, Zenon
    <3>2. CASE ~mac.auto
      BY <2>3, <3>2
    <3> HIDE DEF q
    <3> QED BY <3>1, <3>2, Zenon
  <2>5. Begin(t, q)
    BY <1>2 DEF Note, Expand
  <2> HIDE DEF q
  <2>6. q \in Seq(Steps)
    <3>1. "force" \in Steps /\ "complete" \in Steps /\ "abilities" \in Steps
      BY StepNames DEF Accesses
    <3> QED BY <2>3, <2>4, <3>1
  <2>7. call'[t] = [todo |-> q, in |-> FALSE] /\ \A u \in Threads : u # t => call'[u] = call[u]
    BY <2>5, <2>6, Begun, Zenon
  <2>8. r = q
    BY <2>7
  <2>9. CASE mac.auto
    <3>1. ReadAhead(r)
      BY <2>4, <2>8, <2>9 DEF ReadAhead
    <3> QED BY <2>7, <3>1 DEF Simple, Covered
  <2>10. CASE ~mac.auto
    <3>1. Simple(r)
      BY <2>4, <2>8, <2>10, LastQuiet DEF Simple
    <3>2. ~Fresh'
      BY <1>2, <2>10 DEF Note, Fresh, LinkTyped, MacType
    <3> QED BY <2>7, <3>1, <3>2
  <2> QED BY <2>9, <2>10
<1>3. CASE ForceMacFc(t)
  <2>1. s # <<>> /\ Head(s) = "force" /\ ~Idle(t)
    BY <1>3 DEF ForceMacFc, At, Idle
  <2>2. PICK e \in Lasts : s = <<"force", e>> \/ s = <<"force", "complete", "abilities", "force", e>>
    BY <2>1, Forms DEF Simple, Lasts
  <2>3. CASE mac.current = Default
    <3>1. GiveUp(t) /\ mac' = mac /\ phy' = phy /\ dev' = dev /\ missed' = missed
      BY <1>3, <2>3 DEF ForceMacFc
    <3>2. PICK d \in Lasts : r = <<d>> /\ \A u \in Threads : u # t => call'[u] = call[u]
      BY <1>3, <3>1, QuietGivesUp DEF ForceMacFc, Simple
    <3>3. Good({})' /\ mac'.fc = {} /\ mac'.current = Default
      BY <2>3, <3>1 DEF CurrentInv, Good, Default
    <3>4. Good(mac.fc)'
      BY <3>3 DEF Good
    <3>5. Covered'
      BY <3>3, <3>4 DEF Covered
    <3> QED BY <3>2, <3>5, LastQuiet DEF Simple
  <2>4. CASE mac.current # Default
    <3>1. /\ Done(t) /\ phy' = phy /\ dev' = dev /\ missed' = missed
          /\ mac' = [mac EXCEPT !.fc = mac.current]
      BY <1>3, <2>4 DEF ForceMacFc
    <3>2. r = Tail(s) /\ \A u \in Threads : u # t => call'[u] = call[u]
      BY <2>1, <3>1, GoneOn
    <3>3. /\ mac'.fc = mac.current /\ mac'.current = mac.current /\ mac'.getlink = mac.getlink
          /\ mac'.lsc = mac.lsc /\ mac'.auto = mac.auto
      BY <3>1 DEF LinkTyped, MacType
    <3>4. Fresh' => Fresh
      BY <3>1, <3>3 DEF Fresh
    <3>5. CASE s = <<"force", "complete", "abilities", "force", e>>
      <4>1. r = <<"complete", "abilities", "force", e>>
        BY <3>2, <3>5, Tails
      <4>2. ReadAhead(r)
        BY <4>1 DEF ReadAhead
      <4> QED BY <3>2, <4>2 DEF Simple, Covered
    <3>6. CASE s = <<"force", e>>
      <4>1. r = <<e>>
        BY <3>2, <3>6, Tails
      <4>2. ~ReadAhead(s)
        <5> SUFFICES ASSUME ReadAhead(s) PROVE FALSE
          OBVIOUS
        <5>1. PICK d \in Lasts : \/ s = <<"force", "complete", "abilities", "force", d>>
                                 \/ s = <<"complete", "abilities", "force", d>>
                                 \/ s = <<"abilities", "force", d>>
          BY DEF ReadAhead
        <5>2. Len(s) > 2 /\ Len(s) = 2
          BY <3>6, <5>1
        <5> QED BY <5>2
      <4>3. ASSUME Good(mac.current) PROVE Covered'
        <5>1. Good(mac.current)' /\ Good(mac.fc)'
          BY <3>1, <3>3, <4>3 DEF Good
        <5> QED BY <5>1 DEF Covered
      <4>4. ASSUME NEW u \in Threads, Reinits(call[u].todo) \/ ReadAhead(call[u].todo) PROVE Covered'
        <5>1. call'[u] = call[u]
          BY <3>2, <4>2, <4>4
        <5> QED BY <4>4, <5>1 DEF Covered
      <4>5. Fresh' => Covered'
        BY <2>4, <3>4, <4>3, <4>4 DEF Covered
      <4> QED BY <3>2, <4>1, <4>5, LastQuiet DEF Simple
    <3> QED BY <2>2, <3>5, <3>6
  <2> QED BY <2>3, <2>4
<1>4. CASE Report(t) \/ End(t)
  <2>1. /\ s # <<>> /\ Head(s) \in Lasts /\ ~Idle(t) /\ Done(t)
        /\ phy' = phy /\ mac' = mac /\ missed' = missed
    BY <1>4 DEF Report, End, At, Idle, Lasts
  <2>2. dev'.down = dev.down
    BY <1>4 DEF Report, End, Typed, DevType
  <2>3. PICK e \in Lasts : s = <<e>>
    BY <2>1, Forms DEF Simple, Lasts
  <2>4. r = <<>> /\ \A u \in Threads : u # t => call'[u] = call[u]
    BY <2>1, <2>3, GoneOn, Tails
  <2>5. Simple(r)
    BY <2>4 DEF Simple, Quiet
  <2>6. ~ReadAhead(s) /\ ~ForceAhead(s)
    BY <2>1, NotAhead DEF Lasts
  <2>7. Fresh' => Fresh
    BY <2>1, <2>2 DEF Fresh
  <2> QED BY <2>1, <2>4, <2>5, <2>6, <2>7, Unmoved
<1>5. ~Down(t) /\ ~ResetMac(t) /\ ~ResetBlocked(t) /\ ~Up(t)
  <2> SUFFICES ASSUME s # <<>>, Head(s) \in {"down", "reset", "reset_blocked", "up"} PROVE FALSE
    BY DEF Down, ResetMac, ResetBlocked, Up, At, Idle
  <2> QED BY Forms DEF Simple, Lasts
<1> QED BY <1>1, <1>2, <1>3, <1>4, <1>5 DEF Step

-----------------------------------------------------------------------------
LEMMA AdvertisedType == \A mode : Advertised(mode) \in Abilities
BY DEF Advertised, Abilities

LEMMA PauseTyped ==
  ASSUME LinkTyped, [Next]_vars
  PROVE  LinkTyped'
<1>0. ASSUME NEW t \in Threads, Step(t) PROVE LinkTyped'
  <2>1. CASE Acquire(t) \/ UseFails(t)
    BY <2>1 DEF Acquire, UseFails, LinkTyped, Missed
  <2>2. CASE PhyReset(t)
    BY <2>2 DEF PhyReset, LinkTyped, PhyState, MacType, Abilities
  <2>3. CASE UseQuietly(t) \/ ReadStatus(t) \/ Down(t) \/ Report(t) \/ End(t)
    BY <2>3 DEF UseQuietly, ReadStatus, Down, Report, End, LinkTyped
  <2>4. CASE Advertise(t)
    BY <2>4, AdvertisedType DEF Advertise, LinkTyped, PhyState
  <2>5. CASE Restart(t)
    BY <2>5 DEF Restart, LinkTyped, PhyState, MacType
  <2>6. CASE ForceSpeed(t)
    BY <2>6 DEF ForceSpeed, LinkTyped, PhyState, MacType, Pauses
  <2>7. CASE ReadAbilities(t)
    <3> DEFINE f == IF phy.lp.full THEN Resolved(phy.adv, phy.lp.pause, mac.requested) ELSE {}
    <3>1. f \in Pauses
      BY DEF Resolved, Full, Pauses
    <3>2. mac' = [mac EXCEPT !.current = f] /\ phy' = phy /\ missed' = missed
      BY <2>7 DEF ReadAbilities
    <3> HIDE DEF f
    <3> QED BY <3>1, <3>2 DEF LinkTyped, MacType
  <2>8. CASE ResetMac(t) \/ ResetBlocked(t)
    <3>1. NvmPause \in Pauses
      BY PauseAssumption DEF Pauses, Full
    <3>2. PICK mode \in Pauses \union {Default} :
            mac' = [mac EXCEPT !.fc = {}, !.lsc = FALSE, !.requested = mode, !.current = mode]
      BY <2>8, <3>1 DEF ResetMac, ResetBlocked, ResetTo, LinkTyped, MacType
    <3>3. phy' = phy /\ missed' = missed
      BY <2>8 DEF ResetMac, ResetBlocked
    <3>4. {} \in Pauses
      BY DEF Pauses
    <3> QED BY <3>2, <3>3, <3>4 DEF LinkTyped, MacType
  <2>9. CASE Note(t)
    BY <2>9 DEF Note, LinkTyped, MacType
  <2>10. CASE ForceMacFc(t)
    BY <2>10 DEF ForceMacFc, LinkTyped, MacType
  <2>11. CASE Up(t)
    BY <2>11 DEF Up, LinkTyped, MacType
  <2> QED
    BY <1>0, <2>1, <2>2, <2>3, <2>4, <2>5, <2>6, <2>7, <2>8, <2>9, <2>10, <2>11 DEF Step, Access
<1>1. CASE CallReinit
  BY <1>1 DEF CallReinit, LinkTyped, MacType
<1>2. CASE CallPause
  BY <1>2, PauseAssumption DEF CallPause, LinkTyped, MacType
<1>3. CASE CallGetLink
  <2>1. (mac.getlink \/ ~dev.carrier) \in BOOLEAN
    OBVIOUS
  <2> QED BY <1>3, <2>1 DEF CallGetLink, LinkTyped, MacType
<1>4. CASE CallAccess \/ WatchdogTask \/ Firmware \/ UNCHANGED vars
  BY <1>4 DEF CallAccess, WatchdogTask, Firmware, vars, LinkTyped
<1>5. CASE Interrupt \/ LinkGoes
  BY <1>5 DEF Interrupt, LinkGoes, LinkTyped, MacType, PhyState
<1>6. CASE LinkComes
  BY <1>6 DEF LinkComes, LinkTyped, MacType, PhyState
<1> QED BY <1>0, <1>1, <1>2, <1>3, <1>4, <1>5, <1>6 DEF Next

LEMMA PauseCurrent ==
  ASSUME LinkTyped, CurrentInv, [Next]_vars
  PROVE  CurrentInv'
<1>0. ASSUME NEW t \in Threads, Step(t) PROVE CurrentInv'
  <2>1. CASE Acquire(t) \/ UseFails(t) \/ UseQuietly(t) \/ ReadStatus(t) \/ Down(t) \/ Report(t) \/ End(t)
             \/ Advertise(t)
    BY <2>1 DEF Acquire, UseFails, UseQuietly, ReadStatus, Down, Report, End, Advertise, CurrentInv
  <2>2. CASE PhyReset(t) \/ Restart(t) \/ Note(t) \/ Up(t)
    <3>1. mac'.current = mac.current /\ mac'.fc = mac.fc
      BY <2>2 DEF PhyReset, Restart, Note, Up, LinkTyped, MacType
    <3> QED BY <3>1 DEF CurrentInv
  <2>3. CASE ForceSpeed(t)
    <3>1. mac'.current = {}
      BY <2>3 DEF ForceSpeed, LinkTyped, MacType
    <3> QED BY <3>1 DEF CurrentInv, Default
  <2>4. CASE ReadAbilities(t)
    <3> DEFINE f == IF phy.lp.full THEN Resolved(phy.adv, phy.lp.pause, mac.requested) ELSE {}
    <3>1. Good(f)
      BY ResolvedGood
    <3>2. mac' = [mac EXCEPT !.current = f]
      BY <2>4 DEF ReadAbilities
    <3> HIDE DEF f
    <3>3. mac'.current = f
      BY <3>2 DEF LinkTyped, MacType
    <3> QED BY <3>1, <3>3 DEF CurrentInv, Good
  <2>5. CASE ResetMac(t) \/ ResetBlocked(t)
    <3>1. mac'.fc = {}
      BY <2>5 DEF ResetMac, ResetBlocked, ResetTo, LinkTyped, MacType
    <3> QED BY <3>1 DEF CurrentInv
  <2>6. CASE ForceMacFc(t)
    BY <2>6 DEF ForceMacFc, CurrentInv, LinkTyped, MacType
  <2> QED BY <1>0, <2>1, <2>2, <2>3, <2>4, <2>5, <2>6 DEF Step, Access
<1>1. CASE CallPause
  <2>1. PICK mode \in Requests :
          mac' = [mac EXCEPT !.requested = mode, !.current = mode, !.fc = mode]
    BY <1>1 DEF CallPause
  <2>2. mac'.current = mode
    BY <2>1 DEF LinkTyped, MacType
  <2>3. mode # Default
    BY PauseAssumption DEF Pauses, Default
  <2> QED BY <2>2, <2>3 DEF CurrentInv
<1>2. CASE CallReinit \/ CallGetLink \/ Interrupt \/ LinkGoes \/ LinkComes
  <2>1. mac'.current = mac.current /\ mac'.fc = mac.fc
    BY <1>2 DEF CallReinit, CallGetLink, Interrupt, LinkGoes, LinkComes, LinkTyped, MacType
  <2> QED BY <2>1 DEF CurrentInv
<1>3. CASE CallAccess \/ WatchdogTask \/ Firmware \/ UNCHANGED vars
  BY <1>3 DEF CallAccess, WatchdogTask, Firmware, vars, CurrentInv
<1> QED BY <1>0, <1>1, <1>2, <1>3 DEF Next

(* The steps that are no thread's. *)
LEMMA BeginCovered ==
  ASSUME Typed, Fresh => Covered, TodoInv, NEW t \in Threads, Idle(t), NEW s \in Seq(Steps),
         Quiet(s), Begin(t, s),
         phy' = phy, mac'.fc = mac.fc, mac'.current = mac.current, Fresh' => Fresh
  PROVE  TodoInv' /\ (Fresh' => Covered')
<1>1. call'[t].todo = s /\ \A u \in Threads : u # t => call'[u] = call[u]
  <2>1. call'[t] = [todo |-> s, in |-> FALSE] /\ \A u \in Threads : u # t => call'[u] = call[u]
    BY Begun, Zenon
  <2> QED BY <2>1
<1>2. call[t].todo = <<>>
  BY DEF Idle
<1>3. ~Reinits(call[t].todo) /\ ~ReadAhead(call[t].todo) /\ ~ForceAhead(call[t].todo)
  <2>1. Quiet(<<>>)
    BY DEF Quiet
  <2> QED BY <1>2, <2>1, NotAhead DEF Reinits, Simple
<1>4. TodoInv'
  BY <1>1 DEF TodoInv
<1> QED BY <1>1, <1>3, <1>4, Unmoved

LEMMA QuietBegins ==
  ASSUME NEW getlink, NEW last \in Lasts
  PROVE  HasLink(getlink) \o <<last>> \in Seq(Steps) /\ Quiet(HasLink(getlink) \o <<last>>)
<1>1. last \in Steps /\ "status" \in Steps /\ "note" \in Steps
  BY LastsAlways, StepNames DEF Accesses
<1>2. CASE getlink
  <2>1. <<"status", "note">> \o <<last>> = <<"status", "note", last>>
    <3> DEFINE a == <<"status", "note">>
               b == <<last>>
               s == a \o b
    <3>1. /\ a \in Seq(Steps) /\ Len(a) = 2 /\ a[1] = "status" /\ a[2] = "note"
          /\ b \in Seq(Steps) /\ Len(b) = 1 /\ b[1] = last
      BY <1>1
    <3> HIDE DEF a, b
    <3>2. /\ s \in Seq(Steps) /\ Len(s) = Len(a) + Len(b)
          /\ \A k \in 1..(Len(a) + Len(b)) : s[k] = IF k <= Len(a) THEN a[k] ELSE b[k - Len(a)]
      BY <3>1, ConcatProperties
    <3> HIDE DEF s
    <3>3. Len(s) = 3 /\ s[1] = "status" /\ s[2] = "note" /\ s[3] = last
      BY <3>1, <3>2
    <3>4. s = <<"status", "note", last>>
      <4>1. s \in Seq(Steps)
        BY <3>2
      <4> QED BY <3>3, <4>1
    <3> QED BY <3>4, Zenon DEF s, a, b
  <2>2. <<"status", "note", last>> \in Seq(Steps)
    BY <1>1
  <2>3. HasLink(getlink) \o <<last>> = <<"status", "note", last>>
    BY <1>2, <2>1 DEF HasLink
  <2> QED BY <2>2, <2>3 DEF Quiet
<1>3. CASE ~getlink
  <2>1. <<>> \o <<last>> = <<last>> /\ <<last>> \in Seq(Steps)
    BY <1>1
  <2>2. HasLink(getlink) \o <<last>> = <<last>>
    BY <1>3, <2>1 DEF HasLink
  <2> QED BY <2>1, <2>2 DEF Quiet
<1> QED BY <1>2, <1>3

LEMMA PauseStep ==
  ASSUME Typed, SyncInv, LinkTyped, TodoInv, CurrentInv, Fresh => Covered, [Next]_vars
  PROVE  TodoInv' /\ (Fresh' => Covered')
<1>1. ASSUME NEW t \in Threads, Step(t) PROVE TodoInv' /\ (Fresh' => Covered')
  <2> DEFINE s == call[t].todo
             r == call'[t].todo
  <2>1. CASE Reinits(s)
    <3>1. /\ \A u \in Threads : u # t => call'[u] = call[u]
          /\ Reinits(r) \/ (mac'.getlink /\ r = <<>>)
      BY <1>1, <2>1, ReinitKeeps
    <3>2. Reinits(r) \/ Quiet(r)
      BY <3>1 DEF Quiet
    <3>3. TodoInv'
      BY <3>1, <3>2 DEF TodoInv
    <3>4. Fresh' => Covered'
      BY <3>1 DEF Fresh, Covered
    <3> QED BY <3>3, <3>4
  <2>2. CASE ~Reinits(s)
    <3>1. Simple(s)
      BY <2>2 DEF TodoInv, Simple
    <3>2. Simple(r) /\ (\A u \in Threads : u # t => call'[u] = call[u]) /\ (Fresh' => Covered')
      BY <1>1, <2>2, <3>1, StepSimple
    <3>3. TodoInv'
      BY <3>2 DEF TodoInv, Simple
    <3> QED BY <3>2, <3>3
  <2> QED BY <2>1, <2>2
<1>2. "user" \in Threads /\ "watchdog" \in Threads /\ "end" \in Lasts /\ "report" \in Lasts
  BY DEF Threads, Lasts
<1>3. CASE CallReinit
  <2>1. PICK auto \in BOOLEAN, blocked \in BOOLEAN : Begin("user", Reinit(auto, blocked))
    BY <1>3 DEF CallReinit
  <2> DEFINE s == Reinit(auto, blocked)
  <2>2. s \in Seq(Steps) /\ Reinits(s)
    BY ReinitReinits
  <2> HIDE DEF s
  <2>3. call'["user"] = [todo |-> s, in |-> FALSE] /\ \A u \in Threads : u # "user" => call'[u] = call[u]
    BY <1>2, <2>1, <2>2, Begun, Zenon DEF s
  <2>4. call'["user"].todo = s
    BY <2>3
  <2>5. TodoInv'
    BY <2>2, <2>3, <2>4 DEF TodoInv
  <2> QED BY <1>2, <2>2, <2>4, <2>5 DEF Covered
<1>4. CASE CallGetLink
  <2> DEFINE getlink == mac.getlink \/ ~dev.carrier
             s == HasLink(getlink) \o <<"end">>
  <2>1. s \in Seq(Steps) /\ Quiet(s)
    BY <1>2, QuietBegins
  <2>2. Begin("user", s) /\ Idle("user") /\ mac' = [mac EXCEPT !.getlink = getlink]
        /\ phy' = phy /\ missed' = missed /\ dev' = dev
    BY <1>4 DEF CallGetLink
  <2>3. /\ mac'.fc = mac.fc /\ mac'.current = mac.current /\ mac'.getlink = getlink
        /\ mac'.lsc = mac.lsc /\ mac'.auto = mac.auto
    BY <2>2 DEF LinkTyped, MacType
  <2>4. Fresh' => Fresh
    BY <2>2, <2>3 DEF Fresh
  <2> HIDE DEF s
  <2> QED BY <1>2, <2>1, <2>2, <2>3, <2>4, BeginCovered
<1>5. CASE CallAccess
  <2>1. PICK step \in {"mii", "nvm"} : Begin("user", <<step, "end">>)
    BY <1>5 DEF CallAccess
  <2> DEFINE s == <<step, "end">>
  <2>2. s \in Seq(Steps) /\ Begin("user", s)
    BY <2>1, StepNames DEF Accesses, Always
  <2>3. Quiet(s)
    BY <1>2 DEF Quiet
  <2>4. Fresh' => Fresh
    BY <1>5 DEF CallAccess, Fresh
  <2> HIDE DEF s
  <2> QED BY <1>2, <1>5, <2>2, <2>3, <2>4, BeginCovered DEF CallAccess
<1>6. CASE WatchdogTask
  <2> DEFINE s == HasLink(mac.getlink) \o <<"report">>
  <2>1. s \in Seq(Steps) /\ Quiet(s) /\ Begin("watchdog", s)
    BY <1>2, <1>6, QuietBegins DEF WatchdogTask
  <2>2. dev'.down = dev.down
    BY <1>6 DEF WatchdogTask, Typed, DevType
  <2>3. Fresh' => Fresh
    BY <1>6, <2>2 DEF WatchdogTask, Fresh
  <2> HIDE DEF s
  <2> QED BY <1>2, <1>6, <2>1, <2>3, BeginCovered DEF WatchdogTask
<1>7. CASE CallPause
  <2>1. ~Fresh' /\ call' = call
    BY <1>7 DEF CallPause, Fresh
  <2> QED BY <2>1 DEF TodoInv
<1>8. CASE Interrupt
  <2>1. mac'.getlink /\ call' = call
    BY <1>8 DEF Interrupt, LinkTyped, MacType
  <2> QED BY <2>1 DEF TodoInv, Fresh
<1>9. CASE LinkComes \/ LinkGoes
  <2>1. mac'.lsc /\ call' = call
    BY <1>9 DEF LinkComes, LinkGoes, LinkTyped, MacType
  <2> QED BY <2>1 DEF TodoInv, Fresh
<1>10. CASE Firmware \/ UNCHANGED vars
  <2>1. call' = call /\ phy' = phy /\ mac' = mac /\ dev' = dev /\ missed' = missed
    BY <1>10 DEF Firmware, vars
  <2> QED BY <2>1 DEF TodoInv, Fresh, Covered, Good
<1> QED BY <1>1, <1>3, <1>4, <1>5, <1>6, <1>7, <1>8, <1>9, <1>10 DEF Next

LEMMA PauseInitial == Init => LinkTyped /\ TodoInv /\ CurrentInv /\ ~Fresh
<1> SUFFICES ASSUME Init PROVE LinkTyped /\ TodoInv /\ CurrentInv /\ ~Fresh
  OBVIOUS
<1>1. PICK p \in Partners : phy = [auto |-> TRUE, adv |-> {}, lp |-> p, link |-> FALSE]
  BY DEF Init
<1>2. LinkTyped
  BY <1>1 DEF Init, LinkTyped, PhyState, MacType, Abilities, Pauses
<1>3. TodoInv
  <2>1. \A t \in Threads : call[t].todo = <<>>
    BY DEF Init
  <2> QED BY <2>1 DEF TodoInv, Quiet
<1>4. CurrentInv /\ ~Fresh
  BY <1>1 DEF Init, CurrentInv, Fresh
<1> QED BY <1>2, <1>3, <1>4

THEOREM PauseInvariance == Spec => []PauseInv
<1>1. Init => PauseInv
  BY LinkInitial, PauseInitial DEF PauseInv
<1>2. PauseInv /\ [Next]_vars => PauseInv'
  <2> SUFFICES ASSUME PauseInv, [Next]_vars PROVE PauseInv'
    OBVIOUS
  <2>1. LinkInv /\ Typed /\ SyncInv /\ LinkTyped /\ TodoInv /\ CurrentInv /\ (Fresh => Covered)
    BY DEF PauseInv, LinkInv
  <2>2. LinkInv'
    BY <2>1, LinkStep
  <2>3. LinkTyped' /\ CurrentInv'
    BY <2>1, PauseTyped, PauseCurrent
  <2>4. TodoInv' /\ (Fresh' => Covered')
    BY <2>1, PauseStep
  <2> QED BY <2>2, <2>3, <2>4 DEF PauseInv
<1> QED BY <1>1, <1>2, PTL DEF Spec

(* The NIC sends pause frames only to a partner that heeds them, and none  *)
(* on a half duplex link, once nobody is at work on a negotiated link:     *)
(* whatever igb_config_fc_after_link_up() was told by an earlier partner,  *)
(* or has read while the link was set up anew, is read again.              *)
THEOREM PausesAgree == Spec => []PauseAgrees
<1>1. PauseInv => PauseAgrees
  <2> SUFFICES ASSUME PauseInv, Settled
               PROVE  /\ "tx" \in mac.fc => phy.lp.full /\ Heeds(phy.lp.pause, phy.adv)
                      /\ ~phy.lp.full => mac.fc = {}
    BY DEF PauseAgrees
  <2>1. Covered
    BY DEF PauseInv, Settled, Fresh
  <2>2. \A t \in Threads : call[t].todo = <<>>
    BY DEF Settled, Idle, Threads
  <2>3. ~Reinits(<<>>) /\ ~ReadAhead(<<>>) /\ ~ForceAhead(<<>>)
    <3>1. Quiet(<<>>)
      BY DEF Quiet
    <3> QED BY <3>1, NotAhead DEF Reinits, Simple
  <2>4. Good(mac.fc)
    BY <2>1, <2>2, <2>3 DEF Covered
  <2> QED BY <2>4 DEF Good
<1> QED BY <1>1, PauseInvariance, PTL

(***************************************************************************)
(* The virtual functions                                                   *)
(***************************************************************************)
(* The registers are there, whatever is in them. *)
NicShape(n) ==
  /\ {"vlvf", "vfta", "rar", "mta", "vmolr", "vmvir", "enabled"} \subseteq DOMAIN n
  /\ DOMAIN n.rar = 0..(RarCount - 1) /\ DOMAIN n.vmolr = Pools /\ DOMAIN n.vmvir = VFs
  /\ \A p \in Pools : {"aupe", "rompe", "mpme"} \subseteq DOMAIN n.vmolr[p]

(* FilterKept, of any registers. *)
Filtered(n) == \A v \in DOMAIN n.vlvf \ {0} : v \in n.vfta

(* Nothing but the VLAN filters, or but the addresses, differs. *)
VlansOnly(n, m) ==
  /\ NicShape(m)
  /\ m.rar = n.rar /\ m.mta = n.mta /\ m.vmolr = n.vmolr /\ m.vmvir = n.vmvir
  /\ m.enabled = n.enabled

SameVlans(n, m) == m.vlvf = n.vlvf /\ m.vfta = n.vfta

SameModes(n, m) ==
  \A p \in Pools : m.vmolr[p].rompe = n.vmolr[p].rompe /\ m.vmolr[p].mpme = n.vmolr[p].mpme

-----------------------------------------------------------------------------
LEMMA PoolFacts ==
  /\ NumVfs \in Nat /\ RarCount \in Nat /\ Pf \in Pools /\ Pf \notin VFs
  /\ VFs \subseteq Pools
  /\ \A vf \in VFs : VfRar(vf) \in 0..(RarCount - 1) /\ VfRar(vf) > UcEntries /\ VfRar(vf) # 0
  /\ \A vf, u \in VFs : VfRar(vf) = VfRar(u) => vf = u
BY VfAssumption DEF Pf, Pools, VFs, VfRar, UcEntries

(* The VLAN filters: whoever joins or leaves takes nothing from the others. *)
LEMMA VftaSetKeeps ==
  ASSUME NEW n, NicShape(n), NEW vid
  PROVE  /\ \A add \in BOOLEAN :
              VlansOnly(n, VftaSet(n, vid, add)) /\ VftaSet(n, vid, add).vlvf = n.vlvf
         /\ VftaSet(n, vid, TRUE).vfta = n.vfta \union {vid}
         /\ VftaSet(n, vid, FALSE).vfta = n.vfta \ {vid}
BY DEF VftaSet, VlansOnly, NicShape

LEMMA VlvfAddKeeps ==
  ASSUME NEW n, NicShape(n), Filtered(n), NEW vid, NEW p
  PROVE  LET m == VlvfAdd(n, vid, p) IN
         /\ VlansOnly(n, m) /\ Filtered(m)
         /\ \A q : Entries(m, q) \subseteq Entries(n, q) \union {v \in {vid} : q = p}
<1> DEFINE m == VlvfAdd(n, vid, p)
<1>1. CASE vid \in DOMAIN n.vlvf
  <2>1. /\ VlansOnly(n, m) /\ m.vfta = n.vfta /\ DOMAIN m.vlvf = DOMAIN n.vlvf
        /\ \A v \in DOMAIN m.vlvf : m.vlvf[v] = IF v = vid THEN n.vlvf[v] \union {p} ELSE n.vlvf[v]
    BY <1>1 DEF VlvfAdd, VlansOnly, NicShape
  <2> HIDE DEF m
  <2>2. Filtered(m) /\ \A q : Entries(m, q) \subseteq Entries(n, q) \union {v \in {vid} : q = p}
    BY <2>1 DEF Filtered, Entries
  <2> QED BY <2>1, <2>2 DEF m
<1>2. CASE vid \notin DOMAIN n.vlvf /\ Cardinality(DOMAIN n.vlvf) < VlvfSize
  <2> DEFINE o == [n EXCEPT !.vlvf = [v \in DOMAIN @ \union {vid} |-> IF v = vid THEN {p} ELSE @[v]]]
  <2>1. /\ VlansOnly(n, o) /\ NicShape(o) /\ o.vfta = n.vfta /\ DOMAIN o.vlvf = DOMAIN n.vlvf \union {vid}
        /\ \A v \in DOMAIN o.vlvf : o.vlvf[v] = IF v = vid THEN {p} ELSE n.vlvf[v]
    BY DEF VlansOnly, NicShape
  <2>2. m = VftaSet(o, vid, TRUE)
    BY <1>2 DEF VlvfAdd
  <2> HIDE DEF m, o
  <2>3. VlansOnly(o, m) /\ m.vlvf = o.vlvf /\ m.vfta = o.vfta \union {vid}
    BY <2>1, <2>2, VftaSetKeeps
  <2>4. VlansOnly(n, m)
    BY <2>1, <2>3 DEF VlansOnly
  <2>5. Filtered(m) /\ \A q : Entries(m, q) \subseteq Entries(n, q) \union {v \in {vid} : q = p}
    BY <2>1, <2>3 DEF Filtered, Entries
  <2> QED BY <2>4, <2>5 DEF m
<1>3. CASE vid \notin DOMAIN n.vlvf /\ ~(Cardinality(DOMAIN n.vlvf) < VlvfSize)
  <2>1. m = n
    BY <1>3 DEF VlvfAdd
  <2> QED BY <2>1 DEF VlansOnly
<1> QED BY <1>1, <1>2, <1>3

LEMMA VlvfRemoveKeeps ==
  ASSUME NEW n, NicShape(n), Filtered(n), NEW vid, vid \in DOMAIN n.vlvf, NEW p
  PROVE  LET m == VlvfRemove(n, vid, p) IN
         /\ VlansOnly(n, m) /\ Filtered(m)
         /\ \A q : Entries(m, q) \subseteq Entries(n, q)
<1> DEFINE m == VlvfRemove(n, vid, p)
           left == n.vlvf[vid] \ {p}
<1>1. CASE left # {}
  <2>1. /\ VlansOnly(n, m) /\ m.vfta = n.vfta /\ DOMAIN m.vlvf = DOMAIN n.vlvf
        /\ \A v \in DOMAIN m.vlvf : m.vlvf[v] = IF v = vid THEN left ELSE n.vlvf[v]
    BY <1>1 DEF VlvfRemove, VlansOnly, NicShape
  <2> HIDE DEF m
  <2>2. Filtered(m) /\ \A q : Entries(m, q) \subseteq Entries(n, q)
    BY <2>1 DEF Filtered, Entries
  <2> QED BY <2>1, <2>2 DEF m
<1>2. CASE left = {}
  <2> DEFINE o == [n EXCEPT !.vlvf = [v \in DOMAIN @ \ {vid} |-> @[v]]]
  <2>1. /\ VlansOnly(n, o) /\ NicShape(o) /\ o.vfta = n.vfta /\ DOMAIN o.vlvf = DOMAIN n.vlvf \ {vid}
        /\ \A v \in DOMAIN o.vlvf : o.vlvf[v] = n.vlvf[v]
    BY DEF VlansOnly, NicShape
  <2>2. m = VftaSet(o, vid, FALSE)
    <3> DEFINE a == [n EXCEPT !.vlvf[vid] = left]
    <3>1. m = IF left # {} THEN a ELSE VftaSet(o, vid, FALSE)
      BY DEF VlvfRemove
    <3> HIDE DEF m, a, o, left
    <3> QED BY <1>2, <3>1
  <2> HIDE DEF m, o
  <2>3. VlansOnly(o, m) /\ m.vlvf = o.vlvf /\ m.vfta = o.vfta \ {vid}
    BY <2>1, <2>2, VftaSetKeeps
  <2>4. VlansOnly(n, m)
    BY <2>1, <2>3 DEF VlansOnly
  <2>5. Filtered(m) /\ \A q : Entries(m, q) \subseteq Entries(n, q)
    BY <2>1, <2>3 DEF Filtered, Entries
  <2> QED BY <2>4, <2>5 DEF m
<1> QED BY <1>1, <1>2

LEMMA VlvfSetKeeps ==
  ASSUME NEW n, NicShape(n), Filtered(n), NEW vid, NEW add \in BOOLEAN, NEW p
  PROVE  LET m == VlvfSet(n, vid, add, p) IN
         /\ VlansOnly(n, m) /\ Filtered(m)
         /\ \A q : Entries(m, q) \subseteq Entries(n, q) \union {v \in {vid} : q = p}
<1> DEFINE m == VlvfSet(n, vid, add, p)
<1>1. CASE add
  <2>1. m = VlvfAdd(n, vid, p)
    BY <1>1 DEF VlvfSet
  <2> HIDE DEF m
  <2>2. /\ VlansOnly(n, m) /\ Filtered(m)
        /\ \A q : Entries(m, q) \subseteq Entries(n, q) \union {v \in {vid} : q = p}
    BY <2>1, VlvfAddKeeps
  <2> QED BY <2>2 DEF m
<1>2. CASE ~add /\ vid \in DOMAIN n.vlvf
  <2>1. m = VlvfRemove(n, vid, p)
    BY <1>2 DEF VlvfSet
  <2> HIDE DEF m
  <2>2. VlansOnly(n, m) /\ Filtered(m) /\ \A q : Entries(m, q) \subseteq Entries(n, q)
    BY <1>2, <2>1, VlvfRemoveKeeps
  <2> QED BY <2>2 DEF m
<1>3. CASE ~add /\ vid \notin DOMAIN n.vlvf
  <2>1. m = n
    BY <1>3 DEF VlvfSet
  <2> QED BY <2>1 DEF VlansOnly
<1> QED BY <1>1, <1>2, <1>3

(* A VF that was reset is in no VLAN. *)
LEMMA ClearKeeps ==
  ASSUME NEW n, NicShape(n), Filtered(n), NEW vf
  PROVE  LET m == ClearVfVfta(n, vf) IN
         /\ VlansOnly(n, m) /\ Filtered(m) /\ Entries(m, vf) = {}
<1> DEFINE m == ClearVfVfta(n, vf)
           emptied == {v \in DOMAIN n.vlvf : n.vlvf[v] \ {vf} = {}}
<1>1. /\ VlansOnly(n, m) /\ DOMAIN m.vlvf = DOMAIN n.vlvf \ emptied
      /\ m.vfta = (IF emptied = {} THEN n.vfta ELSE n.vfta \ {0})
      /\ \A v \in DOMAIN m.vlvf : m.vlvf[v] = n.vlvf[v] \ {vf}
  BY DEF ClearVfVfta, VlansOnly, NicShape
<1> HIDE DEF m, emptied
<1>2. Filtered(m) /\ Entries(m, vf) = {}
  BY <1>1 DEF Filtered, Entries
<1> QED BY <1>1, <1>2 DEF m

LEMMA SetVmolrKeeps ==
  ASSUME NEW n, NicShape(n), NEW p \in Pools, NEW a
  PROVE  LET m == SetVmolr(n, p, a) IN
         /\ NicShape(m) /\ SameVlans(n, m) /\ SameModes(n, m)
         /\ m.rar = n.rar /\ m.mta = n.mta /\ m.vmvir = n.vmvir /\ m.enabled = n.enabled
         /\ m.vmolr[p].aupe = a
         /\ \A q \in Pools \ {p} : m.vmolr[q].aupe = n.vmolr[q].aupe
BY DEF SetVmolr, NicShape, SameVlans, SameModes

LEMMA SetVmvirKeeps ==
  ASSUME NEW n, NicShape(n), NEW vf \in VFs, NEW vid
  PROVE  LET m == SetVmvir(n, vid, vf) IN
         /\ NicShape(m) /\ SameVlans(n, m)
         /\ m.rar = n.rar /\ m.mta = n.mta /\ m.vmolr = n.vmolr /\ m.enabled = n.enabled
         /\ m.vmvir[vf] = vid
         /\ \A u \in VFs \ {vf} : m.vmvir[u] = n.vmvir[u]
BY DEF SetVmvir, NicShape, SameVlans

LEMMA NdoSetVfVlanKeeps ==
  ASSUME NEW n, NicShape(n), Filtered(n), NEW vf \in VFs, NEW old, NEW vlan, NEW prio \in BOOLEAN
  PROVE  LET m == NdoSetVfVlan(n, vf, old, vlan, prio) IN
         /\ NicShape(m) /\ Filtered(m) /\ SameModes(n, m)
         /\ m.rar = n.rar /\ m.mta = n.mta /\ m.enabled = n.enabled
         /\ m.vmvir[vf] = vlan /\ m.vmolr[vf].aupe = (vlan = 0)
         /\ \A u \in VFs \ {vf} : m.vmvir[u] = n.vmvir[u] /\ m.vmolr[u].aupe = n.vmolr[u].aupe
         /\ vlan # 0 => Entries(m, vf) \subseteq Entries(n, vf) \union {vlan}
<1> DEFINE o == IF vlan # 0 \/ prio THEN VlvfSet(n, vlan, vlan # 0, vf) ELSE VlvfSet(n, old, FALSE, vf)
           k == SetVmvir(o, vlan, vf)
           m == SetVmolr(k, vf, vlan = 0)
<1>0. NdoSetVfVlan(n, vf, old, vlan, prio) = m
  BY DEF NdoSetVfVlan
<1>1. /\ VlansOnly(n, o) /\ NicShape(o) /\ Filtered(o)
      /\ vlan # 0 => Entries(o, vf) \subseteq Entries(n, vf) \union {vlan}
  <2>1. CASE vlan # 0 \/ prio
    <3> DEFINE add == vlan # 0
    <3>1. o = VlvfSet(n, vlan, add, vf) /\ add \in BOOLEAN
      BY <2>1
    <3> HIDE DEF o, add
    <3>2. /\ VlansOnly(n, o) /\ Filtered(o)
          /\ \A q : Entries(o, q) \subseteq Entries(n, q) \union {v \in {vlan} : q = vf}
      BY <3>1, VlvfSetKeeps
    <3> QED BY <3>2 DEF VlansOnly
  <2>2. CASE ~(vlan # 0 \/ prio)
    <3>1. o = VlvfSet(n, old, FALSE, vf) /\ FALSE \in BOOLEAN
      BY <2>2
    <3> HIDE DEF o
    <3>2. VlansOnly(n, o) /\ Filtered(o)
      <4>1. /\ VlansOnly(n, VlvfSet(n, old, FALSE, vf)) /\ Filtered(VlvfSet(n, old, FALSE, vf))
        BY VlvfSetKeeps
      <4> QED BY <3>1, <4>1
    <3> QED BY <2>2, <3>2 DEF VlansOnly
  <2> QED BY <2>1, <2>2
<1> HIDE DEF o
<1>2. /\ NicShape(k) /\ SameVlans(o, k)
      /\ k.rar = o.rar /\ k.mta = o.mta /\ k.vmolr = o.vmolr /\ k.enabled = o.enabled
      /\ k.vmvir[vf] = vlan
      /\ \A u \in VFs \ {vf} : k.vmvir[u] = o.vmvir[u]
  BY <1>1, SetVmvirKeeps
<1> HIDE DEF k
<1>3. /\ NicShape(m) /\ SameVlans(k, m) /\ SameModes(k, m)
      /\ m.rar = k.rar /\ m.mta = k.mta /\ m.vmvir = k.vmvir /\ m.enabled = k.enabled
      /\ m.vmolr[vf].aupe = (vlan = 0)
      /\ \A u \in VFs \ {vf} : m.vmolr[u].aupe = k.vmolr[u].aupe
  <2>1. vf \in Pools /\ VFs \ {vf} \subseteq Pools \ {vf}
    BY PoolFacts
  <2> QED BY <1>2, <2>1, SetVmolrKeeps
<1> HIDE DEF m
<1>4. Filtered(m) /\ Entries(m, vf) = Entries(o, vf)
  BY <1>1, <1>2, <1>3 DEF SameVlans, Filtered, Entries
<1>5. SameModes(n, m)
  BY <1>1, <1>2, <1>3 DEF SameModes, VlansOnly
<1> QED BY <1>0, <1>1, <1>2, <1>3, <1>4, <1>5 DEF VlansOnly

LEMMA RestoreVlanKeeps ==
  ASSUME NEW n, NicShape(n), Filtered(n), NEW vlans
  PROVE  LET m == RestoreVlan(n, vlans) IN VlansOnly(n, m) /\ Filtered(m)
<1> DEFINE missing == vlans \ DOMAIN n.vlvf
           Before(v) == Cardinality(DOMAIN n.vlvf) + Cardinality({w \in missing : w < v})
           entered == {v \in missing : Before(v) < VlvfSize}
           m == RestoreVlan(n, vlans)
<1>1. entered \subseteq vlans
  OBVIOUS
<1>2. /\ VlansOnly(n, m) /\ DOMAIN m.vlvf = DOMAIN n.vlvf \union entered
      /\ m.vfta = n.vfta \union vlans
  <2> DEFINE vlvf == [v \in DOMAIN n.vlvf \union entered |->
                        IF v \in entered THEN {Pf}
                        ELSE n.vlvf[v] \union (IF v \in vlans THEN {Pf} ELSE {})]
  <2>1. m = [n EXCEPT !.vlvf = vlvf, !.vfta = n.vfta \union vlans]
    BY DEF RestoreVlan, NicShape
  <2>2. DOMAIN vlvf = DOMAIN n.vlvf \union entered
    OBVIOUS
  <2> HIDE DEF m, vlvf, entered
  <2> QED BY <2>1, <2>2 DEF VlansOnly, NicShape
<1> HIDE DEF m, entered
<1>3. Filtered(m)
  BY <1>1, <1>2 DEF Filtered
<1> QED BY <1>2, <1>3 DEF m

-----------------------------------------------------------------------------
(* The tables of addresses, and what a pool hears.                          *)

(* What no change of the lists of the PF touches: the VLANs and which frames *)
(* without one are taken, who is enabled, and the addresses of the VFs.     *)
RxModeOnly(n, m) ==
  /\ NicShape(m) /\ SameVlans(n, m)
  /\ m.vmvir = n.vmvir /\ m.enabled = n.enabled
  /\ \A p \in Pools : m.vmolr[p].aupe = n.vmolr[p].aupe
  /\ \A vf \in VFs : m.rar[VfRar(vf)] = n.rar[VfRar(vf)]

(* HashesHeard, of any registers and any lists. *)
Heard(n, d) ==
  \A vf \in VFs :
    \/ n.vmolr[vf].mpme
    \/ d[vf].mc = {}
    \/ d[vf].mc # Many /\ n.vmolr[vf].rompe /\ d[vf].mc \subseteq n.mta

ListsOK(d) == \A vf \in VFs : d[vf].mc = Many \/ d[vf].mc \subseteq Hashes

LEMMA RxModeTransitive ==
  ASSUME NEW n, NEW m, NEW o, RxModeOnly(n, m), RxModeOnly(m, o)
  PROVE  RxModeOnly(n, o)
BY DEF RxModeOnly, SameVlans

LEMMA WriteUcKeeps ==
  ASSUME NEW n, NicShape(n), NEW count \in Nat
  PROVE  RxModeOnly(n, WriteUcAddrList(n, count))
<1> DEFINE m == WriteUcAddrList(n, count)
<1>1. CASE count > UcEntries
  <2>1. m = n
    BY <1>1 DEF WriteUcAddrList
  <2> QED BY <2>1 DEF RxModeOnly, SameVlans
<1>2. CASE ~(count > UcEntries)
  <2> DEFINE rar == [i \in DOMAIN n.rar |->
                       IF i = 0 \/ i > UcEntries THEN n.rar[i]
                       ELSE IF i > UcEntries - count THEN [mac |-> "uc", pool |-> Pf] ELSE Clear]
  <2>1. m = [n EXCEPT !.rar = rar]
    BY <1>2 DEF WriteUcAddrList, NicShape
  <2>2. \A vf \in VFs : rar[VfRar(vf)] = n.rar[VfRar(vf)]
    BY PoolFacts DEF NicShape
  <2>3. DOMAIN rar = DOMAIN n.rar
    OBVIOUS
  <2> HIDE DEF m, rar
  <2>4. RxModeOnly(n, m)
    BY <2>1, <2>2, <2>3 DEF RxModeOnly, SameVlans, NicShape
  <2> QED BY <2>4 DEF m
<1> QED BY <1>1, <1>2

LEMMA RestoreVfMulticastsKeeps ==
  ASSUME NEW n, NicShape(n), NEW d, ListsOK(d)
  PROVE  LET m == RestoreVfMulticasts(n, d) IN RxModeOnly(n, m) /\ Heard(m, d)
<1> DEFINE o == VfModes(n, d)
           lists == UNION {d[vf].mc : vf \in VFs}
           m == MtaSet(o, lists)
           vmolr == [p \in Pools |->
                       IF p = Pf THEN n.vmolr[p]
                       ELSE [n.vmolr[p] EXCEPT !.mpme = d[p].mc = Many, !.rompe = d[p].mc \notin {Many, {}}]]
<1>0. RestoreVfMulticasts(n, d) = m
  BY DEF RestoreVfMulticasts
<1>1. o = [n EXCEPT !.vmolr = vmolr]
  BY DEF VfModes, NicShape
<1>2. \A p \in Pools : {"aupe", "rompe", "mpme"} \subseteq DOMAIN vmolr[p] /\ vmolr[p].aupe = n.vmolr[p].aupe
  BY DEF NicShape
<1>3. \A vf \in VFs : /\ vmolr[vf].mpme = (d[vf].mc = Many)
                      /\ vmolr[vf].rompe = (d[vf].mc \notin {Many, {}})
  BY PoolFacts DEF NicShape
<1>4. DOMAIN vmolr = Pools
  OBVIOUS
<1> HIDE DEF vmolr, o, lists
<1>5. RxModeOnly(n, o) /\ NicShape(o) /\ o.vmolr = vmolr
  BY <1>1, <1>2, <1>4 DEF RxModeOnly, SameVlans, NicShape
<1>6. RxModeOnly(o, m) /\ m.vmolr = vmolr /\ m.mta = o.mta \union (lists \ Many)
  BY <1>5 DEF MtaSet, RxModeOnly, SameVlans, NicShape
<1> HIDE DEF m
<1>7. \A vf \in VFs : d[vf].mc # Many => d[vf].mc \subseteq m.mta
  <2>1. \A vf \in VFs : d[vf].mc \subseteq lists
    BY DEF lists
  <2>2. \A vf \in VFs : d[vf].mc # Many => d[vf].mc \cap Many = {}
    BY VfAssumption DEF ListsOK
  <2> QED BY <1>6, <2>1, <2>2
<1>8. Heard(m, d)
  BY <1>3, <1>6, <1>7 DEF Heard
<1> QED BY <1>0, <1>5, <1>6, <1>8, RxModeTransitive

LEMMA SetRxModeKeeps ==
  ASSUME NEW n, NicShape(n), NEW p, p.uc \in Nat, NEW d, ListsOK(d), NEW mem \in BOOLEAN
  PROVE  LET m == SetRxMode(n, p, d, mem) IN RxModeOnly(n, m) /\ Heard(m, d)
<1> DEFINE listed == p.mode = "listed" /\ (mem \/ p.mc = {})
           o == IF p.mode = "listed" THEN WriteMcAddrList(n, p.mc, mem) ELSE n
           k == [o EXCEPT !.vmolr[Pf].mpme = ~listed, !.vmolr[Pf].rompe = listed /\ p.mc # {}]
           l == IF p.mode = "promisc" THEN k ELSE WriteUcAddrList(k, p.uc)
           m == RestoreVfMulticasts(l, d)
<1>0. SetRxMode(n, p, d, mem) = m
  BY DEF SetRxMode
<1>1. RxModeOnly(n, o) /\ NicShape(o)
  BY DEF WriteMcAddrList, UpdateMcAddrList, RxModeOnly, SameVlans, NicShape
<1> HIDE DEF o, listed
<1>2. RxModeOnly(o, k) /\ NicShape(k)
  BY <1>1, PoolFacts DEF RxModeOnly, SameVlans, NicShape
<1> HIDE DEF k
<1>3. RxModeOnly(k, l) /\ NicShape(l)
  <2>1. RxModeOnly(k, k)
    BY <1>2 DEF RxModeOnly, SameVlans
  <2>2. RxModeOnly(k, WriteUcAddrList(k, p.uc))
    BY <1>2, WriteUcKeeps
  <2> QED BY <2>1, <2>2 DEF RxModeOnly
<1> HIDE DEF l
<1>4. RxModeOnly(l, m) /\ Heard(m, d)
  BY <1>3, RestoreVfMulticastsKeeps
<1> HIDE DEF m
<1> QED BY <1>0, <1>1, <1>2, <1>3, <1>4, RxModeTransitive

LEMMA RarSetQselKeeps ==
  ASSUME NEW n, NicShape(n), NEW addr, NEW index \in 0..(RarCount - 1), NEW p,
         NEW m, m = RarSetQsel(n, addr, index, p)
  PROVE  /\ NicShape(m) /\ SameVlans(n, m)
         /\ m.mta = n.mta /\ m.vmolr = n.vmolr /\ m.vmvir = n.vmvir /\ m.enabled = n.enabled
         /\ m.rar[index] = [mac |-> addr, pool |-> p]
         /\ \A i \in 0..(RarCount - 1) : i # index => m.rar[i] = n.rar[i]
BY DEF RarSetQsel, NicShape, SameVlans

(* Only the address of VF vf differs. *)
AddressSet(n, m, vf, addr) ==
  /\ NicShape(m) /\ SameVlans(n, m)
  /\ m.mta = n.mta /\ m.vmolr = n.vmolr /\ m.vmvir = n.vmvir /\ m.enabled = n.enabled
  /\ m.rar[VfRar(vf)] = [mac |-> addr, pool |-> vf]
  /\ \A u \in VFs \ {vf} : m.rar[VfRar(u)] = n.rar[VfRar(u)]

LEMMA VfAddress ==
  ASSUME NEW n, NicShape(n), NEW vf \in VFs, NEW addr
  PROVE  AddressSet(n, RarSetQsel(n, addr, VfRar(vf), vf), vf, addr)
<1> DEFINE m == RarSetQsel(n, addr, VfRar(vf), vf)
           index == VfRar(vf)
<1>0. index \in 0..(RarCount - 1)
  BY PoolFacts
<1>1. m = RarSetQsel(n, addr, index, vf)
  OBVIOUS
<1>2. \A u \in VFs \ {vf} : VfRar(u) \in 0..(RarCount - 1) /\ VfRar(u) # index
  BY PoolFacts
<1> HIDE DEF index, m
<1>3. /\ NicShape(m) /\ SameVlans(n, m)
      /\ m.mta = n.mta /\ m.vmolr = n.vmolr /\ m.vmvir = n.vmvir /\ m.enabled = n.enabled
      /\ m.rar[index] = [mac |-> addr, pool |-> vf]
      /\ \A i \in 0..(RarCount - 1) : i # index => m.rar[i] = n.rar[i]
  BY <1>0, <1>1, RarSetQselKeeps
<1>4. AddressSet(n, m, vf, addr)
  BY <1>2, <1>3 DEF index, AddressSet
<1> QED BY <1>4 DEF m

LEMMA ResetRegistersShape ==
  NicShape(ResetRegisters) /\ Filtered(ResetRegisters)
BY DEF ResetRegisters, InitRxAddrs, NoModes, NicShape, Filtered

LEMMA ConfiguredKeeps ==
  ASSUME NEW n, NicShape(n), Filtered(n), NEW p, p.uc \in Nat, NEW d, ListsOK(d), NEW mem \in BOOLEAN
  PROVE  LET m == Configured(n, p, d, mem) IN
         /\ NicShape(m) /\ Filtered(m) /\ Heard(m, d)
         /\ m.vmvir = n.vmvir /\ m.enabled = n.enabled
         /\ \A vf \in VFs : m.vmolr[vf].aupe = n.vmolr[vf].aupe
         /\ \A vf \in VFs : m.rar[VfRar(vf)] = n.rar[VfRar(vf)]
<1> DEFINE o == SetRxMode(n, p, d, mem)
           k == RestoreVlan(o, p.vlans)
           addr == "pf"
           on == TRUE
           first == 0
           l == RarSetQsel(k, addr, first, Pf)
           m == SetVmolr(l, Pf, on)
<1>0. Configured(n, p, d, mem) = m
  BY DEF Configured
<1> HIDE DEF addr, on
<1>1. RxModeOnly(n, o) /\ NicShape(o) /\ Filtered(o) /\ Heard(o, d)
  <2>1. RxModeOnly(n, o) /\ Heard(o, d)
    BY SetRxModeKeeps
  <2> HIDE DEF o
  <2> QED BY <2>1 DEF RxModeOnly, SameVlans, Filtered
<1> HIDE DEF o
<1>2. VlansOnly(o, k) /\ NicShape(k) /\ Filtered(k)
  <2>1. VlansOnly(o, k) /\ Filtered(k)
    BY <1>1, RestoreVlanKeeps
  <2> HIDE DEF k
  <2> QED BY <2>1 DEF VlansOnly
<1> HIDE DEF k
<1>3. first \in 0..(RarCount - 1)
  BY VfAssumption
<1> HIDE DEF first
<1>10. l = RarSetQsel(k, addr, first, Pf)
  OBVIOUS
<1> HIDE DEF l
<1>4. /\ NicShape(l) /\ SameVlans(k, l)
      /\ l.mta = k.mta /\ l.vmolr = k.vmolr /\ l.vmvir = k.vmvir /\ l.enabled = k.enabled
      /\ l.rar[first] = [mac |-> addr, pool |-> Pf]
      /\ \A i \in 0..(RarCount - 1) : i # first => l.rar[i] = k.rar[i]
  BY <1>2, <1>3, <1>10, RarSetQselKeeps
<1>5. /\ NicShape(m) /\ SameVlans(l, m) /\ SameModes(l, m)
      /\ m.rar = l.rar /\ m.mta = l.mta /\ m.vmvir = l.vmvir /\ m.enabled = l.enabled
      /\ \A q \in Pools \ {Pf} : m.vmolr[q].aupe = l.vmolr[q].aupe
  BY <1>4, PoolFacts, SetVmolrKeeps
<1> HIDE DEF m
<1>6. Filtered(m)
  BY <1>2, <1>4, <1>5 DEF SameVlans, Filtered
<1>7. Heard(m, d)
  BY <1>1, <1>2, <1>4, <1>5, PoolFacts DEF Heard, SameModes, VlansOnly
<1>8. \A vf \in VFs : m.vmolr[vf].aupe = n.vmolr[vf].aupe
  BY <1>1, <1>2, <1>4, <1>5, PoolFacts DEF RxModeOnly, VlansOnly
<1>9. \A vf \in VFs : m.rar[VfRar(vf)] = n.rar[VfRar(vf)]
  BY <1>1, <1>2, <1>4, <1>5, PoolFacts DEF RxModeOnly, VlansOnly, first
<1> QED BY <1>0, <1>1, <1>2, <1>4, <1>5, <1>6, <1>7, <1>8, <1>9 DEF RxModeOnly, VlansOnly

LEMMA VfResetKeeps ==
  ASSUME NicShape(nic), Filtered(nic), pf.uc \in Nat,
         NEW d, ListsOK(d), NEW vf \in VFs, NEW mem \in BOOLEAN
  PROVE  LET m == VfReset(d, vf, mem) IN
         /\ NicShape(m) /\ Filtered(m) /\ Heard(m, d)
         /\ m.enabled = nic.enabled
         /\ \A u \in VFs : m.rar[VfRar(u)] = nic.rar[VfRar(u)]
         /\ \A u \in VFs \ {vf} : m.vmolr[u].aupe = nic.vmolr[u].aupe /\ m.vmvir[u] = nic.vmvir[u]
         /\ d[vf].pfVlan # 0 => m.vmvir[vf] = d[vf].pfVlan /\ ~m.vmolr[vf].aupe
         /\ Entries(m, vf) \subseteq {d[vf].pfVlan}
<1> DEFINE vlan == d[vf].pfVlan
           on == TRUE
           off == FALSE
           h == SetVmolr(nic, vf, on)
           k == ClearVfVfta(h, vf)
           o == IF vlan # 0 THEN NdoSetVfVlan(k, vf, vlan, vlan, off) ELSE ClearVfVfta(k, vf)
           m == SetRxMode(o, pf, d, mem)
<1>0. VfReset(d, vf, mem) = m
  BY DEF VfReset
<1> HIDE DEF on
<1>1. /\ NicShape(h) /\ Filtered(h) /\ h.rar = nic.rar /\ h.enabled = nic.enabled /\ h.vmvir = nic.vmvir
      /\ \A u \in VFs \ {vf} : h.vmolr[u].aupe = nic.vmolr[u].aupe
  <2>1. vf \in Pools /\ \A u \in VFs \ {vf} : u \in Pools \ {vf}
    BY PoolFacts
  <2>2. /\ NicShape(h) /\ SameVlans(nic, h)
        /\ h.rar = nic.rar /\ h.vmvir = nic.vmvir /\ h.enabled = nic.enabled
        /\ \A q \in Pools \ {vf} : h.vmolr[q].aupe = nic.vmolr[q].aupe
    BY <2>1, SetVmolrKeeps
  <2> HIDE DEF h
  <2> QED BY <2>1, <2>2 DEF SameVlans, Filtered
<1> HIDE DEF h
<1>2. VlansOnly(h, k) /\ NicShape(k) /\ Filtered(k) /\ Entries(k, vf) = {}
  <2>1. VlansOnly(h, k) /\ Filtered(k) /\ Entries(k, vf) = {}
    BY <1>1, ClearKeeps
  <2> HIDE DEF k
  <2> QED BY <2>1 DEF VlansOnly
<1> HIDE DEF k
<1>3. /\ NicShape(o) /\ Filtered(o) /\ o.rar = k.rar /\ o.enabled = k.enabled
      /\ \A u \in VFs \ {vf} : o.vmvir[u] = k.vmvir[u] /\ o.vmolr[u].aupe = k.vmolr[u].aupe
      /\ vlan # 0 => o.vmvir[vf] = vlan /\ ~o.vmolr[vf].aupe
      /\ Entries(o, vf) \subseteq {vlan}
  <2>1. CASE vlan # 0
    <3>1. o = NdoSetVfVlan(k, vf, vlan, vlan, off) /\ off \in BOOLEAN
      BY <2>1
    <3> HIDE DEF o, vlan, off
    <3>2. /\ NicShape(o) /\ Filtered(o) /\ o.rar = k.rar /\ o.enabled = k.enabled
          /\ o.vmvir[vf] = vlan /\ o.vmolr[vf].aupe = (vlan = 0)
          /\ \A u \in VFs \ {vf} : o.vmvir[u] = k.vmvir[u] /\ o.vmolr[u].aupe = k.vmolr[u].aupe
          /\ vlan # 0 => Entries(o, vf) \subseteq Entries(k, vf) \union {vlan}
      BY <1>2, <3>1, NdoSetVfVlanKeeps
    <3> QED BY <1>2, <2>1, <3>2
  <2>2. CASE ~(vlan # 0)
    <3>1. o = ClearVfVfta(k, vf)
      BY <2>2
    <3> HIDE DEF o, vlan
    <3>2. VlansOnly(k, o) /\ Filtered(o) /\ Entries(o, vf) = {}
      BY <1>2, <3>1, ClearKeeps
    <3> QED BY <2>2, <3>2 DEF VlansOnly
  <2> QED BY <2>1, <2>2
<1> HIDE DEF o
<1>4. RxModeOnly(o, m) /\ Heard(m, d)
  BY <1>3, SetRxModeKeeps
<1> HIDE DEF m, vlan
<1>5. NicShape(m) /\ Filtered(m) /\ Entries(m, vf) \subseteq {vlan}
  BY <1>3, <1>4 DEF RxModeOnly, SameVlans, Filtered, Entries
<1>6. m.enabled = nic.enabled /\ \A u \in VFs : m.rar[VfRar(u)] = nic.rar[VfRar(u)]
  BY <1>1, <1>2, <1>3, <1>4 DEF RxModeOnly, VlansOnly
<1>7. \A u \in VFs \ {vf} : m.vmolr[u].aupe = nic.vmolr[u].aupe /\ m.vmvir[u] = nic.vmvir[u]
  BY <1>1, <1>2, <1>3, <1>4, PoolFacts DEF RxModeOnly, VlansOnly
<1>8. vlan # 0 => m.vmvir[vf] = vlan /\ ~m.vmolr[vf].aupe
  BY <1>3, <1>4, PoolFacts DEF RxModeOnly
<1> QED BY <1>0, <1>4, <1>5, <1>6, <1>7, <1>8 DEF vlan

-----------------------------------------------------------------------------
(* The invariant of the tables.                                             *)
VfData ==
  [cts : BOOLEAN, mac : Macs, mc : {Many} \union SUBSET Hashes, pfVlan : Vids, pfMac : BOOLEAN]

(* The frames of a VF that the administrator has put into a VLAN, and that *)
(* is clear to send, carry its tag.                                         *)
Tagged ==
  \A vf \in VFs : vfd[vf].cts /\ vfd[vf].pfVlan # 0 =>
    nic.vmvir[vf] = vfd[vf].pfVlan /\ ~nic.vmolr[vf].aupe

TablesTyped ==
  /\ NicShape(nic)
  /\ {"up", "vlans", "mc", "uc", "mode"} \subseteq DOMAIN pf /\ pf.uc \in Nat
  /\ vfd \in [VFs -> VfData]

Tables == TablesTyped /\ FilterKept /\ HashesHeard /\ Tagged

(* What is sent to an address reaches a VF. *)
Hears(n, vf, addr) == n.rar[VfRar(vf)] = [mac |-> addr, pool |-> vf] /\ vf \in n.enabled

(* A step leaves the address of VF u, and whether it is enabled, alone.     *)
Untouched(u) ==
  /\ nic'.rar[VfRar(u)] = nic.rar[VfRar(u)]
  /\ u \in nic.enabled => u \in nic'.enabled

LEMMA TablesFacts ==
  ASSUME Tables
  PROVE  /\ NicShape(nic) /\ Filtered(nic) /\ pf.uc \in Nat /\ ListsOK(vfd)
         /\ pf.up => Heard(nic, vfd)
BY DEF Tables, TablesTyped, FilterKept, Filtered, HashesHeard, Heard, ListsOK, VfData

LEMMA TablesInitial == VfInit => Tables
<1> SUFFICES ASSUME VfInit PROVE Tables
  OBVIOUS
<1>1. TablesTyped /\ \A vf \in VFs : ~vfd[vf].cts
  <2> DEFINE First == [cts : {FALSE}, mac : Macs, mc : {{}}, pfVlan : {0}, pfMac : {FALSE}]
  <2>1. vfd \in [VFs -> First]
    BY DEF VfInit
  <2>0. ASSUME NEW c \in First PROVE c \in VfData /\ ~c.cts
    <3>1. c.cts = FALSE /\ c.mc = {} /\ c.pfVlan = 0 /\ c.pfMac = FALSE /\ c.mac \in Macs
      OBVIOUS
    <3>2. c.mc \in {Many} \union SUBSET Hashes /\ c.pfVlan \in Vids
      BY <3>1, VfAssumption
    <3>3. c = [cts |-> c.cts, mac |-> c.mac, mc |-> c.mc, pfVlan |-> c.pfVlan, pfMac |-> c.pfMac]
      OBVIOUS
    <3> HIDE DEF First
    <3> QED BY <3>1, <3>2, <3>3 DEF VfData
  <2> HIDE DEF First
  <2>2. \A vf \in VFs : vfd[vf] \in VfData /\ ~vfd[vf].cts
    BY <2>0, <2>1
  <2>3. {"up", "vlans", "mc", "uc", "mode"} \subseteq DOMAIN pf /\ pf.uc \in Nat
    BY DEF VfInit
  <2>4. NicShape(nic)
    BY ResetRegistersShape DEF VfInit
  <2>5. vfd \in [VFs -> VfData]
    BY <2>1, <2>2
  <2> QED BY <2>2, <2>3, <2>4, <2>5 DEF TablesTyped
<1>2. FilterKept
  BY ResetRegistersShape DEF VfInit, FilterKept, Filtered
<1>3. ~pf.up
  BY DEF VfInit
<1> QED BY <1>1, <1>2, <1>3 DEF Tables, HashesHeard, Tagged

(* A step that puts new registers in place, for what is known of the VFs.   *)
LEMMA NewTables ==
  ASSUME TablesTyped', Filtered(nic'), pf'.up => Heard(nic', vfd'), Tagged'
  PROVE  Tables'
BY DEF Tables, FilterKept, Filtered, HashesHeard, Heard

LEMMA QuietTables ==
  ASSUME Tables, UNCHANGED <<nic, pf, vfd>>
  PROVE  Tables' /\ \A u \in VFs : Untouched(u) /\ vfd'[u].cts = vfd[u].cts
BY DEF Tables, TablesTyped, FilterKept, HashesHeard, Tagged, Untouched

LEMMA DownTables ==
  ASSUME Tables, PfDown
  PROVE  Tables' /\ \A u \in VFs : ~vfd'[u].cts
<1>1. vfd' \in [VFs -> VfData] /\ \A u \in VFs : ~vfd'[u].cts
  BY DEF Tables, TablesTyped, VfData, PfDown
<1>2. NicShape(nic') /\ Filtered(nic')
  BY ResetRegistersShape DEF PfDown
<1>3. {"up", "vlans", "mc", "uc", "mode"} \subseteq DOMAIN pf' /\ pf'.uc \in Nat /\ ~pf'.up
  BY DEF Tables, TablesTyped, PfDown
<1>4. TablesTyped' /\ Tagged'
  BY <1>1, <1>2, <1>3 DEF TablesTyped, Tagged, NicShape
<1> QED BY <1>1, <1>2, <1>3, <1>4, NewTables

LEMMA UpTables ==
  ASSUME Tables, PfUp
  PROVE  Tables' /\ \A u \in VFs : Untouched(u) /\ vfd'[u].cts = vfd[u].cts
<1>1. PICK mem \in BOOLEAN : nic' = Configured(nic, pf, vfd, mem)
  BY DEF PfUp
<1>2. /\ NicShape(nic') /\ Filtered(nic') /\ Heard(nic', vfd)
      /\ nic'.vmvir = nic.vmvir /\ nic'.enabled = nic.enabled
      /\ \A vf \in VFs : nic'.vmolr[vf].aupe = nic.vmolr[vf].aupe
      /\ \A vf \in VFs : nic'.rar[VfRar(vf)] = nic.rar[VfRar(vf)]
  BY <1>1, TablesFacts, ConfiguredKeeps
<1>3. vfd' = vfd /\ {"up", "vlans", "mc", "uc", "mode"} \subseteq DOMAIN pf' /\ pf'.uc \in Nat
  BY DEF Tables, TablesTyped, PfUp
<1>4. TablesTyped' /\ Tagged'
  BY <1>2, <1>3 DEF Tables, TablesTyped, Tagged, NicShape
<1> QED BY <1>2, <1>3, <1>4, NewTables DEF Untouched

LEMMA RxModeTables ==
  ASSUME Tables, ChangeRxMode
  PROVE  Tables' /\ \A u \in VFs : Untouched(u) /\ vfd'[u].cts = vfd[u].cts
<1>1. PICK mc \in SUBSET Hashes, uc \in 0..MaxUc, mode \in Modes, mem \in BOOLEAN :
        /\ pf' = [pf EXCEPT !.mc = mc, !.uc = uc, !.mode = mode]
        /\ nic' = SetRxMode(nic, pf', vfd, mem)
  BY DEF ChangeRxMode
<1>2. {"up", "vlans", "mc", "uc", "mode"} \subseteq DOMAIN pf' /\ pf'.uc \in Nat /\ vfd' = vfd
  BY <1>1, VfAssumption DEF Tables, TablesTyped, ChangeRxMode
<1>3. RxModeOnly(nic, nic') /\ Heard(nic', vfd)
  <2> DEFINE p == pf'
  <2>1. nic' = SetRxMode(nic, p, vfd, mem) /\ p.uc \in Nat
    BY <1>1, <1>2
  <2> HIDE DEF p
  <2> QED BY <2>1, TablesFacts, SetRxModeKeeps
<1>4. NicShape(nic') /\ Filtered(nic')
  BY <1>3, TablesFacts DEF RxModeOnly, SameVlans, Filtered
<1>5. TablesTyped' /\ Tagged'
  BY <1>2, <1>3, <1>4, PoolFacts DEF Tables, TablesTyped, Tagged, NicShape, RxModeOnly
<1> QED BY <1>2, <1>3, <1>4, <1>5, NewTables DEF Untouched, RxModeOnly

(* VLAN filters that change, and nothing else. *)
LEMMA VlansTables ==
  ASSUME Tables, VlansOnly(nic, nic'), Filtered(nic'), vfd' = vfd,
         {"up", "vlans", "mc", "uc", "mode"} \subseteq DOMAIN pf', pf'.uc = pf.uc, pf'.up = pf.up
  PROVE  Tables' /\ \A u \in VFs : Untouched(u) /\ vfd'[u].cts = vfd[u].cts
<1>1. TablesTyped' /\ Tagged'
  BY DEF Tables, TablesTyped, Tagged, VlansOnly, NicShape
<1>2. pf'.up => Heard(nic', vfd')
  BY TablesFacts DEF VlansOnly, Heard
<1> QED BY <1>1, <1>2, NewTables DEF Untouched, VlansOnly

LEMMA ChangeVlansTables ==
  ASSUME Tables, NEW vid, ChangeVlans(vid)
  PROVE  Tables' /\ \A u \in VFs : Untouched(u) /\ vfd'[u].cts = vfd[u].cts
<1>1. /\ {"up", "vlans", "mc", "uc", "mode"} \subseteq DOMAIN pf' /\ pf'.uc = pf.uc /\ pf'.up = pf.up
      /\ vfd' = vfd
  BY DEF Tables, TablesTyped, ChangeVlans
<1>2. VlansOnly(nic, nic') /\ Filtered(nic')
  <2>1. CASE nic' = RxAddVid(nic, vid)
    <3> DEFINE o == VlvfSet(nic, vid, TRUE, Pf)
    <3>1. VlansOnly(nic, o) /\ Filtered(o)
      <4> DEFINE add == TRUE
      <4>1. add \in BOOLEAN
        OBVIOUS
      <4> HIDE DEF add
      <4>2. VlansOnly(nic, VlvfSet(nic, vid, add, Pf)) /\ Filtered(VlvfSet(nic, vid, add, Pf))
        BY <4>1, TablesFacts, VlvfSetKeeps
      <4> QED BY <4>2 DEF add
    <3>2. nic' = VftaSet(o, vid, TRUE)
      BY <2>1 DEF RxAddVid
    <3> HIDE DEF o
    <3>3. NicShape(o)
      BY <3>1 DEF VlansOnly
    <3> DEFINE m == VftaSet(o, vid, TRUE)
    <3>4. VlansOnly(o, m) /\ m.vlvf = o.vlvf /\ m.vfta = o.vfta \union {vid}
      BY <3>3, VftaSetKeeps
    <3> HIDE DEF m
    <3>5. VlansOnly(nic, m) /\ Filtered(m)
      BY <3>1, <3>4 DEF VlansOnly, Filtered
    <3> QED BY <3>2, <3>5 DEF m
  <2>2. CASE nic' = RxKillVid(nic, vid)
    <3> DEFINE add == FALSE
    <3>1. add \in BOOLEAN /\ nic' = VlvfSet(nic, vid, add, Pf)
      BY <2>2 DEF RxKillVid
    <3> HIDE DEF add
    <3> QED BY <3>1, TablesFacts, VlvfSetKeeps
  <2> QED BY <2>1, <2>2 DEF ChangeVlans
<1> QED BY <1>1, <1>2, VlansTables

LEMMA AdminMacTables ==
  ASSUME Tables, NEW vf \in VFs, NEW addr \in Macs, AdminSetsMac(vf, addr)
  PROVE  Tables' /\ \A u \in VFs : vfd'[u].cts = vfd[u].cts /\ (u # vf => Untouched(u))
<1>1. /\ vfd' \in [VFs -> VfData] /\ pf' = pf
      /\ \A u \in VFs : /\ vfd'[u].cts = vfd[u].cts /\ vfd'[u].mc = vfd[u].mc
                        /\ vfd'[u].pfVlan = vfd[u].pfVlan
  BY DEF Tables, TablesTyped, VfData, AdminSetsMac
<1>2. nic' = RarSetQsel(nic, addr, VfRar(vf), vf)
  BY DEF AdminSetsMac
<1>3. /\ NicShape(nic') /\ SameVlans(nic, nic')
      /\ nic'.mta = nic.mta /\ nic'.vmolr = nic.vmolr /\ nic'.vmvir = nic.vmvir /\ nic'.enabled = nic.enabled
      /\ \A u \in VFs \ {vf} : nic'.rar[VfRar(u)] = nic.rar[VfRar(u)]
  <2>1. NicShape(nic)
    BY TablesFacts
  <2>2. AddressSet(nic, nic', vf, addr)
    BY <1>2, <2>1, VfAddress, Zenon
  <2> QED BY <2>2 DEF AddressSet
<1>4. Filtered(nic') /\ (pf'.up => Heard(nic', vfd'))
  BY <1>1, <1>3, TablesFacts DEF SameVlans, Filtered, Heard
<1>5. TablesTyped' /\ Tagged'
  BY <1>1, <1>3 DEF Tables, TablesTyped, Tagged, NicShape
<1> QED BY <1>1, <1>3, <1>4, <1>5, PoolFacts, NewTables DEF Untouched

LEMMA AdminVlanTables ==
  ASSUME Tables, NEW vf \in VFs, NEW vlan \in Vids, NEW prio \in BOOLEAN, AdminSetsVlan(vf, vlan, prio)
  PROVE  Tables' /\ \A u \in VFs : Untouched(u) /\ vfd'[u].cts = vfd[u].cts
<1>1. /\ vfd' \in [VFs -> VfData] /\ pf' = pf
      /\ \A u \in VFs : /\ vfd'[u].cts = vfd[u].cts /\ vfd'[u].mc = vfd[u].mc
                        /\ vfd'[u].pfVlan = IF u = vf THEN vlan ELSE vfd[u].pfVlan
  BY DEF Tables, TablesTyped, VfData, AdminSetsVlan
<1>2. nic' = NdoSetVfVlan(nic, vf, vfd[vf].pfVlan, vlan, prio)
  BY DEF AdminSetsVlan
<1>3. /\ NicShape(nic') /\ Filtered(nic') /\ SameModes(nic, nic')
      /\ nic'.rar = nic.rar /\ nic'.mta = nic.mta /\ nic'.enabled = nic.enabled
      /\ nic'.vmvir[vf] = vlan /\ nic'.vmolr[vf].aupe = (vlan = 0)
      /\ \A u \in VFs \ {vf} : nic'.vmvir[u] = nic.vmvir[u] /\ nic'.vmolr[u].aupe = nic.vmolr[u].aupe
  BY <1>2, TablesFacts, NdoSetVfVlanKeeps
<1>4. pf'.up => Heard(nic', vfd')
  BY <1>1, <1>3, PoolFacts, TablesFacts DEF SameModes, Heard
<1>5. TablesTyped' /\ Tagged'
  BY <1>1, <1>3 DEF Tables, TablesTyped, Tagged, NicShape
<1> QED BY <1>1, <1>3, <1>4, <1>5, NewTables DEF Untouched

(* What a guest may ask for, whatever the subject is. *)
Wishes ==
  {<<"reset">>} \union {<<"mac", m>> : m \in Macs}
    \union {<<"multicast", mc>> : mc \in {Many} \union SUBSET Hashes}
    \union {<<"promisc", on>> : on \in BOOLEAN}
    \union {<<"vlan", vid, add>> : vid \in Vids, add \in BOOLEAN}

LEMMA GuestWishes == GuestRequests \subseteq Wishes
BY DEF GuestRequests, Wishes, About

LEMMA RequestForms ==
  ASSUME NEW r \in Wishes
  PROVE  /\ r[1] = "reset" <=> r = <<"reset">>
         /\ r # <<"control">> /\ r # <<"none">>
         /\ r[1] = "mac" => r[2] \in Macs
         /\ r[1] = "multicast" => r[2] \in {Many} \union SUBSET Hashes
         /\ r[1] = "promisc" => r[2] \in BOOLEAN
         /\ r[1] = "vlan" => r[3] \in BOOLEAN
<1>1. CASE r = <<"reset">>
  BY <1>1
<1>2. CASE \E m \in Macs : r = <<"mac", m>>
  BY <1>2
<1>3. CASE \E mc \in {Many} \union SUBSET Hashes : r = <<"multicast", mc>>
  BY <1>3
<1>4. CASE \E on \in BOOLEAN : r = <<"promisc", on>>
  BY <1>4
<1>5. CASE \E vid \in Vids, add \in BOOLEAN : r = <<"vlan", vid, add>>
  BY <1>5
<1> QED BY <1>1, <1>2, <1>3, <1>4, <1>5 DEF Wishes

LEMMA ForgetKeeps ==
  ASSUME vfd \in [VFs -> VfData], NEW vf \in VFs, NEW addr \in Macs, NEW d, d = Forget(vfd, vf, addr)
  PROVE  /\ d \in [VFs -> VfData] /\ ListsOK(d) /\ d[vf].mac = addr
         /\ \A u \in VFs : d[u].cts = vfd[u].cts /\ d[u].pfVlan = vfd[u].pfVlan
<1>1. /\ d \in [VFs -> VfData] /\ d[vf].mac = addr
      /\ \A u \in VFs : d[u].cts = vfd[u].cts /\ d[u].pfVlan = vfd[u].pfVlan
  BY DEF Forget, VfData
<1>2. ListsOK(d)
  BY <1>1 DEF ListsOK, VfData
<1> QED BY <1>1, <1>2

(* A VF is reset: it keeps the VLAN of the administrator, and loses others. *)
LEMMA ResetTables ==
  ASSUME Tables, NEW vf \in VFs, NEW addr \in Macs, NEW mem \in BOOLEAN,
         NEW d, d = Forget(vfd, vf, addr), NEW m, m = VfReset(d, vf, mem)
  PROVE  /\ NicShape(m) /\ Filtered(m) /\ Heard(m, d) /\ m.enabled = nic.enabled
         /\ \A u \in VFs : m.rar[VfRar(u)] = nic.rar[VfRar(u)]
         /\ \A u \in VFs :
              (u = vf \/ vfd[u].cts) /\ vfd[u].pfVlan # 0 =>
                m.vmvir[u] = vfd[u].pfVlan /\ ~m.vmolr[u].aupe
         /\ Entries(m, vf) \subseteq {vfd[vf].pfVlan}
<1>1. /\ d \in [VFs -> VfData] /\ ListsOK(d)
      /\ \A u \in VFs : d[u].cts = vfd[u].cts /\ d[u].pfVlan = vfd[u].pfVlan
  BY ForgetKeeps DEF Tables, TablesTyped
<1>2. NicShape(nic) /\ Filtered(nic) /\ pf.uc \in Nat
  BY TablesFacts
<1>3. /\ NicShape(m) /\ Filtered(m) /\ Heard(m, d)
      /\ m.enabled = nic.enabled
      /\ \A u \in VFs : m.rar[VfRar(u)] = nic.rar[VfRar(u)]
      /\ \A u \in VFs \ {vf} : m.vmolr[u].aupe = nic.vmolr[u].aupe /\ m.vmvir[u] = nic.vmvir[u]
      /\ d[vf].pfVlan # 0 => m.vmvir[vf] = d[vf].pfVlan /\ ~m.vmolr[vf].aupe
      /\ Entries(m, vf) \subseteq {d[vf].pfVlan}
  BY <1>1, <1>2, VfResetKeeps
<1>4. \A u \in VFs :
        (u = vf \/ vfd[u].cts) /\ vfd[u].pfVlan # 0 =>
          m.vmvir[u] = vfd[u].pfVlan /\ ~m.vmolr[u].aupe
  BY <1>1, <1>3 DEF Tables, Tagged
<1> QED BY <1>1, <1>3, <1>4

LEMMA CheckRstTables ==
  ASSUME Tables, NEW vf \in VFs, CheckRst(vf)
  PROVE  Tables' /\ \A u \in VFs : Untouched(u) /\ vfd'[u].cts = vfd[u].cts
<1>1. CASE ~WasReset(vf)
  BY <1>1, QuietTables DEF CheckRst
<1>2. CASE WasReset(vf)
  <2>1. PICK addr \in Macs, mem \in BOOLEAN :
          vfd' = Forget(vfd, vf, addr) /\ nic' = VfReset(vfd', vf, mem)
    <3>1. vfd[vf].mac \in Macs
      BY DEF Tables, TablesTyped, VfData
    <3> QED BY <1>2, <3>1 DEF CheckRst
  <2> DEFINE d == vfd'
             m == nic'
  <2>2. d = Forget(vfd, vf, addr) /\ m = VfReset(d, vf, mem)
    BY <2>1
  <2> HIDE DEF d, m
  <2>3. /\ NicShape(m) /\ Filtered(m) /\ Heard(m, d) /\ m.enabled = nic.enabled
        /\ \A u \in VFs : m.rar[VfRar(u)] = nic.rar[VfRar(u)]
        /\ \A u \in VFs :
             (u = vf \/ vfd[u].cts) /\ vfd[u].pfVlan # 0 =>
               m.vmvir[u] = vfd[u].pfVlan /\ ~m.vmolr[u].aupe
    BY <2>2, ResetTables
  <2>4. /\ d \in [VFs -> VfData]
        /\ \A u \in VFs : d[u].cts = vfd[u].cts /\ d[u].pfVlan = vfd[u].pfVlan
    BY <2>2, ForgetKeeps DEF Tables, TablesTyped
  <2>5. pf' = pf
    BY DEF CheckRst
  <2>6. TablesTyped' /\ Tagged'
    BY <2>3, <2>4, <2>5 DEF Tables, TablesTyped, Tagged, d, m
  <2> QED BY <2>3, <2>4, <2>6, NewTables DEF Untouched, d, m
<1> QED BY <1>1, <1>2

LEMMA RefuseTables ==
  ASSUME Tables, NEW vf \in VFs, Refuse(vf), pf' = pf
  PROVE  /\ Tables' /\ ~vfd'[vf].cts
         /\ \A u \in VFs : Untouched(u) /\ (u # vf => vfd'[u].cts = vfd[u].cts)
<1>1. /\ vfd' \in [VFs -> VfData] /\ ~vfd'[vf].cts /\ nic' = nic
      /\ \A u \in VFs : vfd'[u].mc = vfd[u].mc
      /\ \A u \in VFs : u # vf => vfd'[u].cts = vfd[u].cts /\ vfd'[u].pfVlan = vfd[u].pfVlan
  BY DEF Tables, TablesTyped, VfData, Refuse
<1>2. TablesTyped' /\ Tagged'
  BY <1>1 DEF Tables, TablesTyped, Tagged
<1>3. Filtered(nic') /\ (pf'.up => Heard(nic', vfd'))
  BY <1>1, TablesFacts DEF Heard
<1> QED BY <1>1, <1>2, <1>3, NewTables DEF Untouched

(* A guest starts: it gets its address, and is in no VLAN but the          *)
(* administrator's.                                                         *)
LEMMA ResetMsgTables ==
  ASSUME Tables, NEW vf \in VFs, VfResetMsg(vf), pf' = pf
  PROVE  /\ Tables'
         /\ \A u \in VFs : u # vf => Untouched(u) /\ vfd'[u].cts = vfd[u].cts
         /\ Hears(nic', vf, vfd'[vf].mac) /\ vfd'[vf].mac = vfd[vf].mac
         /\ Entries(nic', vf) \subseteq {vfd'[vf].pfVlan}
<1> DEFINE addr == vfd[vf].mac
           d == Forget(vfd, vf, addr)
           c == [d EXCEPT ![vf].cts = TRUE]
<1>1. addr \in Macs /\ vfd \in [VFs -> VfData] /\ NicShape(nic)
  BY DEF Tables, TablesTyped, VfData
<1> HIDE DEF addr
<1>2. /\ d \in [VFs -> VfData] /\ d[vf].mac = addr
      /\ \A u \in VFs : d[u].cts = vfd[u].cts /\ d[u].pfVlan = vfd[u].pfVlan
  BY <1>1, ForgetKeeps
<1>3. PICK mem \in BOOLEAN :
        /\ vfd' = c
        /\ nic' = [RarSetQsel(VfReset(d, vf, mem), d[vf].mac, VfRar(vf), vf) EXCEPT !.enabled = @ \union {vf}]
  BY DEF VfResetMsg, addr
<1> HIDE DEF d
<1>4. /\ c \in [VFs -> VfData] /\ c[vf].mac = addr
      /\ \A u \in VFs : c[u].pfVlan = vfd[u].pfVlan /\ c[u].mc = d[u].mc
      /\ \A u \in VFs : u # vf => c[u].cts = vfd[u].cts
  BY <1>2 DEF VfData
<1> DEFINE m == VfReset(d, vf, mem)
           n == RarSetQsel(m, addr, VfRar(vf), vf)
           o == [n EXCEPT !.enabled = @ \union {vf}]
<1>5. /\ NicShape(m) /\ Filtered(m) /\ Heard(m, d) /\ m.enabled = nic.enabled
      /\ \A u \in VFs : m.rar[VfRar(u)] = nic.rar[VfRar(u)]
      /\ \A u \in VFs :
           (u = vf \/ vfd[u].cts) /\ vfd[u].pfVlan # 0 =>
             m.vmvir[u] = vfd[u].pfVlan /\ ~m.vmolr[u].aupe
      /\ Entries(m, vf) \subseteq {vfd[vf].pfVlan}
  <2>1. d = Forget(vfd, vf, addr) /\ m = VfReset(d, vf, mem)
    BY DEF d
  <2> HIDE DEF m
  <2> QED BY <1>1, <2>1, ResetTables
<1>6. nic' = o
  <2>1. d[vf].mac = addr
    BY <1>2
  <2> QED BY <1>3, <2>1, Zenon
<1> HIDE DEF c, m
<1>7. AddressSet(m, n, vf, addr)
  BY <1>5, VfAddress, Zenon
<1> HIDE DEF n
<1>8. /\ NicShape(o) /\ SameVlans(m, o) /\ o.mta = m.mta /\ o.vmolr = m.vmolr /\ o.vmvir = m.vmvir
      /\ o.enabled = m.enabled \union {vf}
      /\ o.rar[VfRar(vf)] = [mac |-> addr, pool |-> vf]
      /\ \A u \in VFs \ {vf} : o.rar[VfRar(u)] = m.rar[VfRar(u)]
  BY <1>7 DEF AddressSet, NicShape, SameVlans
<1> HIDE DEF o
<1>9. /\ NicShape(o) /\ Filtered(o) /\ Heard(o, c) /\ Entries(o, vf) \subseteq {c[vf].pfVlan}
  BY <1>4, <1>5, <1>8 DEF SameVlans, Filtered, Heard, Entries
<1>10. TablesTyped' /\ Tagged'
  <2>1. \A u \in VFs : c[u].cts /\ c[u].pfVlan # 0 => o.vmvir[u] = c[u].pfVlan /\ ~o.vmolr[u].aupe
    BY <1>4, <1>5, <1>8
  <2>2. vfd' = c /\ nic' = o
    BY <1>3, <1>6
  <2>3. Tagged'
    BY <2>1, <2>2 DEF Tagged
  <2>4. TablesTyped'
    BY <1>4, <1>9, <2>2 DEF Tables, TablesTyped
  <2> QED BY <2>3, <2>4
<1>11. Tables'
  BY <1>3, <1>6, <1>9, <1>10, NewTables
<1>12. \A u \in VFs : u # vf => Untouched(u) /\ vfd'[u].cts = vfd[u].cts
  BY <1>3, <1>4, <1>5, <1>6, <1>8 DEF Untouched
<1> QED BY <1>3, <1>4, <1>6, <1>8, <1>9, <1>11, <1>12 DEF Hears, addr

(* What is asked for is done. *)
LEMMA MacTables ==
  ASSUME Tables, NEW vf \in VFs, NEW addr \in Macs, SetVfMac(vf, addr), pf' = pf
  PROVE  /\ Tables' /\ (vf \in nic'.enabled => Hears(nic', vf, addr))
         /\ nic'.enabled = nic.enabled
         /\ \A u \in VFs : vfd'[u].cts = vfd[u].cts /\ (u # vf => Untouched(u))
<1>1. /\ vfd' \in [VFs -> VfData]
      /\ \A u \in VFs : /\ vfd'[u].cts = vfd[u].cts /\ vfd'[u].mc = vfd[u].mc
                        /\ vfd'[u].pfVlan = vfd[u].pfVlan
  BY DEF Tables, TablesTyped, VfData, SetVfMac
<1>2. nic' = RarSetQsel(nic, addr, VfRar(vf), vf) /\ NicShape(nic)
  BY TablesFacts DEF SetVfMac
<1>3. AddressSet(nic, nic', vf, addr)
  BY <1>2, VfAddress, Zenon
<1>4. Filtered(nic') /\ (pf'.up => Heard(nic', vfd'))
  BY <1>1, <1>3, TablesFacts DEF AddressSet, SameVlans, Filtered, Heard
<1>5. TablesTyped' /\ Tagged'
  BY <1>1, <1>3 DEF Tables, TablesTyped, Tagged, AddressSet
<1>6. Tables'
  BY <1>4, <1>5, NewTables
<1> QED BY <1>1, <1>3, <1>6 DEF Untouched, AddressSet, Hears

LEMMA MulticastTables ==
  ASSUME Tables, NEW vf \in VFs, NEW mc \in {Many} \union SUBSET Hashes, SetVfMulticasts(vf, mc), pf' = pf
  PROVE  Tables' /\ \A u \in VFs : Untouched(u) /\ vfd'[u].cts = vfd[u].cts
<1>1. /\ vfd' \in [VFs -> VfData]
      /\ \A u \in VFs : vfd'[u].cts = vfd[u].cts /\ vfd'[u].pfVlan = vfd[u].pfVlan
  BY DEF Tables, TablesTyped, VfData, SetVfMulticasts
<1>2. ListsOK(vfd')
  BY <1>1 DEF ListsOK, VfData
<1>3. RxModeOnly(nic, nic') /\ Heard(nic', vfd')
  <2>1. PICK mem \in BOOLEAN : nic' = SetRxMode(nic, pf, vfd', mem)
    BY DEF SetVfMulticasts
  <2> DEFINE d == vfd'
  <2>2. nic' = SetRxMode(nic, pf, d, mem) /\ ListsOK(d)
    BY <1>2, <2>1
  <2> HIDE DEF d
  <2>3. RxModeOnly(nic, nic') /\ Heard(nic', d)
    BY <2>2, TablesFacts, SetRxModeKeeps
  <2> QED BY <2>3 DEF d
<1>4. Filtered(nic')
  BY <1>3, TablesFacts DEF RxModeOnly, SameVlans, Filtered
<1>5. TablesTyped' /\ Tagged'
  BY <1>1, <1>3, PoolFacts DEF Tables, TablesTyped, Tagged, RxModeOnly
<1> QED BY <1>1, <1>3, <1>4, <1>5, NewTables DEF Untouched, RxModeOnly

LEMMA PromiscTables ==
  ASSUME Tables, NEW vf \in VFs, NEW on \in BOOLEAN, SetVfPromisc(vf, on), pf' = pf
  PROVE  Tables' /\ \A u \in VFs : Untouched(u) /\ vfd'[u].cts = vfd[u].cts
<1> DEFINE mc == vfd[vf].mc
           m == MtaSet(nic, IF on THEN {} ELSE mc)
           mpme == on \/ mc = Many
           rompe == ~on /\ mc \notin {Many, {}}
           o == [m EXCEPT !.vmolr[vf].mpme = mpme, !.vmolr[vf].rompe = rompe]
<1>1. /\ vfd' \in [VFs -> VfData]
      /\ \A u \in VFs : /\ vfd'[u].cts = vfd[u].cts /\ vfd'[u].mc = vfd[u].mc
                        /\ vfd'[u].pfVlan = vfd[u].pfVlan
  BY DEF Tables, TablesTyped, VfData, SetVfPromisc
<1>2. nic' = o
  BY DEF SetVfPromisc
<1>3. /\ NicShape(m) /\ SameVlans(nic, m) /\ m.rar = nic.rar /\ m.vmolr = nic.vmolr
      /\ m.vmvir = nic.vmvir /\ m.enabled = nic.enabled
      /\ m.mta = nic.mta \union ((IF on THEN {} ELSE mc) \ Many)
  BY TablesFacts DEF MtaSet, NicShape, SameVlans
<1> HIDE DEF m, mpme, rompe
<1>4. /\ NicShape(o) /\ SameVlans(m, o) /\ o.rar = m.rar /\ o.mta = m.mta
      /\ o.vmvir = m.vmvir /\ o.enabled = m.enabled
      /\ o.vmolr[vf].mpme = mpme /\ o.vmolr[vf].rompe = rompe
      /\ \A u \in VFs : o.vmolr[u].aupe = m.vmolr[u].aupe
      /\ \A u \in VFs \ {vf} : o.vmolr[u].mpme = m.vmolr[u].mpme /\ o.vmolr[u].rompe = m.vmolr[u].rompe
  BY <1>3, PoolFacts DEF NicShape, SameVlans
<1> HIDE DEF o
<1>5. ~on /\ mc # Many => mc \subseteq o.mta
  <2>1. mc # Many => mc \cap Many = {}
    BY TablesFacts, VfAssumption DEF ListsOK
  <2> HIDE DEF mc
  <2> QED BY <1>3, <1>4, <2>1
<1>6. pf'.up => Heard(nic', vfd')
  <2> SUFFICES ASSUME Heard(nic, vfd) PROVE Heard(o, vfd)
    BY <1>1, <1>2, TablesFacts DEF Heard
  <2>1. \/ o.vmolr[vf].mpme
        \/ mc = {}
        \/ mc # Many /\ o.vmolr[vf].rompe /\ mc \subseteq o.mta
    BY <1>4, <1>5 DEF mpme, rompe
  <2> QED BY <1>3, <1>4, <2>1 DEF Heard
<1>7. Filtered(nic')
  BY <1>2, <1>3, <1>4, TablesFacts DEF SameVlans, Filtered
<1>8. TablesTyped' /\ Tagged'
  BY <1>1, <1>2, <1>3, <1>4 DEF Tables, TablesTyped, Tagged
<1> QED BY <1>1, <1>2, <1>3, <1>4, <1>6, <1>7, <1>8, NewTables DEF Untouched

LEMMA VlanTables ==
  ASSUME Tables, NEW vf \in VFs, NEW vid, NEW add \in BOOLEAN, SetVfVlan(vf, vid, add), pf' = pf
  PROVE  Tables' /\ \A u \in VFs : Untouched(u) /\ vfd'[u].cts = vfd[u].cts
<1>1. nic' = VlvfSet(nic, vid, add, vf) /\ vfd' = vfd
  BY DEF SetVfVlan
<1>2. VlansOnly(nic, nic') /\ Filtered(nic')
  BY <1>1, TablesFacts, VlvfSetKeeps
<1>3. {"up", "vlans", "mc", "uc", "mode"} \subseteq DOMAIN pf'
  BY DEF Tables, TablesTyped
<1> QED BY <1>1, <1>2, <1>3, VlansTables

-----------------------------------------------------------------------------
(* What a guest and the driver say to each other.  A request in the mailbox *)
(* is the one that the guest waits for; an answer that lets it go on grants *)
(* what it has asked for, and never lets it start while it starts.          *)
Dialog(g, b) ==
  /\ g.st \in {"off", "ready", "wait"} /\ (g.st = "wait" => g.req \in Wishes)
  /\ b.from = "guest" => b.req \in Wishes /\ (g.st = "off" \/ (g.st = "wait" /\ g.req = b.req))
  /\ b.from = "pf" /\ b.cts => (b.req[1] = "mac" => b.ok) /\ b.req # <<"reset">>

(* The address that the guest has, or will have when it has taken the      *)
(* message in its mailbox, is the one that the NIC knows.                   *)
Promised(vf) ==
  LET g == guest[vf]  b == box[vf] IN
  /\ g.st = "ready" => Hears(nic, vf, g.mac)
  /\ g.st = "wait" /\ g.req[1] \notin {"reset", "mac"} => Hears(nic, vf, g.mac)
  /\ g.st = "wait" /\ b.from = "pf" /\ b.req = g.req /\ b.ok =>
       /\ g.req = <<"reset">> => Hears(nic, vf, b.mac)
       /\ g.req[1] = "mac" => Hears(nic, vf, g.req[2])

Hearing(vf) ==
  /\ Dialog(guest[vf], box[vf])
  /\ vfd[vf].cts => vf \in nic.enabled
  /\ vfd[vf].cts /\ vf \notin moved => Promised(vf)

DialogTyped ==
  /\ DOMAIN box = VFs /\ DOMAIN guest = VFs
  /\ \A vf \in VFs : {"st", "mac", "req"} \subseteq DOMAIN guest[vf]

VfInv == Tables /\ DialogTyped /\ \A vf \in VFs : Hearing(vf)

(* What the driver says without having been asked lets nobody start.       *)
LEMMA ControlDialog ==
  ASSUME NEW g, NEW b, Dialog(g, b), NEW cts \in BOOLEAN
  PROVE  Dialog(g, Control(cts))
<1>1. Control(cts).from = "pf" /\ Control(cts).req = <<"control">>
  BY DEF Control, Answer
<1> HIDE DEF Control
<1> QED BY <1>1 DEF Dialog

(* A VF whose guest, mailbox and address a step leaves alone.               *)
LEMMA SameHearing ==
  ASSUME NEW u \in VFs, Hearing(u), guest'[u] = guest[u], box'[u] = box[u], Untouched(u),
         vfd'[u].cts => vfd[u].cts, u \in moved => u \in moved'
  PROVE  Hearing(u)'
<1>1. \A addr : Hears(nic, u, addr) => Hears(nic', u, addr)
  BY DEF Hears, Untouched
<1>2. vfd[u].cts /\ u \notin moved /\ Promised(u) => Promised(u)'
  BY <1>1 DEF Promised
<1> QED BY <1>2 DEF Hearing, Dialog, Untouched

(* A message from the driver that is not an answer, or no message. *)
LEMMA OtherMessage ==
  ASSUME NEW u \in VFs, Hearing(u), guest'[u] = guest[u], Untouched(u),
         vfd'[u].cts => vfd[u].cts, u \in moved => u \in moved',
         \/ box'[u].from = "nobody"
         \/ box'[u].from = "pf" /\ box'[u].req \in {<<"control">>, <<"none">>}
  PROVE  Hearing(u)'
<1>1. \A addr : Hears(nic, u, addr) => Hears(nic', u, addr)
  BY DEF Hears, Untouched
<1>2. Dialog(guest'[u], box'[u])
  BY DEF Hearing, Dialog
<1>3. guest[u].st = "wait" => guest[u].req \in Wishes
  BY DEF Hearing, Dialog
<1>4. guest[u].st = "wait" => guest[u].req # <<"control">> /\ guest[u].req # <<"none">>
  BY <1>3, RequestForms
<1>5. Promised(u) => Promised(u)'
  BY <1>1, <1>4 DEF Promised
<1> QED BY <1>2, <1>5 DEF Hearing, Dialog, Untouched

(* Where the VF is not clear to send, or its address was changed.          *)
LEMMA Unpromised ==
  ASSUME NEW u \in VFs, Dialog(guest'[u], box'[u]),
         ~vfd'[u].cts \/ (u \in moved' /\ u \in nic'.enabled)
  PROVE  Hearing(u)'
BY DEF Hearing, Dialog

LEMMA VfInitial == VfInit => VfInv
<1> SUFFICES ASSUME VfInit PROVE VfInv
  OBVIOUS
<1>1. Tables
  BY TablesInitial
<1>2. DialogTyped /\ \A vf \in VFs : guest[vf].st = "off" /\ box[vf].from = "pf" /\ ~box[vf].cts
  BY DEF VfInit, DialogTyped, Off, Control, Answer
<1>3. \A vf \in VFs : ~vfd[vf].cts
  BY DEF VfInit
<1>4. \A vf \in VFs : Hearing(vf)
  BY <1>2, <1>3 DEF Hearing, Dialog
<1> QED BY <1>1, <1>2, <1>4 DEF VfInv

(* A step that concerns one VF. *)
LEMMA OneVf ==
  ASSUME VfInv, Tables', DialogTyped', NEW vf \in VFs, Hearing(vf)',
         \A u \in VFs \ {vf} :
           /\ guest'[u] = guest[u] /\ box'[u] = box[u] /\ Untouched(u)
           /\ vfd'[u].cts => vfd[u].cts
           /\ u \in moved => u \in moved'
  PROVE  VfInv'
<1>1. ASSUME NEW u \in VFs PROVE Hearing(u)'
  <2>1. CASE u = vf
    BY <2>1
  <2>2. CASE u # vf
    <3>1. Hearing(u)
      BY DEF VfInv
    <3> QED BY <2>2, <3>1, SameHearing
  <2> QED BY <2>1, <2>2
<1> QED BY <1>1 DEF VfInv

(* A step that is no part of any dialog. *)
LEMMA NoVf ==
  ASSUME VfInv, Tables', UNCHANGED <<guest, box, moved>>,
         \A u \in VFs : Untouched(u) /\ vfd'[u].cts = vfd[u].cts
  PROVE  VfInv'
<1>1. \A u \in VFs : Hearing(u)'
  BY SameHearing DEF VfInv
<1>2. DialogTyped'
  BY DEF VfInv, DialogTyped
<1> QED BY <1>1, <1>2 DEF VfInv

LEMMA StackStep ==
  ASSUME VfInv,
         \/ PfUp \/ ChangeRxMode \/ MsgTask
         \/ \E vid \in Vids : ChangeVlans(vid)
         \/ \E vf \in VFs : CheckRst(vf)
         \/ \E vf \in VFs, vlan \in Vids, prio \in BOOLEAN : AdminSetsVlan(vf, vlan, prio)
         \/ UNCHANGED vfVars
  PROVE  VfInv'
<1>0. Tables
  BY DEF VfInv
<1>1. CASE PfUp
  BY <1>0, <1>1, UpTables, NoVf DEF PfUp
<1>2. CASE ChangeRxMode
  BY <1>0, <1>2, RxModeTables, NoVf DEF ChangeRxMode
<1>3. CASE MsgTask
  BY <1>0, <1>3, QuietTables, NoVf DEF MsgTask
<1>4. CASE \E vid \in Vids : ChangeVlans(vid)
  BY <1>0, <1>4, ChangeVlansTables, NoVf DEF ChangeVlans
<1>5. CASE \E vf \in VFs : CheckRst(vf)
  BY <1>0, <1>5, CheckRstTables, NoVf DEF CheckRst
<1>6. CASE \E vf \in VFs, vlan \in Vids, prio \in BOOLEAN : AdminSetsVlan(vf, vlan, prio)
  BY <1>0, <1>6, AdminVlanTables, NoVf DEF AdminSetsVlan
<1>7. CASE UNCHANGED vfVars
  BY <1>0, <1>7, QuietTables, NoVf DEF vfVars
<1> QED BY <1>1, <1>2, <1>3, <1>4, <1>5, <1>6, <1>7

LEMMA PingDialog ==
  ASSUME VfInv, NEW d, \A u \in VFs : d[u].cts \in BOOLEAN, PingAllVfs(d), guest' = guest
  PROVE  /\ DialogTyped'
         /\ \A u \in VFs : box'[u] = box[u] \/ box'[u] = Control(d[u].cts)
         /\ \A u \in VFs : Dialog(guest'[u], box'[u])
<1>1. DOMAIN box' = VFs /\ \A u \in VFs : box'[u] = box[u] \/ box'[u] = Control(d[u].cts)
  BY DEF PingAllVfs
<1>2. \A u \in VFs : Dialog(guest[u], box[u])
  BY DEF VfInv, Hearing
<1>3. \A u \in VFs : Dialog(guest'[u], box'[u])
  BY <1>1, <1>2, ControlDialog
<1>4. DialogTyped'
  BY <1>1 DEF VfInv, DialogTyped
<1> QED BY <1>1, <1>3, <1>4

LEMMA PingStep ==
  ASSUME VfInv, PfDown \/ LinkChanged
  PROVE  VfInv'
<1>0. Tables
  BY DEF VfInv
<1>1. CASE PfDown
  <2> DEFINE d == [vf \in VFs |-> [vfd[vf] EXCEPT !.cts = FALSE, !.pfMac = FALSE]]
  <2>1. \A u \in VFs : d[u].cts \in BOOLEAN
    BY <1>0 DEF Tables, TablesTyped, VfData
  <2>2. PingAllVfs(d) /\ guest' = guest
    BY <1>1 DEF PfDown
  <2> HIDE DEF d
  <2>3. DialogTyped' /\ \A u \in VFs : Dialog(guest'[u], box'[u])
    BY <2>1, <2>2, PingDialog
  <2>4. Tables' /\ \A u \in VFs : ~vfd'[u].cts
    BY <1>0, <1>1, DownTables
  <2>5. \A u \in VFs : Hearing(u)'
    BY <2>3, <2>4, Unpromised
  <2> QED BY <2>3, <2>4, <2>5 DEF VfInv
<1>2. CASE LinkChanged
  <2>1. \A u \in VFs : vfd[u].cts \in BOOLEAN
    BY <1>0 DEF Tables, TablesTyped, VfData
  <2>2. PingAllVfs(vfd) /\ guest' = guest
    BY <1>2 DEF LinkChanged
  <2>3. DialogTyped' /\ \A u \in VFs : box'[u] = box[u] \/ box'[u] = Control(vfd[u].cts)
    BY <2>1, <2>2, PingDialog
  <2>4. Tables' /\ \A u \in VFs : Untouched(u) /\ vfd'[u].cts = vfd[u].cts
    BY <1>0, <1>2, QuietTables DEF LinkChanged
  <2>5. ASSUME NEW u \in VFs PROVE Hearing(u)'
    <3>1. Hearing(u) /\ guest'[u] = guest[u] /\ moved' = moved
      BY <1>2 DEF VfInv, LinkChanged
    <3>2. CASE box'[u] = box[u]
      BY <2>4, <3>1, <3>2, SameHearing
    <3>3. CASE box'[u] = Control(vfd[u].cts)
      <4>1. box'[u].from = "pf" /\ box'[u].req \in {<<"control">>, <<"none">>}
        BY <3>3 DEF Control, Answer
      <4> QED BY <2>4, <3>1, <4>1, OtherMessage
    <3> QED BY <2>3, <3>2, <3>3
  <2> QED BY <2>3, <2>4, <2>5 DEF VfInv
<1> QED BY <1>1, <1>2

LEMMA AdminMacStep ==
  ASSUME VfInv, NEW vf \in VFs, NEW addr \in Macs, AdminSetsMac(vf, addr)
  PROVE  VfInv'
<1>1. Tables' /\ \A u \in VFs : vfd'[u].cts = vfd[u].cts /\ (u # vf => Untouched(u))
  BY AdminMacTables DEF VfInv
<1>2. guest' = guest /\ box' = box /\ moved' = moved \union {vf} /\ nic'.enabled = nic.enabled
  BY DEF AdminSetsMac, RarSetQsel, VfInv, Tables, TablesTyped, NicShape
<1>3. DialogTyped' /\ Dialog(guest'[vf], box'[vf]) /\ (vfd'[vf].cts => vf \in nic'.enabled)
  BY <1>1, <1>2 DEF VfInv, DialogTyped, Hearing
<1>4. Hearing(vf)'
  BY <1>2, <1>3, Unpromised
<1> QED BY <1>1, <1>2, <1>3, <1>4, OneVf

-----------------------------------------------------------------------------
(* The messages.                                                            *)
LEMMA ReplyShape ==
  ASSUME DOMAIN box = VFs, NEW vf \in VFs, NEW message, Reply(vf, message)
  PROVE  /\ DOMAIN box' = VFs
         /\ \A u \in VFs : u # vf => box'[u] = box[u]
         /\ box'[vf] = message \/ box'[vf] = Nothing
BY DEF Reply, WriteMbx, NoReply

LEMMA RefuseStep ==
  ASSUME VfInv, NEW vf \in VFs, Refuse(vf), UNCHANGED <<pf, guest>>
  PROVE  VfInv'
<1>1. /\ Tables' /\ ~vfd'[vf].cts
      /\ \A u \in VFs : Untouched(u) /\ (u # vf => vfd'[u].cts = vfd[u].cts)
  BY RefuseTables DEF VfInv
<1>2. moved' = moved /\ Reply(vf, Answer(box[vf].req, FALSE, FALSE, "none"))
  BY DEF Refuse
<1> DEFINE b == Answer(box[vf].req, FALSE, FALSE, "none")
<1>3. b.from = "pf" /\ ~b.cts /\ Nothing.from = "nobody"
  BY DEF Answer, Nothing
<1> HIDE DEF b
<1>4. /\ DOMAIN box' = VFs
      /\ \A u \in VFs : u # vf => box'[u] = box[u]
      /\ box'[vf] = b \/ box'[vf] = Nothing
  BY <1>2, ReplyShape DEF VfInv, DialogTyped, b
<1>5. Dialog(guest'[vf], box'[vf]) /\ DialogTyped'
  BY <1>3, <1>4 DEF VfInv, Hearing, Dialog, DialogTyped
<1>6. Hearing(vf)'
  BY <1>1, <1>5, Unpromised
<1> QED BY <1>1, <1>2, <1>4, <1>5, <1>6, OneVf

LEMMA ResetMsgStep ==
  ASSUME VfInv, NEW vf \in VFs, Asked(vf), box[vf].req[1] = "reset", VfResetMsg(vf), UNCHANGED <<pf, guest>>
  PROVE  VfInv'
<1>1. /\ Tables'
      /\ \A u \in VFs : u # vf => Untouched(u) /\ vfd'[u].cts = vfd[u].cts
      /\ Hears(nic', vf, vfd'[vf].mac) /\ vfd'[vf].mac = vfd[vf].mac
  BY ResetMsgTables DEF VfInv
<1> DEFINE addr == vfd[vf].mac
           b == Answer(<<"reset">>, TRUE, FALSE, addr)
<1>2. moved' = moved \ {vf} /\ Reply(vf, b)
  <2>1. addr \in Macs /\ vfd \in [VFs -> VfData]
    BY DEF VfInv, Tables, TablesTyped, VfData
  <2> HIDE DEF addr
  <2> DEFINE d == Forget(vfd, vf, addr)
  <2>2. d[vf].mac = addr
    BY <2>1, ForgetKeeps
  <2>3. moved' = moved \ {vf} /\ Reply(vf, Answer(<<"reset">>, TRUE, FALSE, d[vf].mac))
    BY DEF VfResetMsg, addr
  <2> QED BY <2>2, <2>3, Zenon
<1>3. b.from = "pf" /\ ~b.cts /\ b.mac = addr /\ Nothing.from = "nobody"
  BY DEF Answer, Nothing
<1> HIDE DEF b
<1>4. /\ DOMAIN box' = VFs
      /\ \A u \in VFs : u # vf => box'[u] = box[u]
      /\ box'[vf] = b \/ box'[vf] = Nothing
  BY <1>2, ReplyShape DEF VfInv, DialogTyped
<1>5. Dialog(guest'[vf], box'[vf]) /\ DialogTyped'
  BY <1>3, <1>4 DEF VfInv, Hearing, Dialog, DialogTyped
<1>6. guest[vf].st = "off" \/ (guest[vf].st = "wait" /\ guest[vf].req[1] = "reset")
  BY DEF VfInv, Hearing, Dialog, Asked
<1>7. Promised(vf)'
  BY <1>1, <1>3, <1>4, <1>6 DEF Promised
<1>8. vf \in nic'.enabled
  BY <1>1 DEF Hears
<1>9. Hearing(vf)'
  BY <1>5, <1>7, <1>8 DEF Hearing, Dialog
<1> QED BY <1>1, <1>2, <1>4, <1>5, <1>9, OneVf

LEMMA HandleStep ==
  ASSUME VfInv, NEW vf \in VFs, Asked(vf), box[vf].req[1] # "reset", vfd[vf].cts,
         Handle(vf, box[vf].req), UNCHANGED <<pf, guest>>
  PROVE  VfInv'
<1> DEFINE r == box[vf].req
           granted == ~(r[1] = "vlan" /\ vfd[vf].pfVlan # 0)
           b == Answer(r, granted, TRUE, "none")
<1>1. Tables /\ Hearing(vf)
  BY DEF VfInv
<1>2. r \in Wishes /\ (guest[vf].st = "off" \/ (guest[vf].st = "wait" /\ guest[vf].req = r))
  BY <1>1 DEF Hearing, Dialog, Asked
<1>3. moved' = moved /\ Reply(vf, b)
  BY DEF Handle
<1>4. b.from = "pf" /\ b.req = r /\ (r[1] = "mac" => b.ok) /\ Nothing.from = "nobody"
  BY DEF Answer, Nothing
<1>5. r[1] # "reset" /\ r # <<"reset">>
  BY <1>2, RequestForms
<1>0. /\ r[1] = "mac" => r[2] \in Macs
      /\ r[1] = "multicast" => r[2] \in {Many} \union SUBSET Hashes
      /\ r[1] = "promisc" => r[2] \in BOOLEAN
      /\ r[1] = "vlan" => r[3] \in BOOLEAN
  BY <1>2, RequestForms
<1> HIDE DEF b
<1>6. /\ DOMAIN box' = VFs
      /\ \A u \in VFs : u # vf => box'[u] = box[u]
      /\ box'[vf] = b \/ box'[vf] = Nothing
  BY <1>3, ReplyShape DEF VfInv, DialogTyped
<1>7. Dialog(guest'[vf], box'[vf]) /\ DialogTyped'
  BY <1>1, <1>4, <1>5, <1>6 DEF VfInv, Hearing, Dialog, DialogTyped
<1>8. ASSUME Tables', \A u \in VFs : vfd'[u].cts = vfd[u].cts /\ (u # vf => Untouched(u)),
             vf \in nic.enabled => vf \in nic'.enabled,
             r[1] = "mac" => Hears(nic', vf, r[2]),
             r[1] # "mac" => Untouched(vf)
      PROVE  VfInv'
  <2>1. vf \in nic'.enabled
    BY <1>1, <1>8 DEF Hearing
  <2>2. vf \notin moved => Promised(vf)'
    <3>1. CASE r[1] = "mac"
      BY <1>2, <1>4, <1>5, <1>6, <1>8, <3>1 DEF Promised
    <3>2. CASE r[1] # "mac"
      <4>1. vf \notin moved => Promised(vf)
        BY <1>1 DEF Hearing
      <4>2. \A addr : Hears(nic, vf, addr) => Hears(nic', vf, addr)
        BY <1>8, <3>2 DEF Hears, Untouched
      <4> QED BY <1>2, <1>4, <1>5, <1>6, <3>2, <4>1, <4>2 DEF Promised
    <3> QED BY <3>1, <3>2
  <2>3. Hearing(vf)'
    BY <1>3, <1>7, <2>1, <2>2 DEF Hearing, Dialog
  <2> QED BY <1>3, <1>6, <1>7, <1>8, <2>3, OneVf
<1> HIDE DEF r
<1>9. CASE r[1] = "mac" /\ SetVfMac(vf, r[2])
  <2>1. /\ Tables' /\ (vf \in nic'.enabled => Hears(nic', vf, r[2])) /\ nic'.enabled = nic.enabled
        /\ \A u \in VFs : vfd'[u].cts = vfd[u].cts /\ (u # vf => Untouched(u))
    BY <1>0, <1>1, <1>9, MacTables
  <2>2. vf \in nic.enabled
    BY <1>1 DEF Hearing
  <2> QED BY <1>8, <1>9, <2>1, <2>2
<1>10. CASE r[1] = "multicast" /\ SetVfMulticasts(vf, r[2])
  BY <1>0, <1>1, <1>8, <1>10, MulticastTables DEF Untouched
<1>11. CASE r[1] = "promisc" /\ SetVfPromisc(vf, r[2])
  BY <1>0, <1>1, <1>8, <1>11, PromiscTables DEF Untouched
<1>12. CASE r[1] = "vlan" /\ SetVfVlan(vf, r[2], r[3])
  BY <1>0, <1>1, <1>8, <1>12, VlanTables DEF Untouched
<1>13. CASE ~granted /\ UNCHANGED <<nic, vfd>>
  <2>1. r[1] = "vlan"
    BY <1>13
  <2>2. Tables' /\ \A u \in VFs : Untouched(u) /\ vfd'[u].cts = vfd[u].cts
    BY <1>1, <1>13, QuietTables
  <2> QED BY <1>8, <2>1, <2>2 DEF Untouched
<1> QED BY <1>9, <1>10, <1>11, <1>12, <1>13 DEF Handle, r

(* Only a guest that starts becomes clear to send, and its VF is then in no *)
(* VLAN but the administrator's.                                            *)
Isolating ==
  \A vf \in VFs : vfd'[vf].cts /\ ~vfd[vf].cts => Entries(nic', vf) \subseteq {vfd'[vf].pfVlan}

LEMMA HandleKeepsClearance ==
  ASSUME Tables, NEW vf \in VFs, NEW r, Handle(vf, r)
  PROVE  \A u \in VFs : vfd'[u].cts = vfd[u].cts
<1>1. vfd \in [VFs -> VfData]
  BY DEF Tables, TablesTyped
<1>2. \/ SetVfMac(vf, r[2]) \/ SetVfMulticasts(vf, r[2]) \/ SetVfPromisc(vf, r[2])
      \/ SetVfVlan(vf, r[2], r[3]) \/ UNCHANGED <<nic, vfd>>
  BY DEF Handle
<1> QED BY <1>1, <1>2 DEF VfData, SetVfMac, SetVfMulticasts, SetVfPromisc, SetVfVlan

LEMMA RcvMsgStep ==
  ASSUME VfInv, NEW vf \in VFs, RcvMsg(vf)
  PROVE  VfInv' /\ Isolating
<1> DEFINE r == box[vf].req
<1>0. Tables
  BY DEF VfInv
<1>1. UNCHANGED <<pf, guest>>
  BY DEF RcvMsg
<1>2. CASE ~Asked(vf)
  <2>1. UNCHANGED <<nic, vfd, box, moved>>
    BY <1>2 DEF RcvMsg
  <2>2. Tables' /\ \A u \in VFs : Untouched(u) /\ vfd'[u].cts = vfd[u].cts
    BY <1>0, <1>1, <2>1, QuietTables
  <2> QED BY <1>1, <2>1, <2>2, NoVf DEF Isolating
<1>3. CASE Asked(vf) /\ Refuse(vf)
  BY <1>0, <1>1, <1>3, RefuseStep, RefuseTables DEF Isolating
<1>4. CASE Asked(vf) /\ r[1] = "reset" /\ VfResetMsg(vf)
  BY <1>0, <1>1, <1>4, ResetMsgStep, ResetMsgTables DEF Isolating
<1>5. CASE Asked(vf) /\ r[1] # "reset" /\ vfd[vf].cts /\ Handle(vf, r)
  BY <1>0, <1>1, <1>5, HandleStep, HandleKeepsClearance DEF Isolating
<1> QED BY <1>2, <1>3, <1>4, <1>5 DEF RcvMsg

LEMMA RcvAckStep ==
  ASSUME VfInv, NEW vf \in VFs, RcvAck(vf)
  PROVE  VfInv'
<1> DEFINE b == Answer(<<"none">>, FALSE, FALSE, "none")
<1>1. UNCHANGED <<nic, pf, vfd, guest, moved>> /\ (Reply(vf, b) \/ UNCHANGED box)
  BY DEF RcvAck
<1>2. Tables' /\ \A u \in VFs : Untouched(u) /\ vfd'[u].cts = vfd[u].cts
  BY <1>1, QuietTables DEF VfInv
<1>3. b.from = "pf" /\ b.req = <<"none">> /\ Nothing.from = "nobody"
  BY DEF Answer, Nothing
<1> HIDE DEF b
<1>4. CASE UNCHANGED box
  BY <1>1, <1>2, <1>4, NoVf
<1>5. CASE Reply(vf, b)
  <2>1. /\ DOMAIN box' = VFs
        /\ \A u \in VFs : u # vf => box'[u] = box[u]
        /\ box'[vf] = b \/ box'[vf] = Nothing
    BY <1>5, ReplyShape DEF VfInv, DialogTyped
  <2>2. DialogTyped'
    BY <1>1, <2>1 DEF VfInv, DialogTyped
  <2>3. Hearing(vf)'
    <3>1. Hearing(vf)
      BY DEF VfInv
    <3>2. \/ box'[vf].from = "nobody"
          \/ box'[vf].from = "pf" /\ box'[vf].req \in {<<"control">>, <<"none">>}
      BY <1>3, <2>1
    <3> QED BY <1>1, <1>2, <3>1, <3>2, OtherMessage
  <2> QED BY <1>1, <1>2, <2>1, <2>2, <2>3, OneVf
<1> QED BY <1>1, <1>4, <1>5

-----------------------------------------------------------------------------
(* The guest.                                                               *)
LEMMA GuestStep ==
  ASSUME VfInv, UNCHANGED <<nic, pf, vfd, moved>>, NEW vf \in VFs, NEW g, NEW b,
         guest' = [guest EXCEPT ![vf] = g], (box' = box \/ box' = [box EXCEPT ![vf] = b]),
         box'[vf] = b, {"st", "mac", "req"} \subseteq DOMAIN g, Dialog(g, b),
         vfd[vf].cts /\ vf \notin moved => Promised(vf)'
  PROVE  VfInv'
<1>1. Tables' /\ \A u \in VFs : Untouched(u) /\ vfd'[u].cts = vfd[u].cts
  BY QuietTables DEF VfInv
<1>2. /\ DOMAIN box = VFs /\ DOMAIN guest = VFs /\ box'[vf] = b /\ guest'[vf] = g
      /\ \A u \in VFs \ {vf} : box'[u] = box[u] /\ guest'[u] = guest[u]
  BY DEF VfInv, DialogTyped
<1>3. DialogTyped'
  BY <1>2 DEF VfInv, DialogTyped
<1>4. Hearing(vf)'
  BY <1>2 DEF VfInv, Hearing, Dialog
<1> QED BY <1>1, <1>2, <1>3, <1>4, OneVf

LEMMA GuestResetsStep ==
  ASSUME VfInv, NEW vf \in VFs, GuestResets(vf)
  PROVE  VfInv'
<1>1. /\ UNCHANGED <<nic, pf, vfd, moved>>
      /\ guest' = [guest EXCEPT ![vf] = Off] /\ box' = [box EXCEPT ![vf] = Nothing]
  BY DEF GuestResets
<1>2. {"st", "mac", "req"} \subseteq DOMAIN Off /\ Dialog(Off, Nothing) /\ box'[vf] = Nothing
  BY <1>1 DEF Off, Nothing, Dialog, VfInv, DialogTyped
<1>3. Promised(vf)'
  BY <1>1 DEF VfInv, DialogTyped, Promised, Off
<1> QED BY <1>1, <1>2, <1>3, GuestStep

LEMMA GuestAsksStep ==
  ASSUME VfInv, NEW vf \in VFs, NEW r \in Wishes, GuestAsks(vf, r)
  PROVE  VfInv'
<1> DEFINE g == [guest[vf] EXCEPT !.st = "wait", !.req = r]
           b == Asks(r)
<1>1. /\ UNCHANGED <<nic, pf, vfd, moved>> /\ guest[vf].st = (IF r = <<"reset">> THEN "off" ELSE "ready")
      /\ guest' = [guest EXCEPT ![vf] = g] /\ box' = [box EXCEPT ![vf] = b]
  BY DEF GuestAsks
<1>2. /\ DOMAIN box = VFs /\ DOMAIN guest = VFs /\ Hearing(vf)
      /\ {"st", "mac", "req"} \subseteq DOMAIN g /\ g.st = "wait" /\ g.req = r /\ g.mac = guest[vf].mac
  BY DEF VfInv, DialogTyped
<1>3. b.from = "guest" /\ b.req = r
  BY DEF Asks
<1> HIDE DEF g, b
<1>4. Dialog(g, b)
  BY <1>2, <1>3 DEF Dialog
<1>5. guest'[vf] = g /\ box'[vf] = b
  BY <1>1, <1>2
<1>6. vfd[vf].cts /\ vf \notin moved => Promised(vf)'
  <2>1. r # <<"reset">> /\ vfd[vf].cts /\ vf \notin moved => Hears(nic, vf, guest[vf].mac)
    BY <1>1, <1>2 DEF Hearing, Promised
  <2> QED BY <1>1, <1>2, <1>3, <1>5, <2>1 DEF Promised
<1> QED BY <1>1, <1>2, <1>4, <1>5, <1>6, GuestStep

LEMMA GuestGivesUpStep ==
  ASSUME VfInv, NEW vf \in VFs, GuestGivesUp(vf)
  PROVE  VfInv'
<1>1. /\ UNCHANGED <<nic, pf, vfd, moved>> /\ DOMAIN box = VFs /\ DOMAIN guest = VFs /\ Hearing(vf)
      /\ guest' = [guest EXCEPT ![vf] = Off] /\ box' = box
  BY DEF GuestGivesUp, VfInv, DialogTyped
<1>2. {"st", "mac", "req"} \subseteq DOMAIN Off /\ Dialog(Off, box[vf])
  BY <1>1 DEF Off, Hearing, Dialog
<1>3. Promised(vf)'
  BY <1>1 DEF Promised, Off
<1> QED BY <1>1, <1>2, <1>3, GuestStep

LEMMA GuestTakesStep ==
  ASSUME VfInv, NEW vf \in VFs, GuestTakes(vf)
  PROVE  VfInv'
<1> DEFINE old == guest[vf]
           m == box[vf]
           g == Informed(old, m)
           ready(addr) == [st |-> "ready", mac |-> addr, req |-> <<>>]
<1>1. /\ UNCHANGED <<nic, pf, vfd, moved>> /\ m.from = "pf"
      /\ guest' = [guest EXCEPT ![vf] = g] /\ box' = [box EXCEPT ![vf] = Nothing]
  BY DEF GuestTakes, Told
<1>2. DOMAIN box = VFs /\ DOMAIN guest = VFs /\ Hearing(vf) /\ {"st", "mac", "req"} \subseteq DOMAIN old
  BY DEF VfInv, DialogTyped
<1>3. Dialog(old, m) /\ (old.st = "wait" => old.req \in Wishes)
  BY <1>2 DEF Hearing, Dialog
<1>4. \A addr : /\ {"st", "mac", "req"} \subseteq DOMAIN ready(addr)
               /\ ready(addr).st = "ready" /\ ready(addr).mac = addr
  OBVIOUS
<1>5. \/ old.st = "wait" /\ old.req = m.req /\ m.ok /\ m.req = <<"reset">> /\ g = ready(m.mac)
      \/ old.st = "wait" /\ old.req = m.req /\ m.ok /\ m.req[1] = "mac" /\ g = ready(m.req[2])
      \/ /\ old.st = "wait" /\ old.req = m.req /\ m.cts /\ g = ready(old.mac)
         /\ ~(m.ok /\ m.req[1] = "mac")
      \/ g = old
      \/ g = Off
  BY DEF Informed
<1>6. Off.st = "off" /\ {"st", "mac", "req"} \subseteq DOMAIN Off /\ Nothing.from = "nobody"
  BY DEF Off, Nothing
<1> HIDE DEF g, ready
<1>7. {"st", "mac", "req"} \subseteq DOMAIN g /\ Dialog(g, Nothing)
  BY <1>2, <1>3, <1>4, <1>5, <1>6 DEF Dialog
<1>8. guest'[vf] = g /\ box'[vf] = Nothing
  BY <1>1, <1>2
<1>9. ASSUME Promised(vf) PROVE Promised(vf)'
  <2>1. CASE old.st = "wait" /\ old.req = m.req /\ m.ok /\ m.req = <<"reset">> /\ g = ready(m.mac)
    BY <1>1, <1>4, <1>8, <1>9, <2>1 DEF Promised
  <2>2. CASE old.st = "wait" /\ old.req = m.req /\ m.ok /\ m.req[1] = "mac" /\ g = ready(m.req[2])
    BY <1>1, <1>4, <1>8, <1>9, <2>2 DEF Promised
  <2>3. CASE /\ old.st = "wait" /\ old.req = m.req /\ m.cts /\ g = ready(old.mac)
             /\ ~(m.ok /\ m.req[1] = "mac")
    <3>1. old.req[1] \notin {"reset", "mac"}
      BY <1>1, <1>3, <2>3, RequestForms DEF Dialog
    <3>2. Hears(nic, vf, old.mac)
      BY <1>9, <2>3, <3>1 DEF Promised
    <3> QED BY <1>1, <1>4, <1>8, <2>3, <3>2 DEF Promised
  <2>4. CASE g = old
    BY <1>1, <1>6, <1>8, <1>9, <2>4 DEF Promised
  <2>5. CASE g = Off
    BY <1>6, <1>8, <2>5 DEF Promised
  <2> QED BY <1>5, <2>1, <2>2, <2>3, <2>4, <2>5
<1>10. vfd[vf].cts /\ vf \notin moved => Promised(vf)'
  BY <1>2, <1>9 DEF Hearing
<1> QED BY <1>1, <1>7, <1>8, <1>10, GuestStep

-----------------------------------------------------------------------------
(* A step of anybody.                                                       *)
LEMMA VfStep ==
  ASSUME VfInv, [VfNext /\ UNCHANGED subject]_vfVars
  PROVE  VfInv'
<1>1. CASE \/ PfUp \/ ChangeRxMode \/ MsgTask
           \/ \E vid \in Vids : ChangeVlans(vid)
           \/ \E vf \in VFs : CheckRst(vf)
           \/ \E vf \in VFs, vlan \in Vids, prio \in BOOLEAN : AdminSetsVlan(vf, vlan, prio)
           \/ UNCHANGED vfVars
  BY <1>1, StackStep
<1>2. CASE PfDown \/ LinkChanged
  BY <1>2, PingStep
<1>3. ASSUME NEW vf \in VFs, NEW addr \in Macs, AdminSetsMac(vf, addr) PROVE VfInv'
  BY <1>3, AdminMacStep
<1>4. ASSUME NEW vf \in VFs, RcvMsg(vf) PROVE VfInv'
  BY <1>4, RcvMsgStep
<1>5. ASSUME NEW vf \in VFs, RcvAck(vf) PROVE VfInv'
  BY <1>5, RcvAckStep
<1>6. ASSUME NEW vf \in VFs, GuestResets(vf) PROVE VfInv'
  BY <1>6, GuestResetsStep
<1>7. ASSUME NEW vf \in VFs, GuestGivesUp(vf) PROVE VfInv'
  BY <1>7, GuestGivesUpStep
<1>8. ASSUME NEW vf \in VFs, GuestTakes(vf) PROVE VfInv'
  BY <1>8, GuestTakesStep
<1>9. ASSUME NEW vf \in VFs, NEW r \in GuestRequests, GuestAsks(vf, r) PROVE VfInv'
  BY <1>9, GuestWishes, GuestAsksStep
<1> QED BY <1>1, <1>2, <1>3, <1>4, <1>5, <1>6, <1>7, <1>8, <1>9 DEF VfNext

LEMMA VfIsolates ==
  ASSUME VfInv, [VfNext /\ UNCHANGED subject]_vfVars
  PROVE  Isolating
<1>0. Tables
  BY DEF VfInv
<1>1. SUFFICES ASSUME ~\E vf \in VFs : RcvMsg(vf)
               PROVE  \A u \in VFs : vfd'[u].cts => vfd[u].cts
  BY RcvMsgStep DEF Isolating
<1>2. CASE UNCHANGED vfd
  BY <1>2
<1>3. CASE PfDown
  BY <1>0, <1>3, DownTables
<1>4. ASSUME NEW vf \in VFs, NEW addr \in Macs, AdminSetsMac(vf, addr)
      PROVE  \A u \in VFs : vfd'[u].cts => vfd[u].cts
  BY <1>0, <1>4, AdminMacTables
<1>5. ASSUME NEW vf \in VFs, NEW vlan \in Vids, NEW prio \in BOOLEAN, AdminSetsVlan(vf, vlan, prio)
      PROVE  \A u \in VFs : vfd'[u].cts => vfd[u].cts
  BY <1>0, <1>5, AdminVlanTables
<1>6. ASSUME NEW vf \in VFs, CheckRst(vf)
      PROVE  \A u \in VFs : vfd'[u].cts => vfd[u].cts
  BY <1>0, <1>6, CheckRstTables
<1> QED
  BY <1>1, <1>2, <1>3, <1>4, <1>5, <1>6
  DEF VfNext, vfVars, PfUp, ChangeRxMode, LinkChanged, MsgTask, ChangeVlans, RcvAck, GuestResets,
      GuestGivesUp, GuestTakes, GuestAsks

(* The tables and the dialog with the guests stay as they should be.        *)
THEOREM VfInvariance == VfSpec => []VfInv
<1>1. VfInit => VfInv
  BY VfInitial
<1>2. VfInv /\ [VfNext /\ UNCHANGED subject]_vfVars => VfInv'
  BY VfStep
<1> QED BY <1>1, <1>2, PTL DEF VfSpec

(* Of any number of VFs and VLANs, with a table of any size, a VLAN that   *)
(* some pool is registered for passes the filter of the NIC.                *)
THEOREM VlansPass == VfSpec => []FilterKept
<1>1. VfInv => FilterKept
  BY DEF VfInv, Tables
<1> QED BY <1>1, VfInvariance, PTL

(* The multicast addresses of the VFs survive every rewriting of the table *)
(* that they share with the PF.                                             *)
THEOREM MulticastsPass == VfSpec => []HashesHeard
<1>1. VfInv => HashesHeard
  BY DEF VfInv, Tables
<1> QED BY <1>1, VfInvariance, PTL

(* A guest that works hears its own address, whatever was lost, refused or *)
(* answered too late in its dialog with the driver.                         *)
THEOREM OwnAddressPasses == VfSpec => []HearsOwnMac
<1>1. VfInv => HearsOwnMac
  BY DEF VfInv, Hearing, Promised, Hears, HearsOwnMac
<1> QED BY <1>1, VfInvariance, PTL

(* A guest starts in the VLAN of the administrator and in no other, and    *)
(* its frames carry that VLAN's tag as long as it is clear to send.         *)
THEOREM KeptToItsVlan == VfSpec => VlanIsolated
<1>1. VfInv => Tagged
  BY DEF VfInv, Tables
<1>2. VfInv /\ [VfNext /\ UNCHANGED subject]_vfVars => [Isolating]_vfVars
  BY VfIsolates
<1>3. VlanIsolated <=> []Tagged /\ [][Isolating]_vfVars
  BY PTL DEF VlanIsolated, Tagged, Isolating
<1> QED BY <1>1, <1>2, <1>3, VfInvariance, PTL DEF VfSpec
================================================================================
