-------------------------- MODULE IgbMemoryProofs ---------------------------
(***************************************************************************)
(* Proofs about what a NIC and the driver keep in memory: IgbNvm, the      *)
(* EEPROM, for any ports, any size of it, of its pages and of its address, *)
(* any place of the checksum and any requests; and Adapters, the table of  *)
(* rings that processes map, for any NICs, addresses, numbers of queues    *)
(* and of processes, and any number of failures.                           *)
(*                                                                         *)
(* NvmInv: a port that writes has the grant of the chip, and has it        *)
(* because the mark of the driver is its own.  What OneWriter says of two  *)
(* ports follows from what each of the semaphore, the marks and the grant  *)
(* says of the place where a port is in its call.                          *)
(*                                                                         *)
(* LandsInv: a call knows what it will have written when it is over.  The  *)
(* words that it has shifted out so far are in what the chip holds when it *)
(* is deselected (Effective), and the others are as they were.  That the   *)
(* pages do not wrap and that the bits of the address are enough are facts *)
(* about remainders; that the checksum fits is one about a sum, shown by   *)
(* the least number for which it would not hold (Smallest, UpTo).          *)
(*                                                                         *)
(* AdaptersInv: in a complete table no two entries have one address, and   *)
(* each has its NIC; the table only grows, so that one that was complete   *)
(* twice, with as many entries, is the same.  Where a ring is among the    *)
(* pages of all adapters is shown from one adapter to the next (UpTo).     *)
(***************************************************************************)
EXTENDS IgbNvm, Adapters, SequenceTheorems, WellFoundedInduction, TLAPS

(* What is known of the records: they have the fields that are asked for. *)
IsCall(c) == "pc" \in DOMAIN c
IsChip(c) == "mem" \in DOMAIN c
Shapes ==
  /\ IsChip(chip)
  /\ call = [p \in Ports |-> call[p]] /\ \A p \in Ports : IsCall(call[p])

(* Where the calls of the ports are, and which of them have the mark. *)
Doing == [p \in Ports |-> call[p].pc]
Marking(d) == {p \in Ports : d[p] \in {"grant", "write", "unmark"}}

(* The semaphore is with a port that wants to mark or to unmark. *)
SemaphoreInv ==
  /\ swsm = [smbi |-> swsm.smbi, swesmbi |-> swsm.swesmbi]
  /\ swsm.swesmbi = {} \/ swsm.swesmbi = swsm.smbi
  /\ \/ swsm.smbi = {}
     \/ \E p \in Ports : swsm.smbi = {p} /\ Doing[p] \in {"mark", "unmark"}

(* The mark of the driver is there for one port, which comes to unmark. *)
MarkInv ==
  /\ marks \in {{}, {"fw"}, {"sw"}}
  /\ marks # {"sw"} => Marking(Doing) = {}
  /\ marks = {"sw"} => \E p \in Ports : Marking(Doing) = {p}

(* The grant is there for the port that writes. *)
GrantInv ==
  /\ \A p \in Ports : Doing[p] = "write" => grant = {p}
  /\ grant = {} \/ \E p \in Ports : grant = {p} /\ Doing[p] = "write"

(* The inductive invariant. *)
NvmInv == Shapes /\ SemaphoreInv /\ MarkInv /\ GrantInv

-----------------------------------------------------------------------------
LEMMA IdleIsCall == IsCall(Idle) /\ Idle.pc = "idle"
BY DEF IsCall, Idle

LEMMA DisturbedIsCall ==
  ASSUME NEW c, IsCall(c)
  PROVE  IsCall(Disturbed(c)) /\ Disturbed(c).pc = c.pc
<1>1. CASE c.pc = "idle"
  BY <1>1, IdleIsCall DEF Disturbed
<1>2. CASE c.pc # "idle"
  BY <1>2 DEF Disturbed, IsCall
<1> QED BY <1>1, <1>2

LEMMA FailsIsCall ==
  ASSUME NEW c, IsCall(c)
  PROVE  IsCall(Fails(c)) /\ Fails(c).pc = c.pc
<1>1. CASE c.what = "data"
  BY <1>1 DEF Fails, IsCall
<1>2. CASE c.what # "data"
  BY <1>2, DisturbedIsCall DEF Fails
<1> QED BY <1>1, <1>2

LEMMA EndedIsCall ==
  ASSUME NEW c, IsCall(c)
  PROVE  IsCall(Ended(c)) /\ Ended(c).pc = "idle"
<1>1. ASSUME NEW e, IsCall(e)
      PROVE  /\ IsCall([e EXCEPT !.what = c.what, !.req = c.req, !.was = c.was])
             /\ [e EXCEPT !.what = c.what, !.req = c.req, !.was = c.was].pc = e.pc
  BY <1>1 DEF IsCall
<1>2. /\ IsCall([Idle EXCEPT !.what = c.what, !.req = c.req, !.was = c.was])
      /\ [Idle EXCEPT !.what = c.what, !.req = c.req, !.was = c.was].pc = "idle"
  BY <1>1, IdleIsCall
<1> QED BY <1>2, IdleIsCall DEF Ended

(* One call goes on, and the others are where they were. *)
LEMMA OneGoes ==
  ASSUME Shapes, NEW p \in Ports, NEW c, IsCall(c), call' = [call EXCEPT ![p] = c],
         IsChip(chip)'
  PROVE  Shapes' /\ Doing' = [Doing EXCEPT ![p] = c.pc]
BY DEF Shapes, Doing

LEMMA OneGoesAs ==
  ASSUME Shapes, NEW p \in Ports, NEW c, IsCall(c), GoesAs(p, c), IsChip(chip)'
  PROVE  Shapes' /\ Doing' = [Doing EXCEPT ![p] = c.pc]
<1> DEFINE d(q) == IF q = p THEN c ELSE IF chip'.mem = chip.mem THEN call[q] ELSE Disturbed(call[q])
<1>1. \A q \in Ports : IsCall(d(q)) /\ d(q).pc = IF q = p THEN c.pc ELSE call[q].pc
  BY DisturbedIsCall DEF Shapes
<1>2. call' = [q \in Ports |-> d(q)]
  BY DEF GoesAs
<1> HIDE DEF d
<1>3. call' = [q \in Ports |-> call'[q]] /\ \A q \in Ports : call'[q] = d(q)
  BY <1>2
<1>4. Doing' = [q \in Ports |-> IF q = p THEN c.pc ELSE call[q].pc]
  BY <1>1, <1>3 DEF Doing
<1> QED BY <1>1, <1>3, <1>4 DEF Shapes, Doing

LEMMA DeselectIsChip ==
  ASSUME NEW c, IsChip(c)
  PROVE  IsChip(Deselect(c))
BY DEF IsChip, Deselect

LEMMA ShiftsAreChips ==
  ASSUME NEW c, IsChip(c), NEW x
  PROVE  IsChip(ShiftOutOpcode(c, x)) /\ IsChip(ShiftOutAddress(c, x)) /\ IsChip(ShiftOutWords(c, x))
BY DEF IsChip, ShiftOutOpcode, ShiftOutAddress, ShiftOutWords

LEMMA NvmInitial == NvmInit => NvmInv
<1> SUFFICES ASSUME NvmInit PROVE NvmInv
  OBVIOUS
<1>1. Shapes
  BY IdleIsCall DEF NvmInit, Shapes, IsChip
<1>2. \A p \in Ports : Doing[p] = "idle"
  BY DEF NvmInit, Doing, Idle
<1>3. Marking(Doing) = {}
  BY <1>2 DEF Marking
<1>4. SemaphoreInv /\ MarkInv /\ GrantInv
  BY <1>2, <1>3 DEF NvmInit, SemaphoreInv, MarkInv, GrantInv
<1> QED BY <1>1, <1>4 DEF NvmInv

(* What a step does to the calls, by the port p that goes on. *)
LEMMA SetEepromGoes ==
  ASSUME Shapes, NEW p \in Ports, NEW r \in Requests, SetEeprom(p, r)
  PROVE  Shapes' /\ Doing[p] = "idle" /\ Doing' = [Doing EXCEPT ![p] = "edges"]
<1> DEFINE c == [Idle EXCEPT !.pc = "edges", !.what = "data", !.req = r, !.edges = Edges(r),
                  !.at = FirstWord(r), !.words = [k \in 1..Count(r) |-> 0],
                  !.was = chip.mem, !.clean = ~Crosses(r)]
<1>1. IsCall(c) /\ c.pc = "edges"
  BY IdleIsCall DEF IsCall
<1> HIDE DEF c
<1>2. call' = [call EXCEPT ![p] = c] /\ Doing[p] = "idle" /\ chip' = chip
  BY DEF SetEeprom, At, Doing, c
<1> QED BY <1>1, <1>2, OneGoes DEF Shapes

LEMMA ReadEdgeGoes ==
  ASSUME Shapes, NEW p \in Ports, ReadEdge(p)
  PROVE  Shapes' /\ Doing[p] = "edges" /\ Doing' = [Doing EXCEPT ![p] = "edges"]
<1> DEFINE c == call[p]
<1>1. Doing[p] = "edges" /\ c.pc = "edges" /\ IsCall(c) /\ chip' = chip /\ IsChip(chip)
  BY DEF ReadEdge, At, Doing, Shapes
<1>2. CASE call' = [call EXCEPT ![p].edges = Tail(@),
                      ![p].words[Head(c.edges)] = chip.mem[c.at + Head(c.edges) - 1]]
  <2> DEFINE e == Tail(c.edges)
             k == Head(c.edges)
             m == chip.mem[c.at + Head(c.edges) - 1]
             w == [c.words EXCEPT ![k] = m]
             d == [[c EXCEPT !.edges = e] EXCEPT !.words = w]
  <2>1. call' = [call EXCEPT ![p] = d]
    <3>1. [c EXCEPT !.edges = e].words = c.words
      BY <1>1 DEF IsCall
    <3> QED BY <1>1, <1>2, <3>1 DEF Shapes
  <2> HIDE DEF w, e
  <2>2. IsCall(d) /\ d.pc = "edges"
    BY <1>1 DEF IsCall
  <2> HIDE DEF d
  <2> QED BY <1>1, <2>1, <2>2, OneGoes
<1>3. ASSUME NEW word,
             call' = [call EXCEPT ![p] = [Disturbed(c) EXCEPT !.edges = <<>>,
               !.words = [k \in DOMAIN @ |-> IF k \in ToSet(c.edges) THEN word ELSE @[k]]]]
      PROVE  Shapes' /\ Doing' = [Doing EXCEPT ![p] = "edges"]
  <2> DEFINE e == Disturbed(c)
             w == [k \in DOMAIN e.words |-> IF k \in ToSet(c.edges) THEN word ELSE e.words[k]]
             d == [[e EXCEPT !.edges = <<>>] EXCEPT !.words = w]
  <2>1. IsCall(e) /\ e.pc = "edges"
    BY <1>1, DisturbedIsCall
  <2>2. call' = [call EXCEPT ![p] = d]
    <3>1. [e EXCEPT !.edges = <<>>].words = e.words
      BY <2>1 DEF IsCall
    <3> QED BY <1>3, <3>1
  <2> HIDE DEF w, e
  <2>3. IsCall(d) /\ d.pc = "edges"
    BY <2>1 DEF IsCall
  <2> HIDE DEF d
  <2> QED BY <1>1, <2>2, <2>3, OneGoes
<1> QED BY <1>1, <1>2, <1>3 DEF ReadEdge

LEMMA FillBufferGoes ==
  ASSUME Shapes, NEW p \in Ports, FillBuffer(p)
  PROVE  Shapes' /\ Doing[p] = "edges" /\ Doing' = [Doing EXCEPT ![p] = "mark"]
<1> DEFINE c == call[p]
<1>1. Doing[p] = "edges" /\ IsCall(c) /\ chip' = chip /\ IsChip(chip)
  BY DEF FillBuffer, At, Doing, Shapes
<1> DEFINE w == [k \in DOMAIN c.words |-> Merge(c.req, k, c.words[k])]
           d == [[c EXCEPT !.pc = "mark"] EXCEPT !.words = w]
<1>2. call' = [call EXCEPT ![p] = d]
  <2>1. [c EXCEPT !.pc = "mark"].words = c.words
    BY <1>1 DEF IsCall
  <2> QED BY <1>1, <2>1 DEF FillBuffer, Shapes
<1> HIDE DEF w
<1>3. IsCall(d) /\ d.pc = "mark"
  BY <1>1 DEF IsCall
<1> HIDE DEF d
<1> QED BY <1>1, <1>2, <1>3, OneGoes

LEMMA GivesUpGoes ==
  ASSUME Shapes, NEW p \in Ports, GivesUp(p), chip' = chip
  PROVE  Shapes' /\ Doing' = [Doing EXCEPT ![p] = "idle"]
BY IdleIsCall, OneGoes DEF Shapes, GivesUp

LEMMA PcGoes ==
  ASSUME Shapes, NEW p \in Ports, NEW to, Goes(p, to), chip' = chip
  PROVE  Shapes' /\ Doing' = [Doing EXCEPT ![p] = to]
<1> DEFINE d == [call[p] EXCEPT !.pc = to]
<1>1. call' = [call EXCEPT ![p] = d]
  BY DEF Goes, Shapes
<1>2. IsCall(d) /\ d.pc = to
  BY DEF Shapes, IsCall
<1> HIDE DEF d
<1> QED BY <1>1, <1>2, OneGoes DEF Shapes

LEMMA NobodyGoes ==
  ASSUME Shapes, UNCHANGED <<call, chip>>
  PROVE  Shapes' /\ Doing' = Doing
BY DEF Shapes, Doing

LEMMA UnmarkGoes ==
  ASSUME Shapes, NEW p \in Ports, Unmark(p)
  PROVE  Shapes' /\ Doing[p] = "unmark" /\ \E to \in {"sum", "idle"} : Doing' = [Doing EXCEPT ![p] = to]
<1>1. Doing[p] = "unmark" /\ chip' = chip /\ IsCall(call[p]) /\ IsChip(chip)
  BY DEF Unmark, At, Doing, Shapes
<1>2. CASE Goes(p, "sum")
  BY <1>1, <1>2, PcGoes
<1>3. CASE call' = [call EXCEPT ![p] = Ended(call[p])]
  <2> DEFINE d == Ended(call[p])
  <2>1. IsCall(d) /\ d.pc = "idle" /\ call' = [call EXCEPT ![p] = d]
    BY <1>1, <1>3, EndedIsCall
  <2> HIDE DEF d
  <2>2. Shapes' /\ Doing' = [Doing EXCEPT ![p] = "idle"]
    BY <1>1, <2>1, OneGoes
  <2> QED BY <1>1, <2>2
<1> QED BY <1>1, <1>2, <1>3 DEF Unmark

LEMMA AcquireNvmGoes ==
  ASSUME Shapes, NEW p \in Ports, AcquireNvm(p)
  PROVE  /\ Shapes' /\ Doing[p] = "grant"
         /\ \/ grant = {} /\ grant' = {p} /\ Doing' = [Doing EXCEPT ![p] = "write"]
            \/ grant' = grant /\ Doing' = [Doing EXCEPT ![p] = "unmark"]
<1>1. Doing[p] = "grant" /\ chip' = chip /\ IsCall(call[p]) /\ IsChip(chip)
  BY DEF AcquireNvm, At, Doing, Shapes
<1>2. CASE grant = {} /\ grant' = {p} /\ Goes(p, "write")
  <2>1. Shapes' /\ Doing' = [Doing EXCEPT ![p] = "write"]
    BY <1>1, <1>2, PcGoes
  <2> QED BY <1>1, <1>2, <2>1
<1>3. CASE call' = [call EXCEPT ![p] = [Fails(@) EXCEPT !.pc = "unmark"]] /\ grant' = grant
  <2> DEFINE d == [Fails(call[p]) EXCEPT !.pc = "unmark"]
  <2>1. call' = [call EXCEPT ![p] = d]
    BY <1>3
  <2>2. IsCall(d) /\ d.pc = "unmark"
    BY <1>1, FailsIsCall DEF IsCall
  <2> HIDE DEF d
  <2>3. Shapes' /\ Doing' = [Doing EXCEPT ![p] = "unmark"]
    BY <1>1, <2>1, <2>2, OneGoes
  <2> QED BY <1>1, <1>3, <2>3
<1> QED BY <1>1, <1>2, <1>3 DEF AcquireNvm

LEMMA WritePageGoes ==
  ASSUME Shapes, NEW p \in Ports, WritePage(p)
  PROVE  Shapes' /\ Doing[p] = "write" /\ Doing' = [Doing EXCEPT ![p] = "write"]
<1> DEFINE c == call[p]
           wren == ShiftOutOpcode(StandbyNvm(chip), "wren")
           enabled == StandbyNvm(wren)
           write == ShiftOutOpcode(enabled, "write")
           to == ShiftOutAddress(write, Address(c.at, c.at + c.widx))
           full == ShiftOutWords(to, SubSeq(c.words, c.widx + 1, c.widx + Turn(c)))
<1>1. Doing[p] = "write" /\ c.pc = "write" /\ IsCall(c) /\ IsChip(chip)
  BY DEF WritePage, At, Doing, Shapes
<1>2. IsChip(full)
  BY <1>1, DeselectIsChip, ShiftsAreChips DEF StandbyNvm
<1>3. CASE /\ chip' = IF (c.at + (c.widx + Turn(c))) % PageWords = 0 THEN StandbyNvm(full) ELSE full
           /\ GoesAs(p, [c EXCEPT !.widx = c.widx + Turn(c)])
  <2> DEFINE d == [c EXCEPT !.widx = c.widx + Turn(c)]
  <2> HIDE DEF full
  <2>0. IsChip(StandbyNvm(full))
    BY <1>2, DeselectIsChip DEF StandbyNvm
  <2>1. IsChip(chip')
    BY <1>2, <1>3, <2>0
  <2>2. IsCall(d) /\ d.pc = "write" /\ GoesAs(p, d)
    BY <1>1, <1>3 DEF IsCall
  <2> HIDE DEF d
  <2>3. Shapes' /\ Doing' = [Doing EXCEPT ![p] = "write"]
    BY <2>1, <2>2, OneGoesAs
  <2> QED BY <1>1, <2>3
<1>4. CASE /\ call' = [call EXCEPT ![p] = [Fails(c) EXCEPT !.widx = Len(c.words)]]
           /\ chip' = chip
  <2> DEFINE d == [Fails(c) EXCEPT !.widx = Len(c.words)]
  <2>1. call' = [call EXCEPT ![p] = d]
    BY <1>4
  <2>2. IsCall(d) /\ d.pc = "write"
    BY <1>1, FailsIsCall DEF IsCall
  <2> HIDE DEF d
  <2>3. IsChip(chip')
    BY <1>1, <1>4
  <2>4. Shapes' /\ Doing' = [Doing EXCEPT ![p] = "write"]
    BY <2>1, <2>2, <2>3, OneGoes
  <2> QED BY <1>1, <2>4
<1> QED BY <1>3, <1>4 DEF WritePage

LEMMA ReleaseNvmGoes ==
  ASSUME Shapes, NEW p \in Ports, ReleaseNvm(p)
  PROVE  Shapes' /\ Doing[p] = "write" /\ Doing' = [Doing EXCEPT ![p] = "unmark"]
<1> DEFINE d == [call[p] EXCEPT !.pc = "unmark"]
<1>1. Doing[p] = "write" /\ IsCall(call[p]) /\ IsChip(chip)
  BY DEF ReleaseNvm, At, Doing, Shapes
<1>2. IsCall(d) /\ d.pc = "unmark" /\ GoesAs(p, d)
  BY <1>1 DEF IsCall, ReleaseNvm
<1> HIDE DEF d
<1>3. IsChip(chip')
  BY <1>1, DeselectIsChip DEF ReleaseNvm
<1>4. Shapes' /\ Doing' = [Doing EXCEPT ![p] = "unmark"]
  BY <1>2, <1>3, OneGoesAs
<1> QED BY <1>1, <1>4

LEMMA CheckNvmGoes ==
  ASSUME Shapes, NEW p \in Ports, CheckNvm(p)
  PROVE  Shapes' /\ Doing[p] = "idle" /\ Doing' = [Doing EXCEPT ![p] = "sum"]
<1> DEFINE d == [Idle EXCEPT !.pc = "sum", !.what = "check"]
<1>1. Doing[p] = "idle" /\ call' = [call EXCEPT ![p] = d] /\ chip' = chip /\ IsChip(chip)
  BY DEF CheckNvm, At, Doing, Shapes
<1>2. IsCall(d) /\ d.pc = "sum"
  BY IdleIsCall DEF IsCall
<1> HIDE DEF d
<1>3. Shapes' /\ Doing' = [Doing EXCEPT ![p] = "sum"]
  BY <1>1, <1>2, OneGoes
<1> QED BY <1>1, <1>3

LEMMA AddGoes ==
  ASSUME Shapes, NEW p \in Ports, Add(p)
  PROVE  /\ Shapes' /\ Doing[p] = "sum"
         /\ \E to \in {"sum", "idle"} : Doing' = [Doing EXCEPT ![p] = to]
<1> DEFINE c == call[p]
<1>1. Doing[p] = "sum" /\ c.pc = "sum" /\ IsCall(c) /\ chip' = chip /\ IsChip(chip)
  BY DEF Add, At, Doing, Shapes
<1>2. CASE call' = [call EXCEPT ![p].i = @ + 1, ![p].sum = (@ + chip.mem[c.i]) % Mod]
  <2> DEFINE s == ([c EXCEPT !.i = c.i + 1].sum + chip.mem[c.i]) % Mod
             d == [[c EXCEPT !.i = c.i + 1] EXCEPT !.sum = s]
  <2>1. call' = [call EXCEPT ![p] = d]
    BY <1>2 DEF Shapes
  <2> HIDE DEF s
  <2>2. IsCall(d) /\ d.pc = "sum"
    BY <1>1 DEF IsCall
  <2> HIDE DEF d
  <2>3. Shapes' /\ Doing' = [Doing EXCEPT ![p] = "sum"]
    BY <1>1, <2>1, <2>2, OneGoes
  <2> QED BY <1>1, <2>3
<1>3. CASE call' = [call EXCEPT ![p] = Idle]
  <2>1. Shapes' /\ Doing' = [Doing EXCEPT ![p] = "idle"]
    BY <1>1, <1>3, IdleIsCall, OneGoes
  <2> QED BY <1>1, <2>1
<1> QED BY <1>2, <1>3 DEF Add

LEMMA AddedGoes ==
  ASSUME Shapes, NEW p \in Ports, Added(p)
  PROVE  /\ Shapes' /\ Doing[p] = "sum"
         /\ \E to \in {"mark", "idle"} : Doing' = [Doing EXCEPT ![p] = to]
<1> DEFINE c == call[p]
<1>1. Doing[p] = "sum" /\ c.pc = "sum" /\ IsCall(c) /\ chip' = chip /\ IsChip(chip)
  BY DEF Added, At, Doing, Shapes
<1>2. CASE c.what = "check"
  <2> DEFINE e == [c EXCEPT !.ok = c.sum = NvmSum]
             d == Ended(e)
  <2>1. call' = [call EXCEPT ![p] = d]
    BY <1>2 DEF Added
  <2>2. IsCall(e)
    BY <1>1 DEF IsCall
  <2> HIDE DEF e
  <2>3. IsCall(d) /\ d.pc = "idle"
    BY <2>2, EndedIsCall
  <2> HIDE DEF d
  <2>4. Shapes' /\ Doing' = [Doing EXCEPT ![p] = "idle"]
    BY <1>1, <2>1, <2>3, OneGoes
  <2> QED BY <1>1, <2>4
<1>3. CASE c.what # "check"
  <2> DEFINE d == [c EXCEPT !.pc = "mark", !.what = "checksum", !.at = ChecksumReg, !.widx = 0,
                            !.words = <<(NvmSum + Mod - c.sum) % Mod>>]
  <2>1. call' = [call EXCEPT ![p] = d]
    BY <1>3 DEF Added
  <2>2. IsCall(d) /\ d.pc = "mark"
    BY <1>1 DEF IsCall
  <2> HIDE DEF d
  <2>3. Shapes' /\ Doing' = [Doing EXCEPT ![p] = "mark"]
    BY <1>1, <2>1, <2>2, OneGoes
  <2> QED BY <1>1, <2>3
<1> QED BY <1>2, <1>3

-----------------------------------------------------------------------------
(* What a step does to the parts of the invariant, by where it leads.      *)
Has == {"grant", "write", "unmark"}
Uses == {"mark", "unmark"}

LEMMA MarkingMoves ==
  ASSUME NEW p \in Ports, NEW to, Doing' = [Doing EXCEPT ![p] = to]
  PROVE  /\ Doing'[p] = to /\ \A q \in Ports : q # p => Doing'[q] = Doing[q]
         /\ Marking(Doing') = IF to \in Has THEN Marking(Doing) \cup {p} ELSE Marking(Doing) \ {p}
BY DEF Doing, Marking, Has

LEMMA MarkStays ==
  ASSUME MarkInv, NEW p \in Ports, NEW to, Doing' = [Doing EXCEPT ![p] = to],
         to \in Has <=> Doing[p] \in Has, marks' = marks
  PROVE  MarkInv'
<1>1. Marking(Doing') = Marking(Doing)
  BY MarkingMoves DEF Marking, Has
<1> QED BY <1>1 DEF MarkInv

LEMMA GrantStays ==
  ASSUME GrantInv, NEW p \in Ports, NEW to, Doing' = [Doing EXCEPT ![p] = to],
         to = "write" <=> Doing[p] = "write", grant' = grant
  PROVE  GrantInv'
BY MarkingMoves DEF GrantInv

LEMMA SemaphoreStays ==
  ASSUME SemaphoreInv, NEW p \in Ports, NEW to, Doing' = [Doing EXCEPT ![p] = to],
         swsm.smbi = {p} /\ Doing[p] \in Uses => to \in Uses, swsm' = swsm
  PROVE  SemaphoreInv'
BY MarkingMoves DEF SemaphoreInv, Uses

LEMMA SemaphoreFreed == swsm' = Free => SemaphoreInv'
BY DEF SemaphoreInv, Free

LEMMA GetSmbiInv ==
  ASSUME NvmInv, NEW p \in Ports, GetSmbi(p)
  PROVE  NvmInv'
<1>1. /\ Shapes /\ SemaphoreInv /\ MarkInv /\ GrantInv /\ Doing[p] \in Uses /\ swsm.smbi # {p}
      /\ UNCHANGED <<chip, marks, grant>>
  BY DEF NvmInv, GetSmbi, Wants, Doing, Uses
<1>2. CASE swsm.smbi = {} /\ swsm' = [swsm EXCEPT !.smbi = {p}] /\ UNCHANGED call
  <2>1. Shapes' /\ Doing' = Doing
    BY <1>1, <1>2, NobodyGoes
  <2>2. MarkInv' /\ GrantInv'
    BY <1>1, <2>1 DEF MarkInv, GrantInv
  <2>3. swsm'.smbi = {p} /\ swsm'.swesmbi = {} /\ swsm' = [smbi |-> swsm'.smbi, swesmbi |-> swsm'.swesmbi]
    BY <1>1, <1>2 DEF SemaphoreInv
  <2>4. SemaphoreInv'
    BY <1>1, <2>1, <2>3 DEF SemaphoreInv, Uses
  <2> QED BY <2>1, <2>2, <2>4 DEF NvmInv
<1>3. CASE swsm.smbi # {} /\ GivesUp(p) /\ UNCHANGED swsm
  <2>1. Doing[p] = "mark"
    BY <1>3 DEF GivesUp, At, Doing
  <2>2. Shapes' /\ Doing' = [Doing EXCEPT ![p] = "idle"]
    BY <1>1, <1>3, GivesUpGoes
  <2>3. MarkInv'
    BY <1>1, <2>1, <2>2, MarkStays DEF Has
  <2>4. GrantInv'
    BY <1>1, <2>1, <2>2, GrantStays
  <2>5. SemaphoreInv'
    BY <1>1, <1>3, <2>2, SemaphoreStays
  <2> QED BY <2>2, <2>3, <2>4, <2>5 DEF NvmInv
<1> QED BY <1>2, <1>3 DEF GetSmbi

LEMMA GetSwesmbiInv ==
  ASSUME NvmInv, NEW p \in Ports, GetSwesmbi(p)
  PROVE  NvmInv'
<1>1. /\ Shapes /\ SemaphoreInv /\ MarkInv /\ GrantInv /\ Doing[p] \in Uses /\ swsm.smbi = {p}
      /\ UNCHANGED <<chip, marks, grant>>
  BY DEF NvmInv, GetSwesmbi, Wants, Doing, Uses
<1>2. CASE UNCHANGED call
  <2>1. Shapes' /\ Doing' = Doing
    BY <1>1, <1>2, NobodyGoes
  <2>2. MarkInv' /\ GrantInv'
    BY <1>1, <2>1 DEF MarkInv, GrantInv
  <2>3. ASSUME swsm' = [swsm EXCEPT !.swesmbi = {p}] PROVE SemaphoreInv'
    <3>1. swsm'.smbi = {p} /\ swsm'.swesmbi = {p} /\ swsm' = [smbi |-> swsm'.smbi, swesmbi |-> swsm'.swesmbi]
      BY <1>1, <2>3 DEF SemaphoreInv
    <3> QED BY <1>1, <2>1, <3>1 DEF SemaphoreInv, Uses
  <2>4. SemaphoreInv'
    BY <2>3, SemaphoreFreed DEF GetSwesmbi
  <2> QED BY <2>1, <2>2, <2>4 DEF NvmInv
<1>3. CASE swsm' = Free /\ GivesUp(p)
  <2>1. Doing[p] = "mark"
    BY <1>3 DEF GivesUp, At, Doing
  <2>2. Shapes' /\ Doing' = [Doing EXCEPT ![p] = "idle"]
    BY <1>1, <1>3, GivesUpGoes
  <2>3. MarkInv'
    BY <1>1, <2>1, <2>2, MarkStays DEF Has
  <2>4. GrantInv'
    BY <1>1, <2>1, <2>2, GrantStays
  <2> QED BY <1>3, <2>2, <2>3, <2>4, SemaphoreFreed DEF NvmInv
<1> QED BY <1>2, <1>3 DEF GetSwesmbi

LEMMA MarkStepInv ==
  ASSUME NvmInv, NEW p \in Ports, Mark(p)
  PROVE  NvmInv'
<1>1. /\ Shapes /\ MarkInv /\ GrantInv /\ Doing[p] = "mark" /\ swsm' = Free
      /\ UNCHANGED <<chip, grant>>
  BY DEF NvmInv, Mark, At, Doing
<1>2. SemaphoreInv'
  BY <1>1, SemaphoreFreed
<1>3. CASE marks = {} /\ marks' = {"sw"} /\ Goes(p, "grant")
  <2>1. Shapes' /\ Doing' = [Doing EXCEPT ![p] = "grant"]
    BY <1>1, <1>3, PcGoes
  <2>2. GrantInv'
    BY <1>1, <2>1, GrantStays
  <2>3. Marking(Doing') = {p}
    BY <1>1, <1>3, <2>1, MarkingMoves DEF MarkInv, Has
  <2>4. MarkInv'
    BY <1>3, <2>3 DEF MarkInv
  <2> QED BY <1>2, <2>1, <2>2, <2>4 DEF NvmInv
<1>4. CASE UNCHANGED call /\ UNCHANGED marks
  <2>1. Shapes' /\ Doing' = Doing
    BY <1>1, <1>4, NobodyGoes
  <2>2. MarkInv' /\ GrantInv'
    BY <1>1, <1>4, <2>1 DEF MarkInv, GrantInv
  <2> QED BY <1>2, <2>1, <2>2 DEF NvmInv
<1>5. CASE GivesUp(p) /\ UNCHANGED marks
  <2>1. Shapes' /\ Doing' = [Doing EXCEPT ![p] = "idle"]
    BY <1>1, <1>5, GivesUpGoes
  <2>2. MarkInv'
    BY <1>1, <1>5, <2>1, MarkStays DEF Has
  <2>3. GrantInv'
    BY <1>1, <2>1, GrantStays
  <2> QED BY <1>2, <2>1, <2>2, <2>3 DEF NvmInv
<1> QED BY <1>3, <1>4, <1>5 DEF Mark

LEMMA UnmarkInv ==
  ASSUME NvmInv, NEW p \in Ports, Unmark(p)
  PROVE  NvmInv'
<1>1. /\ Shapes /\ MarkInv /\ GrantInv /\ swsm' = Free /\ marks' = marks \ {"sw"} /\ grant' = grant
  BY DEF NvmInv, Unmark
<1>2. Shapes' /\ Doing[p] = "unmark"
  BY <1>1, UnmarkGoes
<1>3. PICK to \in {"sum", "idle"} : Doing' = [Doing EXCEPT ![p] = to]
  BY <1>1, UnmarkGoes
<1>4. p \in Marking(Doing)
  BY <1>2 DEF Marking
<1>5. Marking(Doing') = {} /\ marks' = {}
  BY <1>1, <1>3, <1>4, MarkingMoves DEF MarkInv, Has
<1>6. MarkInv'
  BY <1>5 DEF MarkInv
<1>7. GrantInv'
  BY <1>1, <1>2, <1>3, GrantStays
<1> QED BY <1>1, <1>2, <1>6, <1>7, SemaphoreFreed DEF NvmInv

LEMMA AcquireNvmInv ==
  ASSUME NvmInv, NEW p \in Ports, AcquireNvm(p)
  PROVE  NvmInv'
<1>1. Shapes /\ SemaphoreInv /\ MarkInv /\ GrantInv /\ swsm' = swsm /\ marks' = marks
  BY DEF NvmInv, AcquireNvm
<1>2. Shapes' /\ Doing[p] = "grant"
  BY <1>1, AcquireNvmGoes
<1>3. CASE grant = {} /\ grant' = {p} /\ Doing' = [Doing EXCEPT ![p] = "write"]
  <2>1. MarkInv'
    BY <1>1, <1>2, <1>3, MarkStays DEF Has
  <2>2. SemaphoreInv'
    BY <1>1, <1>2, <1>3, SemaphoreStays DEF Uses
  <2>3. GrantInv'
    BY <1>1, <1>3, MarkingMoves DEF GrantInv
  <2> QED BY <1>2, <2>1, <2>2, <2>3 DEF NvmInv
<1>4. CASE grant' = grant /\ Doing' = [Doing EXCEPT ![p] = "unmark"]
  <2>1. MarkInv'
    BY <1>1, <1>2, <1>4, MarkStays DEF Has
  <2>2. SemaphoreInv'
    BY <1>1, <1>2, <1>4, SemaphoreStays DEF Uses
  <2>3. GrantInv'
    BY <1>1, <1>2, <1>4, GrantStays
  <2> QED BY <1>2, <2>1, <2>2, <2>3 DEF NvmInv
<1> QED BY <1>1, <1>3, <1>4, AcquireNvmGoes

LEMMA ReleaseNvmInv ==
  ASSUME NvmInv, NEW p \in Ports, ReleaseNvm(p)
  PROVE  NvmInv'
<1>1. Shapes /\ SemaphoreInv /\ MarkInv /\ GrantInv /\ swsm' = swsm /\ marks' = marks /\ grant' = {}
  BY DEF NvmInv, ReleaseNvm
<1>2. Shapes' /\ Doing[p] = "write" /\ Doing' = [Doing EXCEPT ![p] = "unmark"]
  BY <1>1, ReleaseNvmGoes
<1>3. MarkInv'
  BY <1>1, <1>2, MarkStays DEF Has
<1>4. SemaphoreInv'
  BY <1>1, <1>2, SemaphoreStays DEF Uses
<1>5. \A q \in Ports : Doing'[q] # "write"
  <2>1. \A q \in Ports : Doing[q] = "write" => q = p
    BY <1>1, <1>2 DEF GrantInv
  <2>2. Doing'[p] = "unmark" /\ \A q \in Ports : q # p => Doing'[q] = Doing[q]
    BY <1>2, MarkingMoves
  <2> QED BY <2>1, <2>2
<1>6. GrantInv'
  BY <1>1, <1>5 DEF GrantInv
<1> QED BY <1>2, <1>3, <1>4, <1>6 DEF NvmInv

(* The steps that have nothing to do with the semaphore, mark and grant. *)
LEMMA QuietInv ==
  ASSUME NvmInv, NEW p \in Ports, NEW to, Shapes', Doing' = [Doing EXCEPT ![p] = to],
         \/ to = Doing[p]
         \/ Doing[p] \in {"idle", "edges", "sum"} /\ to \in {"idle", "edges", "sum", "mark"},
         UNCHANGED <<swsm, marks, grant>>
  PROVE  NvmInv'
<1>1. SemaphoreInv /\ MarkInv /\ GrantInv
  BY DEF NvmInv
<1>2. MarkInv'
  BY <1>1, MarkStays DEF Has
<1>3. SemaphoreInv'
  BY <1>1, SemaphoreStays DEF Uses
<1>4. GrantInv'
  BY <1>1, GrantStays
<1> QED BY <1>2, <1>3, <1>4 DEF NvmInv

LEMMA NvmStep == NvmInv /\ [NvmNext]_nvmVars => NvmInv'
<1> SUFFICES ASSUME NvmInv, [NvmNext]_nvmVars PROVE NvmInv'
  OBVIOUS
<1>1. Shapes /\ SemaphoreInv /\ MarkInv /\ GrantInv
  BY DEF NvmInv
<1>2. CASE ChipIsReady \/ UNCHANGED nvmVars
  <2>1. Shapes' /\ Doing' = Doing
    BY <1>1, <1>2 DEF ChipIsReady, Shapes, IsChip, Doing, nvmVars
  <2>2. UNCHANGED <<swsm, marks, grant>>
    BY <1>2 DEF ChipIsReady, nvmVars
  <2> QED BY <1>1, <2>1, <2>2 DEF NvmInv, SemaphoreInv, MarkInv, GrantInv
<1>3. CASE FirmwareMarks
  <2>1. Shapes' /\ Doing' = Doing
    BY <1>1, <1>3, NobodyGoes DEF FirmwareMarks
  <2>2. UNCHANGED <<swsm, grant>> /\ marks # {"sw"} /\ marks' \in {{}, {"fw"}} /\ {"fw"} # {"sw"}
    BY <1>3 DEF FirmwareMarks
  <2>3. SemaphoreInv' /\ GrantInv'
    BY <1>1, <2>1, <2>2 DEF SemaphoreInv, GrantInv
  <2>4. MarkInv'
    BY <1>1, <2>1, <2>2 DEF MarkInv
  <2> QED BY <2>1, <2>3, <2>4 DEF NvmInv
<1>4. ASSUME NEW p \in Ports, NEW r \in Requests, SetEeprom(p, r) PROVE NvmInv'
  BY <1>1, <1>4, SetEepromGoes, QuietInv DEF SetEeprom
<1>5. ASSUME NEW p \in Ports, ReadEdge(p) PROVE NvmInv'
  BY <1>1, <1>5, ReadEdgeGoes, QuietInv DEF ReadEdge
<1>6. ASSUME NEW p \in Ports, FillBuffer(p) PROVE NvmInv'
  BY <1>1, <1>6, FillBufferGoes, QuietInv DEF FillBuffer
<1>7. ASSUME NEW p \in Ports, WritePage(p) PROVE NvmInv'
  BY <1>1, <1>7, WritePageGoes, QuietInv DEF WritePage
<1>8. ASSUME NEW p \in Ports, CheckNvm(p) PROVE NvmInv'
  BY <1>1, <1>8, CheckNvmGoes, QuietInv DEF CheckNvm
<1>9. ASSUME NEW p \in Ports, Add(p) PROVE NvmInv'
  <2>1. Shapes' /\ Doing[p] = "sum" /\ UNCHANGED <<swsm, marks, grant>>
    BY <1>1, <1>9, AddGoes DEF Add
  <2>2. PICK to \in {"sum", "idle"} : Doing' = [Doing EXCEPT ![p] = to]
    BY <1>1, <1>9, AddGoes
  <2> QED BY <2>1, <2>2, QuietInv
<1>10. ASSUME NEW p \in Ports, Added(p) PROVE NvmInv'
  <2>1. Shapes' /\ Doing[p] = "sum" /\ UNCHANGED <<swsm, marks, grant>>
    BY <1>1, <1>10, AddedGoes DEF Added
  <2>2. PICK to \in {"mark", "idle"} : Doing' = [Doing EXCEPT ![p] = to]
    BY <1>1, <1>10, AddedGoes
  <2> QED BY <2>1, <2>2, QuietInv
<1> QED
  BY <1>2, <1>3, <1>4, <1>5, <1>6, <1>7, <1>8, <1>9, <1>10, GetSmbiInv, GetSwesmbiInv,
     MarkStepInv, UnmarkInv, AcquireNvmInv, ReleaseNvmInv
  DEF NvmNext

(* When no call is under way, the semaphore, the mark and the grant have   *)
(* been given back: for any ports that share the EEPROM, whoever timed     *)
(* out, gave up or was refused, in whatever order.                         *)
THEOREM AllGivenBack == NvmSpec => []GivenBack
<1>1. NvmInv => GivenBack
  <2> SUFFICES ASSUME NvmInv, \A p \in Ports : At(p, "idle")
               PROVE  swsm = Free /\ "sw" \notin marks /\ grant = {}
    BY DEF GivenBack
  <2>1. \A p \in Ports : Doing[p] = "idle"
    BY DEF At, Doing
  <2>2. Marking(Doing) = {}
    BY <2>1 DEF Marking
  <2>3. grant = {} /\ "sw" \notin marks
    BY <2>1, <2>2 DEF NvmInv, GrantInv, MarkInv
  <2>4. swsm.smbi = {} /\ swsm.swesmbi = {}
    BY <2>1 DEF NvmInv, SemaphoreInv
  <2> QED BY <2>3, <2>4 DEF NvmInv, SemaphoreInv, Free
<1> QED BY <1>1, NvmInitial, NvmStep, PTL DEF NvmSpec

(* The contents of the EEPROM change only for the one port that has marked *)
(* it and was granted it: igb_write_nvm_spi() of another port never comes  *)
(* between its pages, nor does the firmware.                               *)
THEOREM OneWriterAtATime == NvmSpec => OneWriter
<1>1. ASSUME NvmInv, [NvmNext]_nvmVars, chip'.mem # chip.mem
      PROVE  \E p \in Ports :
               /\ grant = {p} /\ marks = {"sw"}
               /\ \A q \in Ports : call[q].pc \in {"grant", "write", "unmark"} => q = p
  <2>1. PICK p \in Ports : WritePage(p) \/ ReleaseNvm(p)
    <3>1. ~ChipIsReady
      BY <1>1 DEF ChipIsReady, NvmInv, Shapes, IsChip
    <3>2. chip' # chip
      BY <1>1
    <3> QED BY <1>1, <3>1, <3>2
        DEF NvmNext, nvmVars, FirmwareMarks, SetEeprom, ReadEdge, FillBuffer, GetSmbi, GetSwesmbi,
            Mark, Unmark, AcquireNvm, CheckNvm, Add, Added
  <2>2. Doing[p] = "write"
    BY <2>1 DEF WritePage, ReleaseNvm, At, Doing
  <2>3. grant = {p}
    BY <1>1, <2>2 DEF NvmInv, GrantInv
  <2>4. p \in Marking(Doing)
    BY <2>2 DEF Marking
  <2>5. marks = {"sw"} /\ Marking(Doing) = {p}
    BY <1>1, <2>4 DEF NvmInv, MarkInv
  <2>6. \A q \in Ports : call[q].pc \in {"grant", "write", "unmark"} => q \in Marking(Doing)
    BY DEF Marking, Doing
  <2> QED BY <2>3, <2>5, <2>6
<1>2. NvmInv /\ [NvmNext]_nvmVars =>
        [chip'.mem # chip.mem => \E p \in Ports :
           /\ grant = {p} /\ marks = {"sw"}
           /\ \A q \in Ports : call[q].pc \in {"grant", "write", "unmark"} => q = p]_nvmVars
  BY <1>1
<1> QED BY <1>2, NvmInitial, NvmStep, PTL DEF NvmSpec, OneWriter

-----------------------------------------------------------------------------
Commands == [op : {"none", "wren", "write"}, at : Nat, words : Seq(Words)]
Contents == [Addresses -> Words]

(* Division with remainder. *)
LEMMA Divided ==
  ASSUME NEW a \in Nat, NEW b \in Nat \ {0}
  PROVE  /\ a \div b \in Nat /\ a % b \in 0..(b - 1)
         /\ a = b * (a \div b) + (a % b)
OBVIOUS

(* A smallest number. *)
LEMMA Smallest ==
  ASSUME NEW K \in SUBSET Nat, K # {}
  PROVE  \E k \in K : \A l \in K : k <= l
<1>1. PICK k \in K : \A l \in K : ~(<<l, k>> \in OpToRel(<, Nat))
  BY NatLessThanWellFounded, WFMin
<1>2. \A l \in K : ~(l < k)
  BY <1>1 DEF OpToRel
<1> QED BY <1>2

LEMMA Largest ==
  ASSUME NEW n \in Nat, NEW K \in SUBSET (0..n), K # {}
  PROVE  \E k \in K : \A l \in K : l <= k
<1> DEFINE R == {m \in 0..n : n - m \in K}
<1>1. R \in SUBSET Nat /\ R # {}
  <2>1. PICK k \in K : TRUE
    OBVIOUS
  <2>2. k \in 0..n /\ n - k \in 0..n /\ n - (n - k) = k
    BY <2>1
  <2>3. n - k \in R
    BY <2>1, <2>2
  <2>4. R \subseteq 0..n
    OBVIOUS
  <2> HIDE DEF R
  <2> QED BY <2>3, <2>4
<1>2. PICK m \in R : \A l \in R : m <= l
  BY <1>1, Smallest
<1>3. \A l \in K : n - l \in R
  OBVIOUS
<1> QED BY <1>2, <1>3

(* A set of numbers that holds 0, and with a number the next, holds all up *)
(* to n.                                                                   *)
LEMMA UpTo ==
  ASSUME NEW n \in Nat, NEW K, 0 \in K, \A k \in 0..(n - 1) : k \in K => k + 1 \in K
  PROVE  \A k \in 0..n : k \in K
<1> DEFINE R == {k \in 0..n : k \notin K}
<1> SUFFICES ASSUME R # {} PROVE FALSE
  OBVIOUS
<1>0. R \in SUBSET Nat
  OBVIOUS
<1>1. PICK k \in R : \A l \in R : k <= l
  <2> HIDE DEF R
  <2> QED BY <1>0, Smallest
<1>2. k # 0 /\ k - 1 \in 0..(n - 1) /\ k - 1 \in K
  BY <1>1
<1> QED BY <1>1, <1>2

(* A function that is defined by recursion exists. *)
Steps(step, n, S) == \A k \in 1..n, x \in S : step[<<k, x>>] \in S
Recurs(f, n, S, base, step) ==
  /\ f \in [0..n -> S]
  /\ f[0] = base /\ \A k \in 1..n : f[k] = step[<<k, f[k - 1]>>]

LEMMA Recursion ==
  ASSUME NEW n \in Nat, NEW S, NEW base \in S, NEW step, Steps(step, n, S)
  PROVE  \E f : Recurs(f, n, S, base, step)
<1> DEFINE Good(m, f) == /\ f \in [0..m -> S]
                         /\ f = [k \in 0..m |-> IF k = 0 THEN base ELSE step[<<k, f[k - 1]>>]]
           K == {m \in 0..n : \E f : Good(m, f)}
<1>1. 0 \in K
  <2> DEFINE f == [k \in 0..0 |-> base]
  <2>1. f \in [0..0 -> S] /\ f = [k \in 0..0 |-> IF k = 0 THEN base ELSE step[<<k, f[k - 1]>>]]
    OBVIOUS
  <2>2. Good(0, f) /\ 0 \in 0..n
    BY <2>1
  <2> HIDE DEF Good, f
  <2> QED BY <2>2
<1>2. ASSUME NEW k \in 0..(n - 1), k \in K PROVE k + 1 \in K
  <2>1. PICK f : Good(k, f)
    BY <1>2
  <2> DEFINE g == [j \in 0..(k + 1) |-> IF j = k + 1 THEN step[<<k + 1, f[k]>>] ELSE f[j]]
  <2>2. f[k] \in S /\ step[<<k + 1, f[k]>>] \in S
    <3>1. f[k] \in S /\ k + 1 \in 1..n
      BY <2>1
    <3> QED BY <3>1 DEF Steps
  <2>3. g \in [0..(k + 1) -> S]
    BY <2>1, <2>2
  <2>4. \A j \in 0..(k + 1) : g[j] = IF j = 0 THEN base ELSE step[<<j, g[j - 1]>>]
    <3> TAKE j \in 0..(k + 1)
    <3>1. CASE j = k + 1
      <4>1. g[j] = step[<<j, f[k]>>] /\ g[j - 1] = f[k]
        BY <3>1
      <4> QED BY <3>1, <4>1
    <3>2. CASE j # k + 1
      <4>1. j \in 0..k /\ g[j] = f[j]
        BY <3>2
      <4>2. f[j] = IF j = 0 THEN base ELSE step[<<j, f[j - 1]>>]
        BY <2>1, <4>1
      <4>3. j # 0 => g[j - 1] = f[j - 1]
        BY <4>1
      <4> QED BY <4>1, <4>2, <4>3
    <3> QED BY <3>1, <3>2
  <2>5. g = [j \in 0..(k + 1) |-> g[j]]
    OBVIOUS
  <2> HIDE DEF g
  <2>6. g = [j \in 0..(k + 1) |-> IF j = 0 THEN base ELSE step[<<j, g[j - 1]>>]]
    BY <2>4, <2>5
  <2>7. Good(k + 1, g) /\ k + 1 \in 0..n
    BY <2>3, <2>6
  <2> HIDE DEF Good
  <2> QED BY <2>7
<1> HIDE DEF K
<1>3. n \in K
  BY <1>1, <1>2, UpTo
<1>4. PICK f : Good(n, f)
  BY <1>3 DEF K
<1>5. f[0] = base
  BY <1>4
<1>6. ASSUME NEW k \in 1..n PROVE f[k] = step[<<k, f[k - 1]>>]
  <2>1. k \in 0..n /\ k # 0
    OBVIOUS
  <2> QED BY <1>4, <2>1
<1> QED BY <1>4, <1>5, <1>6 DEF Recurs

-----------------------------------------------------------------------------
(* The values of a word. *)
LEMMA WordsGiven ==
  /\ Mod \in Nat \ {0} /\ Words = 0..(Mod - 1) /\ NvmSum \in Words
  /\ Radix - 1 \in Nat /\ 0 \in Words
<1>1. Radix \in Nat /\ Radix > 1
  BY NvmAssumption
<1>2. \A r \in Nat : r > 1 => r * r \in Nat /\ r * r > 1
  OBVIOUS
<1> QED BY <1>1, <1>2, NvmAssumption DEF Mod, Words

(* What SumTo returns. *)
LEMMA SumToIs ==
  ASSUME NEW mem \in Contents
  PROVE  /\ SumTo(mem, 0) = 0
         /\ \A n \in 0..WordSize : SumTo(mem, n) \in Words
         /\ \A n \in 1..WordSize : SumTo(mem, n) = (SumTo(mem, n - 1) + mem[n - 1]) % Mod
<1> DEFINE Def(f) == f = [k \in 0..WordSize |-> IF k = 0 THEN 0 ELSE (f[k - 1] + mem[k - 1]) % Mod]
           step == [ks \in (1..WordSize) \X Words |-> (ks[2] + mem[ks[1] - 1]) % Mod]
           sum == CHOOSE f : Def(f)
<1>0. WordSize \in Nat
  BY NvmAssumption
<1>a. \A k \in 1..WordSize : mem[k - 1] \in Words
  BY <1>0 DEF Contents, Addresses
<1>b. \A x \in Nat : x % Mod \in Words
  BY WordsGiven, Divided
<1>1. step \in [(1..WordSize) \X Words -> Words]
  <2>1. ASSUME NEW k \in 1..WordSize, NEW s \in Words PROVE (s + mem[k - 1]) % Mod \in Words
    <3>1. s + mem[k - 1] \in Nat
      BY <1>a, WordsGiven
    <3> QED BY <1>b, <3>1
  <2> QED BY <2>1
<1>2. PICK f : Recurs(f, WordSize, Words, 0, step)
  <2>1. 0 \in Words
    BY WordsGiven
  <2> HIDE DEF step
  <2>2. Steps(step, WordSize, Words)
    BY <1>1 DEF Steps
  <2> QED BY <1>0, <2>1, <2>2, Recursion
<1>3. /\ f \in [0..WordSize -> Words] /\ f[0] = 0
      /\ \A k \in 1..WordSize : f[k] = step[<<k, f[k - 1]>>]
  BY <1>2 DEF Recurs
<1>4. Def(f)
  <2>0. f = [k \in 0..WordSize |-> f[k]]
    BY <1>3
  <2>1. \A k \in 1..WordSize : f[k - 1] \in Words /\ step[<<k, f[k - 1]>>] = (f[k - 1] + mem[k - 1]) % Mod
    <3> TAKE k \in 1..WordSize
    <3>1. k - 1 \in 0..WordSize
      BY <1>0
    <3>2. f[k - 1] \in Words
      BY <1>3, <3>1
    <3> QED BY <3>2
  <2> HIDE DEF step
  <2>2. \A k \in 0..WordSize : f[k] = IF k = 0 THEN 0 ELSE (f[k - 1] + mem[k - 1]) % Mod
    <3> TAKE k \in 0..WordSize
    <3>1. CASE k = 0
      BY <1>3, <3>1
    <3>2. CASE k \in 1..WordSize
      BY <1>3, <2>1, <3>2
    <3> QED BY <1>0, <3>1, <3>2
  <2> QED BY <2>0, <2>2
<1> HIDE DEF step
<1>5. Def(sum)
  <2> HIDE DEF Def
  <2> QED BY <1>4
<1>6. \A n : SumTo(mem, n) = sum[n]
  BY DEF SumTo
<1> HIDE DEF sum
<1>7. sum[0] = 0 /\ \A n \in 1..WordSize : sum[n] = (sum[n - 1] + mem[n - 1]) % Mod
  BY <1>0, <1>5
<1>8. \A n \in 0..WordSize : sum[n] \in Words
  <2> DEFINE K == {n \in 0..WordSize : sum[n] \in Words}
  <2>1. 0 \in K
    BY <1>0, <1>7, WordsGiven
  <2>2. ASSUME NEW n \in 0..(WordSize - 1), n \in K PROVE n + 1 \in K
    <3>0. n + 1 \in 1..WordSize /\ (n + 1) - 1 = n
      BY <1>0
    <3>1. sum[n + 1] = (sum[n] + mem[n]) % Mod /\ mem[n] \in Words /\ sum[n] \in Words
      BY <1>7, <1>a, <2>2, <3>0
    <3>2. sum[n] + mem[n] \in Nat
      BY <3>1, WordsGiven
    <3> QED BY <1>0, <1>b, <3>0, <3>1, <3>2
  <2> HIDE DEF K
  <2>3. \A n \in 0..WordSize : n \in K
    BY <1>0, <2>1, <2>2, UpTo
  <2> QED BY <2>3 DEF K
<1> QED BY <1>0, <1>6, <1>7, <1>8

(* It looks at the words that it adds up, and at no other. *)
LEMMA SumToAgrees ==
  ASSUME NEW mem \in Contents, NEW other \in Contents, NEW n \in 0..WordSize,
         \A a \in 0..(n - 1) : mem[a] = other[a]
  PROVE  SumTo(mem, n) = SumTo(other, n)
<1>0. WordSize \in Nat
  BY NvmAssumption
<1> DEFINE K == {k \in 0..n : SumTo(mem, k) = SumTo(other, k)}
<1>1. 0 \in K
  BY <1>0, SumToIs
<1>2. ASSUME NEW k \in 0..(n - 1), k \in K PROVE k + 1 \in K
  <2>1. /\ SumTo(mem, k + 1) = (SumTo(mem, k) + mem[k]) % Mod
        /\ SumTo(other, k + 1) = (SumTo(other, k) + other[k]) % Mod
    <3>1. k + 1 \in 1..WordSize /\ (k + 1) - 1 = k
      BY <1>0
    <3> QED BY <3>1, SumToIs
  <2> QED BY <1>0, <1>2, <2>1
<1> HIDE DEF K
<1>3. n \in K
  BY <1>0, <1>1, <1>2, UpTo
<1> QED BY <1>3 DEF K

(* The checksum makes the EEPROM valid. *)
Checksum(mem) == (NvmSum + Mod - SumTo(mem, ChecksumReg)) % Mod
LEMMA ChecksumMakesValid ==
  ASSUME NEW mem \in Contents, mem[ChecksumReg] = Checksum(mem)
  PROVE  Valid(mem)
<1> DEFINE s == SumTo(mem, ChecksumReg)
           x == NvmSum + Mod - s
<1>1. WordSize \in Nat /\ ChecksumReg \in 0..(WordSize - 1)
  BY NvmAssumption DEF Addresses
<1>2. s \in Words /\ x \in Nat
  BY <1>1, SumToIs, WordsGiven
<1>3. SumTo(mem, ChecksumReg + 1) = (s + (x % Mod)) % Mod
  <2>1. ChecksumReg + 1 \in 1..WordSize /\ (ChecksumReg + 1) - 1 = ChecksumReg
    BY <1>1
  <2> QED BY <2>1, SumToIs DEF Checksum
<1>4. (s + (x % Mod)) % Mod = NvmSum
  <2> DEFINE y == x % Mod
             q == x \div Mod
             z == s + y
             v == z % Mod
             u == z \div Mod
  <2>1. /\ y \in 0..(Mod - 1) /\ q \in Nat /\ x = Mod * q + y
    BY <1>2, WordsGiven, Divided
  <2>2. z \in Nat /\ v \in 0..(Mod - 1) /\ u \in Nat /\ z = Mod * u + v
    <3>1. z \in Nat
      <4>1. s \in Nat /\ y \in Nat
        BY <1>2, <2>1, WordsGiven
      <4> HIDE DEF s, y
      <4> QED BY <4>1
    <3> HIDE DEF z
    <3> QED BY <3>1, WordsGiven, Divided
  <2>3. x = NvmSum + Mod - s /\ z = s + y
    OBVIOUS
  <2> HIDE DEF y, q, z, v, u, x
  <2>4. v - NvmSum = Mod * (1 - q - u)
    <3>1. Mod * (1 - q - u) = Mod - (Mod * q) - (Mod * u)
      BY <2>1, <2>2, WordsGiven
    <3> DEFINE mq == Mod * q
               mu == Mod * u
    <3>2. mq \in Nat /\ mu \in Nat /\ x = mq + y /\ z = mu + v
      BY <2>1, <2>2, WordsGiven
    <3>3. Mod * (1 - q - u) = Mod - mq - mu
      BY <3>1
    <3> HIDE DEF mq, mu
    <3>4. NvmSum \in Int /\ Mod \in Int /\ s \in Int /\ x \in Int
      BY <1>2, WordsGiven
    <3>5. v \in Int /\ y \in Int /\ z \in Int
      BY <2>1, <2>2
    <3> HIDE DEF s
    <3> QED BY <2>3, <3>2, <3>3, <3>4, <3>5
  <2> DEFINE e == 1 - q - u
  <2>5. e \in Int /\ v - NvmSum = Mod * e
    BY <2>1, <2>2, <2>4
  <2> HIDE DEF e
  <2>6. v - NvmSum < Mod /\ v - NvmSum > -Mod
    BY <2>2, WordsGiven
  <2>7. e = 0
    BY <2>5, <2>6, WordsGiven
  <2> QED BY <2>2, <2>5, <2>7, WordsGiven DEF v, z, y
<1> QED BY <1>3, <1>4 DEF Valid

-----------------------------------------------------------------------------
LEMMA DividedOnce ==
  ASSUME NEW b \in Nat \ {0}, NEW q1 \in Nat, NEW q2 \in Nat,
         NEW r1 \in 0..(b - 1), NEW r2 \in 0..(b - 1), b * q1 + r1 = b * q2 + r2
  PROVE  q1 = q2 /\ r1 = r2
<1>1. ASSUME q1 < q2 PROVE FALSE
  <2>1. b * q2 >= b * (q1 + 1)
    BY <1>1
  <2> QED BY <2>1
<1>2. ASSUME q2 < q1 PROVE FALSE
  <2>1. b * q1 >= b * (q2 + 1)
    BY <1>2
  <2> QED BY <2>1
<1> QED BY <1>1, <1>2

(* A remainder grows with its number until the divisor is reached. *)
LEMMA RemainderGrows ==
  ASSUME NEW x \in Nat, NEW d \in Nat, NEW b \in Nat \ {0}
  PROVE  /\ (x % b) + d < b => (x + d) % b = (x % b) + d
         /\ (x % b) + d = b => (x + d) % b = 0
         /\ b * (x \div b) + (x % b) = x
<1> DEFINE r == x % b
           q == x \div b
           s == (x + d) % b
           p == (x + d) \div b
<1>1. q \in Nat /\ r \in 0..(b - 1) /\ x = b * q + r
  BY Divided
<1>2. p \in Nat /\ s \in 0..(b - 1) /\ x + d = b * p + s
  <2> DEFINE y == x + d
  <2>1. y \in Nat
    OBVIOUS
  <2> HIDE DEF y
  <2>2. y \div b \in Nat /\ y % b \in 0..(b - 1) /\ y = b * (y \div b) + (y % b)
    BY <2>1, Divided
  <2> QED BY <2>2 DEF y
<1> HIDE DEF r, q, s, p
<1>3. ASSUME r + d < b PROVE s = r + d
  <2>1. b * q + (r + d) = b * p + s /\ r + d \in 0..(b - 1)
    BY <1>1, <1>2, <1>3
  <2> QED BY <1>1, <1>2, <2>1, DividedOnce
<1>4. ASSUME r + d = b PROVE s = 0
  <2>1. b * (q + 1) = b * q + b
    BY <1>1
  <2>2. b * (q + 1) + 0 = b * p + s /\ q + 1 \in Nat /\ 0 \in 0..(b - 1)
    BY <1>1, <1>2, <1>4, <2>1
  <2> QED BY <1>2, <2>2, DividedOnce
<1> QED BY <1>1, <1>3, <1>4 DEF r, q, s

LEMMA SmallRemainder ==
  ASSUME NEW x \in Nat, NEW b \in Nat \ {0}
  PROVE  /\ x < b => x % b = x
         /\ b <= x /\ x < 2 * b => x % b = x - b
<1> DEFINE r == x % b
           q == x \div b
<1>1. q \in Nat /\ r \in 0..(b - 1) /\ x = b * q + r
  BY Divided
<1> HIDE DEF r, q
<1>2. ASSUME x < b PROVE r = x
  <2>1. b * 0 + x = b * q + r
    BY <1>1
  <2> QED BY <1>1, <1>2, <2>1, DividedOnce
<1>3. ASSUME b <= x, x < 2 * b PROVE r = x - b
  <2>1. b * 1 + (x - b) = b * q + r /\ x - b \in 0..(b - 1)
    BY <1>1, <1>3
  <2> QED BY <1>1, <2>1, DividedOnce
<1> QED BY <1>2, <1>3 DEF r

(* The place of a word in its page, and the page. *)
InPage(x) == x % PageWords
Page(x) == x \div PageWords
LEMMA Paged ==
  ASSUME NEW x \in Nat
  PROVE  Page(x) \in Nat /\ InPage(x) \in Nat /\ InPage(x) < PageWords
<1> DEFINE b == PageWords
<1>1. b \in Nat \ {0}
  BY NvmAssumption
<1> HIDE DEF b
<1>2. x \div b \in Nat /\ x % b \in 0..(b - 1)
  BY <1>1, Divided
<1> QED BY <1>1, <1>2 DEF InPage, Page, b

LEMMA PagedOn ==
  ASSUME NEW x \in Nat, NEW d \in Nat
  PROVE  /\ InPage(x) + d < PageWords => InPage(x + d) = InPage(x) + d
         /\ InPage(x) + d = PageWords => InPage(x + d) = 0
         /\ PageWords * Page(x) + InPage(x) = x
<1> DEFINE b == PageWords
<1>1. b \in Nat \ {0}
  BY NvmAssumption
<1> HIDE DEF b
<1>2. /\ (x % b) + d < b => (x + d) % b = (x % b) + d
      /\ (x % b) + d = b => (x + d) % b = 0
      /\ b * (x \div b) + (x % b) = x
  BY <1>1, RemainderGrows
<1> QED BY <1>2 DEF InPage, Page, b

-----------------------------------------------------------------------------
Chips == [mem : Contents, cmd : Commands, wel : BOOLEAN, busy : BOOLEAN]

(* The memory after a write of the chip, as in Deselect. *)
Place(c, k) == (c.cmd.at \div PageWords) * PageWords + ((c.cmd.at + k - 1) % PageWords)
Written(c) ==
  [a \in Addresses |->
     LET ks == {k \in DOMAIN c.cmd.words : Place(c, k) = a} IN
     IF ks = {} THEN c.mem[a] ELSE c.cmd.words[CHOOSE k \in ks : \A l \in ks : l <= k]]
Writes(c) == ~c.busy /\ c.cmd.op = "write" /\ c.wel

LEMMA NoIsCommand == No \in Commands /\ No.op = "none" /\ No.words = <<>> /\ No.at = 0
BY DEF No, Commands

(* A chip, field by field. *)
LEMMA ChipIs ==
  ASSUME NEW c \in Chips
  PROVE  /\ c.mem \in Contents /\ c.cmd \in Commands /\ c.wel \in BOOLEAN /\ c.busy \in BOOLEAN
         /\ c.cmd.op \in {"none", "wren", "write"} /\ c.cmd.at \in Nat /\ c.cmd.words \in Seq(Words)
BY DEF Chips, Commands

Alike(c, d) == d \in Chips /\ d.mem = c.mem /\ d.wel = c.wel /\ d.busy = c.busy

LEMMA GivenCommand ==
  ASSUME NEW c \in Chips, NEW m \in Commands
  PROVE  LET d == [c EXCEPT !.cmd = m] IN Alike(c, d) /\ d.cmd = m
BY DEF Chips, Alike

LEMMA OpcodeIs ==
  ASSUME NEW c \in Chips, NEW op \in {"none", "wren", "write"}
  PROVE  LET d == ShiftOutOpcode(c, op) IN
         Alike(c, d) /\ d.cmd.op = op /\ d.cmd.at = c.cmd.at /\ d.cmd.words = c.cmd.words
<1> DEFINE m == [c.cmd EXCEPT !.op = op]
<1>1. m \in Commands /\ m.op = op /\ m.at = c.cmd.at /\ m.words = c.cmd.words
  BY DEF Chips, Commands
<1>2. ShiftOutOpcode(c, op) = [c EXCEPT !.cmd = m]
  BY DEF ShiftOutOpcode
<1> HIDE DEF m
<1> QED BY <1>1, <1>2, GivenCommand

LEMMA AddressShifted ==
  ASSUME NEW c \in Chips, NEW at \in Nat
  PROVE  LET d == ShiftOutAddress(c, at) IN
         Alike(c, d) /\ d.cmd.op = c.cmd.op /\ d.cmd.at = at /\ d.cmd.words = c.cmd.words
<1> DEFINE m == [c.cmd EXCEPT !.at = at]
<1>1. m \in Commands /\ m.op = c.cmd.op /\ m.at = at /\ m.words = c.cmd.words
  BY DEF Chips, Commands
<1>2. ShiftOutAddress(c, at) = [c EXCEPT !.cmd = m]
  BY DEF ShiftOutAddress
<1> HIDE DEF m
<1> QED BY <1>1, <1>2, GivenCommand

LEMMA WordsShifted ==
  ASSUME NEW c \in Chips, NEW ws \in Seq(Words)
  PROVE  LET d == ShiftOutWords(c, ws) IN
         /\ Alike(c, d) /\ d.cmd.op = c.cmd.op /\ d.cmd.at = c.cmd.at
         /\ d.cmd.words = c.cmd.words \o ws
<1> DEFINE m == [c.cmd EXCEPT !.words = @ \o ws]
<1>1. c.cmd \in Commands /\ c.cmd.words \o ws \in Seq(Words)
  BY ConcatProperties DEF Chips, Commands
<1>2. m \in Commands /\ m.op = c.cmd.op /\ m.at = c.cmd.at /\ m.words = c.cmd.words \o ws
  BY <1>1 DEF Commands
<1>3. ShiftOutWords(c, ws) = [c EXCEPT !.cmd = m]
  BY DEF ShiftOutWords
<1> HIDE DEF m
<1> QED BY <1>2, <1>3, GivenCommand

LEMMA WrittenTyped ==
  ASSUME NEW c \in Chips
  PROVE  Written(c) \in Contents
<1>1. c.mem \in Contents /\ c.cmd.words \in Seq(Words)
  BY DEF Chips, Commands
<1>2. ASSUME NEW a \in Addresses PROVE Written(c)[a] \in Words
  <2> DEFINE ks == {k \in DOMAIN c.cmd.words : Place(c, k) = a}
             k == CHOOSE k \in ks : \A l \in ks : l <= k
  <2>1. Written(c)[a] = IF ks = {} THEN c.mem[a] ELSE c.cmd.words[k]
    BY DEF Written
  <2>2. CASE ks = {}
    BY <1>1, <2>1, <2>2 DEF Contents
  <2>3. CASE ks # {}
    <3>1. Len(c.cmd.words) \in Nat /\ DOMAIN c.cmd.words = 1..Len(c.cmd.words)
      BY <1>1
    <3>2. ks \in SUBSET (0..Len(c.cmd.words)) /\ ks \subseteq DOMAIN c.cmd.words
      BY <3>1
    <3> HIDE DEF ks
    <3>3. \E m \in ks : \A l \in ks : l <= m
      BY <2>3, <3>1, <3>2, Largest
    <3>4. k \in ks
      BY <3>3
    <3> QED BY <1>1, <2>1, <2>3, <3>2, <3>4
  <2> QED BY <2>2, <2>3
<1>3. Written(c) = [a \in Addresses |-> Written(c)[a]]
  BY DEF Written
<1> QED BY <1>2, <1>3 DEF Contents

LEMMA DeselectIs ==
  ASSUME NEW c \in Chips
  PROVE  LET d == Deselect(c) IN
         /\ d \in Chips /\ d.cmd = No
         /\ Writes(c) => d.mem = Written(c) /\ ~d.wel /\ d.busy
         /\ ~Writes(c) => /\ d.mem = c.mem /\ (d.busy <=> c.busy)
                          /\ ~c.busy /\ c.cmd.op = "wren" => d.wel
                          /\ c.busy \/ c.cmd.op # "wren" => (d.wel <=> c.wel)
<1> DEFINE w == Written(c)
           d == [c EXCEPT !.cmd = No]
           e == Deselect(c)
           opened == [d EXCEPT !.wel = TRUE]
           stored == [d EXCEPT !.mem = w, !.wel = FALSE, !.busy = TRUE]
<1>1. e = IF c.busy THEN d
          ELSE IF c.cmd.op = "wren" THEN opened
          ELSE IF c.cmd.op = "write" /\ c.wel THEN stored
          ELSE d
  BY DEF Deselect, Written, Place
<1>2. w \in Contents /\ No \in Commands
  BY WrittenTyped, NoIsCommand
<1> HIDE DEF w
<1>3. d \in Chips /\ d.cmd = No /\ d.mem = c.mem /\ (d.wel <=> c.wel) /\ (d.busy <=> c.busy)
  BY <1>2 DEF Chips
<1> HIDE DEF d
<1>4. opened \in Chips /\ opened.cmd = No /\ opened.mem = c.mem /\ opened.wel /\ (opened.busy <=> c.busy)
  BY <1>3 DEF Chips
<1>5. stored \in Chips /\ stored.cmd = No /\ stored.mem = w /\ ~stored.wel /\ stored.busy
  BY <1>2, <1>3 DEF Chips
<1> HIDE DEF e, opened, stored
<1>6. CASE Writes(c)
  <2>1. e = stored
    BY <1>1, <1>6 DEF Writes
  <2> QED BY <1>5, <1>6, <2>1 DEF w, e
<1>7. CASE ~c.busy /\ c.cmd.op = "wren"
  <2>1. e = opened /\ ~Writes(c)
    BY <1>1, <1>7 DEF Writes
  <2> QED BY <1>4, <1>7, <2>1 DEF e
<1>8. CASE ~Writes(c) /\ (c.busy \/ c.cmd.op # "wren")
  <2>1. e = d
    BY <1>1, <1>8 DEF Writes
  <2> QED BY <1>3, <1>8, <2>1 DEF e
<1> QED BY <1>6, <1>7, <1>8

(* A command that does not cross the end of its page leaves its words at   *)
(* the addresses from its own on.                                          *)
LEMMA WrittenInPage ==
  ASSUME NEW c \in Chips,
         \A k \in 1..Len(c.cmd.words) : (c.cmd.at % PageWords) + k - 1 < PageWords,
         NEW a \in Addresses
  PROVE  Written(c)[a] = IF c.cmd.at <= a /\ a < c.cmd.at + Len(c.cmd.words)
                         THEN c.cmd.words[a - c.cmd.at + 1] ELSE c.mem[a]
<1> DEFINE at == c.cmd.at
           words == c.cmd.words
           n == Len(words)
           ks == {k \in DOMAIN words : Place(c, k) = a}
<1>1. at \in Nat /\ words \in Seq(Words) /\ n \in Nat /\ DOMAIN words = 1..n /\ a \in Nat
      /\ PageWords \in Nat \ {0}
  BY NvmAssumption DEF Chips, Commands, Addresses
<1>2. ASSUME NEW k \in 1..n PROVE Place(c, k) = at + k - 1
  <2>1. k - 1 \in Nat /\ at + k - 1 = at + (k - 1) /\ InPage(at) + (k - 1) < PageWords
    <3>1. InPage(at) \in Nat
      BY <1>1, Paged
    <3>2. InPage(at) + k - 1 < PageWords
      BY DEF InPage
    <3> QED BY <1>1, <3>1, <3>2
  <2>2. /\ Page(at) \in Nat /\ InPage(at) \in Nat
        /\ InPage(at + (k - 1)) = InPage(at) + (k - 1) /\ PageWords * Page(at) + InPage(at) = at
    <3> DEFINE d == k - 1
    <3> HIDE DEF d, at
    <3>0. at \in Nat
      BY <1>1
    <3>1. d \in Nat /\ InPage(at) + d < PageWords
      BY <2>1 DEF d
    <3>2. InPage(at + d) = InPage(at) + d /\ PageWords * Page(at) + InPage(at) = at
      BY <3>0, <3>1, PagedOn
    <3>3. Page(at) \in Nat /\ InPage(at) \in Nat
      BY <3>0, Paged
    <3> QED BY <3>2, <3>3 DEF d
  <2>3. Place(c, k) = Page(at) * PageWords + InPage(at + (k - 1))
    BY <2>1 DEF Place, Page, InPage
  <2>4. Page(at) * PageWords = PageWords * Page(at)
    BY <1>1, <2>2
  <2> QED BY <1>1, <2>1, <2>2, <2>3, <2>4
<1>3. ks = {k \in 1..n : at + k - 1 = a}
  BY <1>1, <1>2
<1>4. Written(c)[a] = IF ks = {} THEN c.mem[a] ELSE words[CHOOSE k \in ks : \A l \in ks : l <= k]
  BY DEF Written
<1> HIDE DEF ks
<1>5. CASE at <= a /\ a < at + n
  <2>1. ks = {a - at + 1}
    BY <1>1, <1>3, <1>5
  <2>2. (CHOOSE k \in ks : \A l \in ks : l <= k) = a - at + 1
    BY <1>1, <2>1
  <2> QED BY <1>4, <1>5, <2>1, <2>2
<1>6. CASE ~(at <= a /\ a < at + n)
  <2>1. ks = {}
    BY <1>1, <1>3, <1>6
  <2> QED BY <1>4, <1>6, <2>1
<1> QED BY <1>5, <1>6

(* What WritePage shifts out to a chip that waits for a command. *)
Full(ch, at, ws) ==
  ShiftOutWords(ShiftOutAddress(ShiftOutOpcode(
    StandbyNvm(ShiftOutOpcode(StandbyNvm(ch), "wren")), "write"), at), ws)

LEMMA FullIs ==
  ASSUME NEW ch \in Chips, ch.cmd = No, ~ch.busy, NEW at \in Nat, NEW ws \in Seq(Words)
  PROVE  LET f == Full(ch, at, ws) IN
         /\ f \in Chips /\ f.mem = ch.mem /\ Writes(f) /\ f.cmd.at = at /\ f.cmd.words = ws
<1> DEFINE c1 == StandbyNvm(ch)
           c2 == ShiftOutOpcode(c1, "wren")
           c3 == StandbyNvm(c2)
           c4 == ShiftOutOpcode(c3, "write")
           c5 == ShiftOutAddress(c4, at)
           c6 == ShiftOutWords(c5, ws)
<1>0. c6 = Full(ch, at, ws)
  BY DEF Full
<1>1. c1 \in Chips /\ c1.cmd = No /\ c1.mem = ch.mem /\ ~c1.busy
  BY DeselectIs, NoIsCommand DEF StandbyNvm, Writes
<1> HIDE DEF c1
<1>2. c2 \in Chips /\ c2.cmd.op = "wren" /\ c2.mem = ch.mem /\ ~c2.busy
  BY <1>1, OpcodeIs DEF Alike
<1> HIDE DEF c2
<1>3. c3 \in Chips /\ c3.cmd = No /\ c3.mem = ch.mem /\ ~c3.busy /\ c3.wel
  BY <1>2, DeselectIs DEF StandbyNvm, Writes
<1> HIDE DEF c3
<1>4. c4 \in Chips /\ c4.cmd.op = "write" /\ c4.cmd.words = <<>> /\ c4.mem = ch.mem /\ ~c4.busy /\ c4.wel
  BY <1>3, OpcodeIs, NoIsCommand DEF Alike
<1> HIDE DEF c4
<1>5. c5 \in Chips /\ c5.cmd.op = "write" /\ c5.cmd.words = <<>> /\ c5.mem = ch.mem /\ ~c5.busy /\ c5.wel
      /\ c5.cmd.at = at
  BY <1>4, AddressShifted DEF Alike
<1> HIDE DEF c5
<1>6. c6 \in Chips /\ c6.cmd.op = "write" /\ c6.cmd.words = ws /\ c6.mem = ch.mem /\ ~c6.busy /\ c6.wel
      /\ c6.cmd.at = at
  <2>1. <<>> \o ws = ws
    BY ConcatEmptySeq
  <2>2. Alike(c5, c6) /\ c6.cmd.op = c5.cmd.op /\ c6.cmd.at = c5.cmd.at
        /\ c6.cmd.words = c5.cmd.words \o ws
    BY <1>5, WordsShifted
  <2> HIDE DEF c6
  <2> QED BY <1>5, <2>1, <2>2 DEF Alike
<1> QED BY <1>0, <1>6 DEF Writes

(* One turn of the loop stops at the end of the page, or has written all. *)
LEMMA TurnIs ==
  ASSUME NEW c, c.words \in Seq(Words), c.at \in Nat, c.widx \in Nat, c.widx < Len(c.words)
  PROVE  /\ Turn(c) \in 1..(Len(c.words) - c.widx)
         /\ ((c.at + c.widx) % PageWords) + Turn(c) <= PageWords
         /\ (c.at + (c.widx + Turn(c))) % PageWords = 0 \/ c.widx + Turn(c) = Len(c.words)
<1> DEFINE x == c.at + c.widx
           r == x % PageWords
           left == Len(c.words) - c.widx
           room == PageWords - r
<1>1. PageWords \in Nat \ {0} /\ x \in Nat /\ r \in 0..(PageWords - 1) /\ left \in Nat \ {0}
  <2>1. PageWords \in Nat \ {0} /\ x \in Nat
    BY NvmAssumption
  <2>2. r \in 0..(PageWords - 1)
    <3>1. InPage(x) \in 0..(PageWords - 1)
      <4> HIDE DEF x
      <4>1. InPage(x) \in Nat /\ InPage(x) < PageWords
        BY <2>1, Paged
      <4> QED BY <2>1, <4>1
    <3> QED BY <3>1 DEF InPage
  <2> HIDE DEF r
  <2> QED BY <2>1, <2>2
<1>2. Turn(c) = IF left < room THEN left ELSE room
  BY DEF Turn
<1>3. c.at + (c.widx + Turn(c)) = x + Turn(c)
  BY <1>1, <1>2
<1>4. Turn(c) = room => (x + Turn(c)) % PageWords = 0
  <2>1. r + room = PageWords /\ room \in Nat
    <3> HIDE DEF r
    <3> QED BY <1>1
  <2>2. (x + room) % PageWords = 0
    <3>1. r = InPage(x)
      BY DEF InPage
    <3> HIDE DEF x, room, r
    <3>2. InPage(x + room) = 0
      BY <1>1, <2>1, <3>1, PagedOn
    <3> QED BY <3>2 DEF InPage
  <2> QED BY <2>2
<1>5. Turn(c) \in 1..left /\ r + Turn(c) <= PageWords /\ (Turn(c) = room \/ Turn(c) = left)
  <2> HIDE DEF r, left
  <2> QED BY <1>1, <1>2
<1>6. Turn(c) = left => c.widx + Turn(c) = Len(c.words)
  BY <1>1
<1> QED BY <1>3, <1>4, <1>5, <1>6

LEMMA AddressIs ==
  ASSUME NEW at \in Nat, NEW x \in Nat
  PROVE  /\ Address(at, x) \in Nat
         /\ \/ at < AddressWords /\ x < AddressWords
            \/ at >= AddressWords /\ x >= AddressWords /\ x < 2 * AddressWords
            => Address(at, x) = x
<1>1. AddressWords \in Nat \ {0}
  BY NvmAssumption
<1>2. x % AddressWords \in Nat
  <2> DEFINE b == AddressWords
  <2> HIDE DEF b
  <2>1. b \in Nat \ {0}
    BY <1>1 DEF b
  <2> QED BY <2>1, Divided DEF b
<1>3. /\ x < AddressWords => x % AddressWords = x
      /\ AddressWords <= x /\ x < 2 * AddressWords => x % AddressWords = x - AddressWords
  BY <1>1, SmallRemainder
<1> DEFINE r == x % AddressWords
<1>4. Address(at, x) = r + (IF at >= AddressWords THEN AddressWords ELSE 0)
  BY DEF Address
<1> HIDE DEF r
<1> QED BY <1>1, <1>2, <1>3, <1>4 DEF r

-----------------------------------------------------------------------------
(* The bytes of a word, and the word of two bytes. *)
LEMMA Joined ==
  ASSUME NEW h \in 0..(Radix - 1), NEW l \in 0..(Radix - 1)
  PROVE  /\ h * Radix + l \in Words
         /\ (h * Radix + l) % Radix = l /\ (h * Radix + l) \div Radix = h
<1> DEFINE x == h * Radix + l
           q == x \div Radix
           r == x % Radix
<1>1. Radix \in Nat \ {0} /\ h \in Nat /\ l \in Nat
  BY NvmAssumption
<1>2. h * Radix \in Nat /\ h * Radix = Radix * h /\ h * Radix <= (Radix - 1) * Radix
  BY <1>1
<1>3. x \in Nat /\ x = Radix * h + l
  BY <1>1, <1>2
<1>4. x < Mod
  <2>1. (Radix - 1) * Radix = Radix * Radix - Radix
    BY <1>1
  <2> QED BY <1>1, <1>2, <2>1 DEF Mod
<1> HIDE DEF x
<1>5. q \in Nat /\ r \in 0..(Radix - 1) /\ x = Radix * q + r
  BY <1>1, <1>3, Divided
<1> HIDE DEF q, r
<1>6. q = h /\ r = l
  BY <1>1, <1>3, <1>5, DividedOnce
<1>7. x \in Words
  BY <1>3, <1>4, WordsGiven
<1> QED BY <1>6, <1>7 DEF x, q, r

LEMMA Bytes ==
  ASSUME NEW x \in Words
  PROVE  x % Radix \in 0..(Radix - 1) /\ x \div Radix \in 0..(Radix - 1)
<1> DEFINE q == x \div Radix
           r == x % Radix
<1>1. Radix \in Nat \ {0} /\ x \in Nat /\ x < Radix * Radix
  BY NvmAssumption, WordsGiven DEF Mod
<1>2. q \in Nat /\ r \in 0..(Radix - 1) /\ x = Radix * q + r
  BY <1>1, Divided
<1> HIDE DEF q, r
<1>3. ASSUME q >= Radix PROVE FALSE
  <2>1. Radix * q >= Radix * Radix
    BY <1>1, <1>2, <1>3
  <2> QED BY <1>1, <1>2, <2>1
<1> QED BY <1>1, <1>2, <1>3 DEF q, r

(* The words that a request touches. *)
LEMMA Requested ==
  ASSUME NEW r \in Requests
  PROVE  /\ r \in Nat \X Nat /\ r[1] \in Nat /\ r[2] \in Nat \ {0}
         /\ FirstWord(r) \in Nat /\ LastWord(r) \in Nat /\ Count(r) \in Nat \ {0}
         /\ LastWord(r) < WordSize /\ LastWord(r) = FirstWord(r) + Count(r) - 1
         /\ r[1] = 2 * FirstWord(r) + (r[1] % 2) /\ r[1] % 2 \in {0, 1}
         /\ r[1] + r[2] - 1 = 2 * LastWord(r) + ((r[1] + r[2] - 1) % 2)
         /\ (r[1] + r[2]) % 2 \in {0, 1} /\ (r[1] + r[2] - 1) % 2 = 1 - ((r[1] + r[2]) % 2)
<1>1. r \in Nat \X (Nat \ {0}) /\ r[1] + r[2] <= 2 * WordSize /\ WordSize \in Nat
  BY NvmAssumption
<1> DEFINE x == r[1]
           y == r[1] + r[2] - 1
<1>2. r \in Nat \X Nat /\ r[2] \in Nat \ {0} /\ x \in Nat /\ y \in Nat /\ y >= x /\ y < 2 * WordSize
      /\ r[1] + r[2] = y + 1
  BY <1>1
<1>3. FirstWord(r) = x \div 2 /\ LastWord(r) = y \div 2
  BY DEF FirstWord, LastWord
<1>4. Count(r) = LastWord(r) - FirstWord(r) + 1
  BY DEF Count
<1> HIDE DEF x, y
<1>5. x \div 2 \in Nat /\ x = 2 * (x \div 2) + (x % 2) /\ x % 2 \in {0, 1}
  BY <1>2
<1>6. y \div 2 \in Nat /\ y = 2 * (y \div 2) + (y % 2) /\ y % 2 \in {0, 1}
  BY <1>2
<1>7. (y + 1) % 2 \in {0, 1} /\ y % 2 = 1 - ((y + 1) % 2)
  BY <1>2
<1>8. y \div 2 >= x \div 2 /\ y \div 2 < WordSize
  BY <1>1, <1>2, <1>5, <1>6
<1> DEFINE f == FirstWord(r)
           l == LastWord(r)
           n == Count(r)
<1>9. f \in Nat /\ l \in Nat /\ n \in Nat \ {0} /\ l < WordSize /\ l = f + n - 1
  <2> HIDE DEF f, l, n
  <2>1. f = x \div 2 /\ l = y \div 2 /\ n = l - f + 1
    BY <1>3, <1>4 DEF f, l, n
  <2> DEFINE xx == x \div 2
             yy == y \div 2
  <2>2. xx \in Nat /\ yy \in Nat /\ yy >= xx /\ yy < WordSize /\ f = xx /\ l = yy
    BY <1>5, <1>6, <1>8, <2>1
  <2> HIDE DEF xx, yy
  <2> QED BY <1>1, <2>1, <2>2
<1>10. x = 2 * f + (x % 2) /\ x % 2 \in {0, 1} /\ y = 2 * l + (y % 2)
  BY <1>3, <1>5, <1>6
<1>11. (r[1] + r[2]) % 2 \in {0, 1} /\ y % 2 = 1 - ((r[1] + r[2]) % 2)
  BY <1>2, <1>7
<1> QED BY <1>2, <1>9, <1>10, <1>11 DEF x, y

-----------------------------------------------------------------------------
Within(r, b) == r[1] <= b /\ b < r[1] + r[2]

(* What the request r on the contents was is to leave at address a. *)
Right(r, was, a, w) ==
  /\ w % Radix = IF Within(r, 2 * a) THEN Radix - 1 ELSE was[a] % Radix
  /\ w \div Radix = IF Within(r, 2 * a + 1) THEN Radix - 1 ELSE was[a] \div Radix
Landed(r, was, mem) == \A a \in Addresses : Right(r, was, a, mem[a])
LandedBut(r, was, mem) == \A a \in Addresses \ {ChecksumReg} : Right(r, was, a, mem[a])
RightWords(r, was, words) ==
  \A k \in 1..Len(words) : Right(r, was, FirstWord(r) + k - 1, words[k])
Partly(at, words, n, was, mem) ==
  \A a \in Addresses : mem[a] = IF at <= a /\ a < at + n THEN words[a - at + 1] ELSE was[a]

(* Word k of the buffer is written in part only. *)
Edge(r, k) == (k = 1 /\ r[1] % 2 = 1) \/ (k = Count(r) /\ (r[1] + r[2]) % 2 = 1)

LEMMA EdgesAre ==
  ASSUME NEW r \in Requests
  PROVE  /\ Edges(r) \in Seq(Nat)
         /\ \A j \in DOMAIN Edges(r) : Edges(r)[j] \in 1..Count(r)
         /\ \A k \in 1..Count(r) : Edge(r, k) => \E j \in DOMAIN Edges(r) : Edges(r)[j] = k
<1>1. Count(r) \in Nat \ {0} /\ r[1] % 2 \in {0, 1} /\ (r[1] + r[2]) % 2 \in {0, 1}
  BY Requested
<1> DEFINE n == Count(r)
           odd == r[1] % 2 = 1
           last == (r[1] + r[2]) % 2 = 1
<1>2. Edges(r) = (IF odd THEN <<1>> ELSE <<>>) \o (IF last THEN <<n>> ELSE <<>>)
  BY DEF Edges
<1>3. \A k : Edge(r, k) <=> (k = 1 /\ odd) \/ (k = n /\ last)
  BY DEF Edge
<1> HIDE DEF n, odd, last
<1>4. n \in Nat \ {0} /\ n \in 1..n /\ 1 \in 1..n
  BY <1>1 DEF n
<1>5. CASE odd /\ last
  <2> DEFINE e == <<1>> \o <<n>>
  <2>1. Edges(r) = e
    BY <1>2, <1>5
  <2>2. e \in Seq(Nat) /\ Len(e) = 2 /\ e[1] = 1 /\ e[2] = n
    <3>1. <<1>> \in Seq(Nat) /\ <<n>> \in Seq(Nat) /\ Len(<<1>>) = 1 /\ Len(<<n>>) = 1
      BY <1>4
    <3> DEFINE s == <<1>>
               t == <<n>>
    <3>2. s[1] = 1 /\ t[1] = n
      OBVIOUS
    <3> HIDE DEF s, t
    <3>3. s \in Seq(Nat) /\ t \in Seq(Nat) /\ Len(s) = 1 /\ Len(t) = 1
      BY <3>1 DEF s, t
    <3>6. /\ (s \o t) \in Seq(Nat) /\ Len(s \o t) = Len(s) + Len(t)
          /\ \A i \in 1..(Len(s) + Len(t)) : (s \o t)[i] = IF i <= Len(s) THEN s[i] ELSE t[i - Len(s)]
      BY <3>3, ConcatProperties
    <3> DEFINE c == s \o t
    <3> HIDE DEF c
    <3>4. c \in Seq(Nat) /\ Len(c) = 2 /\ c[1] = s[1] /\ c[2] = t[1]
      <4>1. \A i \in 1..2 : c[i] = IF i <= 1 THEN s[i] ELSE t[i - 1]
        BY <3>3, <3>6 DEF c
      <4> QED BY <3>3, <3>6, <4>1 DEF c
    <3>5. e = c
      BY DEF s, t, c
    <3> QED BY <3>2, <3>4, <3>5
  <2> HIDE DEF e
  <2>3. DOMAIN e = {1, 2}
    BY <2>2
  <2> QED BY <1>3, <1>4, <1>5, <2>1, <2>2, <2>3 DEF n
<1>6. CASE odd /\ ~last
  <2>1. Edges(r) = <<1>>
    BY <1>2, <1>6
  <2> QED BY <1>3, <1>4, <1>6, <2>1 DEF n
<1>7. CASE ~odd /\ last
  <2>1. Edges(r) = <<n>>
    BY <1>2, <1>7, <1>4
  <2> QED BY <1>3, <1>4, <1>7, <2>1 DEF n
<1>8. CASE ~odd /\ ~last
  <2>1. Edges(r) = <<>>
    BY <1>2, <1>8
  <2> QED BY <1>3, <1>4, <1>8, <2>1 DEF n
<1> QED BY <1>5, <1>6, <1>7, <1>8

(* Outside of the request, what was there is right; and memcpy() makes the *)
(* words of the buffer right, if the edges have been read.                 *)
LEMMA OutsideRight ==
  ASSUME NEW r \in Requests, NEW was \in Contents, NEW a \in Addresses,
         a < FirstWord(r) \/ a > LastWord(r)
  PROVE  Right(r, was, a, was[a])
<1>1. a \in Nat
  BY NvmAssumption DEF Addresses
<1>2. ~Within(r, 2 * a) /\ ~Within(r, 2 * a + 1)
  <2> DEFINE f == FirstWord(r)
             l == LastWord(r)
             x == r[1]
             y == r[1] + r[2] - 1
             m == x % 2
             o == y % 2
  <2>1. f \in Nat /\ l \in Nat /\ x = 2 * f + m /\ y = 2 * l + o /\ m \in {0, 1} /\ o \in {0, 1}
        /\ x + r[2] = y + 1 /\ r[2] \in Nat /\ (a < f \/ a > l)
    BY Requested
  <2>2. \A b : Within(r, b) <=> x <= b /\ b < x + r[2]
    BY DEF Within
  <2> HIDE DEF f, l, x, y, m, o
  <2> QED BY <1>1, <2>1, <2>2
<1> QED BY <1>2 DEF Right

LEMMA MergeRight ==
  ASSUME NEW r \in Requests, NEW was \in Contents, NEW k \in 1..Count(r), NEW word \in Words,
         Edge(r, k) => word = was[FirstWord(r) + k - 1]
  PROVE  /\ Merge(r, k, word) \in Words
         /\ Right(r, was, FirstWord(r) + k - 1, Merge(r, k, word))
<1> DEFINE a == FirstWord(r) + k - 1
           w0 == Within(r, 2 * a)
           w1 == Within(r, 2 * a + 1)
           l == IF w0 THEN Radix - 1 ELSE word % Radix
           h == IF w1 THEN Radix - 1 ELSE word \div Radix
<1>1. Merge(r, k, word) = h * Radix + l
  BY DEF Merge, Within
<1>2. l \in 0..(Radix - 1) /\ h \in 0..(Radix - 1)
  <2>1. Radix - 1 \in 0..(Radix - 1)
    BY WordsGiven
  <2>2. word % Radix \in 0..(Radix - 1) /\ word \div Radix \in 0..(Radix - 1)
    BY Bytes
  <2> HIDE DEF w0, w1
  <2> QED BY <2>1, <2>2
<1>3. word = was[a] \/ (w0 /\ w1)
  <2> DEFINE f == FirstWord(r)
             n == Count(r)
             x == r[1]
             y == r[1] + r[2] - 1
             m == x % 2
             o == y % 2
             z == (r[1] + r[2]) % 2
  <2>1. f \in Nat /\ n \in Nat \ {0} /\ x = 2 * f + m /\ y = 2 * (f + n - 1) + o /\ m \in {0, 1}
        /\ z \in {0, 1} /\ o = 1 - z /\ x + r[2] = y + 1 /\ r[2] \in Nat /\ k \in 1..n
    BY Requested
  <2>2. a = f + k - 1 /\ \A b : Within(r, b) <=> x <= b /\ b < x + r[2]
    BY DEF Within
  <2>3. word = was[a] \/ (~(k = 1 /\ m = 1) /\ ~(k = n /\ z = 1))
    BY DEF Edge
  <2>4. w0 <=> x <= 2 * a /\ 2 * a < x + r[2]
    BY <2>2
  <2>5. w1 <=> x <= 2 * a + 1 /\ 2 * a + 1 < x + r[2]
    BY <2>2
  <2> HIDE DEF f, n, x, y, m, o, z, a, w0, w1
  <2> QED BY <2>1, <2>2, <2>3, <2>4, <2>5
<1> HIDE DEF l, h
<1>4. Merge(r, k, word) \in Words /\ Merge(r, k, word) % Radix = l /\ Merge(r, k, word) \div Radix = h
  BY <1>1, <1>2, Joined
<1>5. /\ l = IF w0 THEN Radix - 1 ELSE was[a] % Radix
      /\ h = IF w1 THEN Radix - 1 ELSE was[a] \div Radix
  BY <1>3 DEF l, h
<1> QED BY <1>4, <1>5 DEF Right

(* The memory is right when all the words of the buffer are in it. *)
LEMMA AllLanded ==
  ASSUME NEW r \in Requests, NEW was \in Contents, NEW words, NEW mem,
         Len(words) = Count(r), RightWords(r, was, words),
         Partly(FirstWord(r), words, Count(r), was, mem)
  PROVE  Landed(r, was, mem)
<1> SUFFICES ASSUME NEW a \in Addresses PROVE Right(r, was, a, mem[a])
  BY DEF Landed
<1> DEFINE f == FirstWord(r)
           n == Count(r)
<1>1. f \in Nat /\ n \in Nat \ {0} /\ LastWord(r) = f + n - 1 /\ a \in Nat /\ Len(words) = n
  BY Requested, NvmAssumption DEF Addresses
<1>2. mem[a] = IF f <= a /\ a < f + n THEN words[a - f + 1] ELSE was[a]
  BY DEF Partly
<1>3. \A k \in 1..n : Right(r, was, f + k - 1, words[k])
  BY DEF RightWords
<1>4. a < f \/ a > f + n - 1 => Right(r, was, a, was[a])
  BY <1>1, OutsideRight
<1> HIDE DEF f, n
<1>5. CASE f <= a /\ a < f + n
  <2>1. a - f + 1 \in 1..n /\ f + (a - f + 1) - 1 = a
    BY <1>1, <1>5
  <2>2. Right(r, was, a, words[a - f + 1])
    BY <1>3, <2>1
  <2> QED BY <1>2, <1>5, <2>2
<1>6. CASE ~(f <= a /\ a < f + n)
  BY <1>1, <1>2, <1>4, <1>6
<1> QED BY <1>5, <1>6

-----------------------------------------------------------------------------
Calls ==
  [pc : {"idle", "edges", "mark", "grant", "write", "unmark", "sum"},
   what : {"none", "data", "checksum", "check"}, req : Nat \X Nat,
   edges : Seq(Nat), at : Nat, words : Seq(Words), widx : Nat, i : Nat, sum : Words,
   ok : BOOLEAN, was : Contents \cup {<<>>}, clean : BOOLEAN]

NvmTypeOK == chip \in Chips /\ call \in [Ports -> Calls]

(* The chip has a command only while the last page is being written. *)
Pending(c) == c.pc = "write" /\ c.widx = Len(c.words)
ChipInv ==
  \/ chip.cmd = No /\ ~chip.wel
  \/ Writes(chip) /\ \E p \in Ports : Pending(call[p])

(* What the chip holds when it is deselected. *)
Effective(ch) == Deselect(ch).mem

(* The request of the call is one that the address bits are enough for. *)
Asked(c) ==
  /\ c.req \in Requests /\ ~Crosses(c.req) /\ c.at = FirstWord(c.req)
  /\ Len(c.words) = Count(c.req) /\ c.was \in Contents

(* The buffer has its words, whatever comes of reading the edges. *)
Placed(c) ==
  /\ c.req \in Requests /\ c.at = FirstWord(c.req) /\ Len(c.words) = Count(c.req)
  /\ \A j \in DOMAIN c.edges : c.edges[j] \in 1..Len(c.words)

(* The edges that are not among those still to be read have been read. *)
EdgesRead(c, mem) ==
  \A k \in 1..Len(c.words) : Edge(c.req, k) =>
    c.words[k] = mem[c.at + k - 1] \/ \E j \in DOMAIN c.edges : c.edges[j] = k

(* A call that writes data, by the place where it is. *)
DataInv(c, mem, eff) ==
  /\ c.pc = "edges" => Asked(c) /\ c.was = mem /\ EdgesRead(c, mem)
  /\ c.pc \in {"mark", "grant"} =>
       Asked(c) /\ c.was = mem /\ RightWords(c.req, c.was, c.words)
  /\ c.pc = "write" =>
       Asked(c) /\ RightWords(c.req, c.was, c.words) /\ Partly(c.at, c.words, c.widx, c.was, eff)
  /\ c.pc \in {"unmark", "sum", "idle"} => Landed(c.req, c.was, mem) /\ c.was \in Contents
  /\ c.pc = "sum" => c.sum = SumTo(mem, c.i)
  /\ c.pc = "idle" => FirstWord(c.req) > ChecksumReg
  /\ c.pc # "sum" => c.sum = 0

(* A call that writes the checksum of the data that it has written. *)
ChecksumInv(c, mem, eff) ==
  /\ c.pc \in {"mark", "grant", "write", "unmark", "idle"} /\ c.was \in Contents
  /\ c.pc # "idle" => c.at = ChecksumReg
  /\ c.pc \in {"mark", "grant"} =>
       LandedBut(c.req, c.was, mem) /\ c.words = <<Checksum(mem)>>
  /\ c.pc = "write" =>
       /\ LandedBut(c.req, c.was, eff) /\ c.words = <<Checksum(eff)>>
       /\ c.widx = 1 => eff[ChecksumReg] = Checksum(eff)
  /\ c.pc \in {"unmark", "idle"} => LandedBut(c.req, c.was, mem) /\ Valid(mem)

(* What holds of every call, and of the disturbed and the failed ones too. *)
CallInv(c, mem, eff) ==
  /\ c.pc = "edges" => c.what = "data" /\ c.widx = 0 /\ Placed(c)
  /\ c.pc \in {"mark", "grant", "write", "unmark"} => c.what \in {"data", "checksum"}
  /\ c.pc = "sum" => c.what \in {"data", "check"} /\ c.i <= LastToAdd(c)
  /\ c.pc \in {"mark", "grant"} => c.widx = 0
  /\ c.pc = "write" => c.widx <= Len(c.words)
  /\ c.what = "data" /\ c.pc # "sum" => c.i = 0
  /\ c.what = "data" /\ c.pc = "sum" => c.ok
  /\ c.pc = "idle" => c.ok /\ c.clean
  /\ c.what = "data" /\ c.clean /\ c.ok => DataInv(c, mem, eff)
  /\ c.what = "checksum" /\ c.clean => ChecksumInv(c, mem, eff)

CallsInv == \A p \in Ports : CallInv(call[p], chip.mem, Effective(chip))
LandsInv == NvmTypeOK /\ ChipInv /\ CallsInv

(* Only the port that has the grant writes. *)
WriterGranted == \A p \in Ports : call[p].pc = "write" => grant = {p}

-----------------------------------------------------------------------------
LEMMA CallIs ==
  ASSUME NEW c \in Calls
  PROVE  /\ c.pc \in {"idle", "edges", "mark", "grant", "write", "unmark", "sum"}
         /\ c.what \in {"none", "data", "checksum", "check"} /\ c.req \in Nat \X Nat
         /\ c.edges \in Seq(Nat) /\ c.at \in Nat /\ c.words \in Seq(Words) /\ c.widx \in Nat
         /\ c.i \in Nat /\ c.sum \in Words /\ c.ok \in BOOLEAN /\ c.was \in Contents \cup {<<>>}
         /\ c.clean \in BOOLEAN /\ Len(c.words) \in Nat
BY DEF Calls

LEMMA FirstWordIs ==
  ASSUME NEW r \in Nat \X Nat
  PROVE  FirstWord(r) \in Nat
<1> DEFINE x == r[1]
<1>1. x \in Nat
  OBVIOUS
<1> HIDE DEF x
<1> QED BY <1>1 DEF FirstWord, x

LEMMA IdleCall ==
  /\ Idle \in Calls /\ Idle.pc = "idle" /\ Idle.what = "none" /\ Idle.ok /\ Idle.clean
  /\ \A mem, eff : CallInv(Idle, mem, eff)
<1>1. /\ Idle \in Calls /\ Idle.pc = "idle" /\ Idle.what = "none" /\ Idle.ok /\ Idle.clean
  <2>1. 0 \in Words /\ <<>> \in Seq(Nat) /\ <<>> \in Seq(Words) /\ <<0, 0>> \in Nat \X Nat
    BY WordsGiven
  <2> QED BY <2>1 DEF Idle, Calls
<1> QED BY <1>1 DEF CallInv

(* A disturbed call goes its way, and nothing is claimed of it. *)
LEMMA DisturbedCall ==
  ASSUME NEW c \in Calls
  PROVE  LET d == Disturbed(c) IN
         /\ d \in Calls /\ d.pc = c.pc
         /\ c.pc = "idle" => d = Idle
         /\ c.pc # "idle" =>
              /\ ~d.clean /\ d.what = c.what /\ d.widx = c.widx /\ d.words = c.words /\ d.i = c.i
              /\ (d.ok <=> c.ok) /\ d.edges = c.edges /\ d.req = c.req /\ d.at = c.at
<1>1. CASE c.pc = "idle"
  BY <1>1, IdleCall DEF Disturbed
<1>2. CASE c.pc # "idle"
  <2>1. Disturbed(c) = [c EXCEPT !.clean = FALSE, !.was = <<>>]
    BY <1>2 DEF Disturbed
  <2> QED BY <1>2, <2>1 DEF Calls
<1> QED BY <1>1, <1>2

LEMMA DisturbedInv ==
  ASSUME NEW c \in Calls, NEW mem, NEW eff, NEW mem2, NEW eff2, CallInv(c, mem, eff)
  PROVE  CallInv(Disturbed(c), mem2, eff2)
<1> DEFINE d == Disturbed(c)
<1>1. d \in Calls /\ d.pc = c.pc
  BY DisturbedCall
<1>2. CASE c.pc = "idle"
  <2>1. d = Idle
    BY <1>2, DisturbedCall
  <2> QED BY <2>1, IdleCall
<1>3. CASE c.pc # "idle"
  <2>1. /\ ~d.clean /\ d.what = c.what /\ d.widx = c.widx /\ d.words = c.words /\ d.i = c.i
        /\ (d.ok <=> c.ok) /\ d.req = c.req /\ d.at = c.at /\ d.edges = c.edges
    BY <1>3, DisturbedCall
  <2> HIDE DEF d
  <2>2. CallInv(d, mem2, eff2)
    BY <1>1, <1>3, <2>1 DEF CallInv, LastToAdd, Placed
  <2> QED BY <2>2 DEF d
<1> QED BY <1>2, <1>3

(* A failure of a write of data, and of one of the checksum. *)
LEMMA FailsCall ==
  ASSUME NEW c \in Calls, c.pc # "idle", c.what \in {"data", "checksum"}, c.what = "data" => c.i = 0
  PROVE  LET f == Fails(c)
             w == [f EXCEPT !.widx = Len(c.words)]
             u == [f EXCEPT !.pc = "unmark"]
         IN /\ u \in Calls /\ \A mem, eff : CallInv(u, mem, eff)
            /\ c.pc = "write" => w \in Calls /\ \A mem, eff : CallInv(w, mem, eff)
<1> DEFINE f == Fails(c)
           n == Len(c.words)
           w == [f EXCEPT !.widx = n]
           u == [f EXCEPT !.pc = "unmark"]
<1>1. f \in Calls /\ f.what = c.what /\ f.words = c.words /\ f.i = c.i /\ f.pc = c.pc
      /\ (c.what = "data" => ~f.ok) /\ (c.what = "checksum" => ~f.clean) /\ n \in Nat
  <2>0. n \in Nat
    BY CallIs
  <2>1. CASE c.what = "data"
    BY <2>0, <2>1 DEF Fails, Calls
  <2>2. CASE c.what = "checksum"
    BY <2>0, <2>2, DisturbedCall DEF Fails
  <2> QED BY <2>1, <2>2
<1> HIDE DEF f
<1>2. u \in Calls /\ u.what = c.what /\ u.words = c.words /\ u.i = c.i /\ u.pc = "unmark"
      /\ (c.what = "data" => ~u.ok) /\ (c.what = "checksum" => ~u.clean)
  BY <1>1 DEF Calls
<1>3. w \in Calls /\ w.what = c.what /\ w.words = c.words /\ w.i = c.i /\ w.pc = c.pc /\ w.widx = n
      /\ (c.what = "data" => ~w.ok) /\ (c.what = "checksum" => ~w.clean)
  BY <1>1 DEF Calls
<1> HIDE DEF u, w
<1>4. \A mem, eff : CallInv(u, mem, eff)
  BY <1>2 DEF CallInv
<1>5. c.pc = "write" => \A mem, eff : CallInv(w, mem, eff)
  BY <1>1, <1>3 DEF CallInv
<1> QED BY <1>2, <1>3, <1>4, <1>5 DEF u, w, f

LEMMA EndedCall ==
  ASSUME NEW c \in Calls
  PROVE  LET e == Ended(c) IN
         /\ e \in Calls /\ e.pc = "idle" /\ e.ok /\ e.clean
         /\ c.ok /\ c.clean => e.what = c.what /\ e.req = c.req /\ e.was = c.was /\ e.i = 0 /\ e.sum = 0
         /\ ~(c.ok /\ c.clean) => e = Idle
<1>1. CASE c.ok /\ c.clean
  <2> DEFINE w == c.what
             r == c.req
             m == c.was
             i == Idle
             e == [i EXCEPT !.what = w, !.req = r, !.was = m]
  <2>1. Ended(c) = e
    BY <1>1 DEF Ended
  <2>2. w \in {"none", "data", "checksum", "check"} /\ r \in Nat \X Nat /\ m \in Contents \cup {<<>>}
        /\ i \in Calls /\ i.pc = "idle" /\ i.ok /\ i.clean
    BY CallIs, IdleCall
  <2>3. i.i = 0 /\ i.sum = 0
    BY DEF Idle
  <2> HIDE DEF w, r, m, i
  <2>4. e \in Calls /\ e.pc = "idle" /\ e.ok /\ e.clean /\ e.what = w /\ e.req = r /\ e.was = m
        /\ e.i = 0 /\ e.sum = 0
    BY <2>2, <2>3 DEF Calls
  <2> HIDE DEF e
  <2> QED BY <1>1, <2>1, <2>4 DEF w, r, m
<1>2. CASE ~(c.ok /\ c.clean)
  BY <1>2, IdleCall DEF Ended
<1> QED BY <1>1, <1>2

(* What of the contents a call depends on. *)
LEMMA NotWriting ==
  ASSUME NEW c, NEW mem, NEW eff, NEW eff2, CallInv(c, mem, eff), c.pc # "write"
  PROVE  CallInv(c, mem, eff2)
BY DEF CallInv, DataInv, ChecksumInv

-----------------------------------------------------------------------------
(* A chip that has no command, and one that is to write. *)
LEMMA EffectiveIs ==
  ASSUME NEW ch \in Chips
  PROVE  /\ Effective(ch) \in Contents
         /\ Writes(ch) => Effective(ch) = Written(ch)
         /\ ~Writes(ch) => Effective(ch) = ch.mem
         /\ ch.cmd = No \/ ch.busy => ~Writes(ch)
<1>1. Deselect(ch) \in Chips
  BY DeselectIs
<1>2. Effective(ch) \in Contents
  BY <1>1, ChipIs DEF Effective
<1> QED BY <1>2, DeselectIs, NoIsCommand DEF Effective, Writes

(* One call goes on, and the chip is as it was. *)
LEMMA CallGoes ==
  ASSUME LandsInv, NEW p \in Ports, NEW d \in Calls, call' = [call EXCEPT ![p] = d], chip' = chip,
         CallInv(d, chip.mem, Effective(chip)), call[p].pc # "write" \/ chip.busy
  PROVE  LandsInv'
<1>1. NvmTypeOK /\ ChipInv /\ CallsInv
  BY DEF LandsInv
<1>2. call' \in [Ports -> Calls] /\ call'[p] = d /\ \A q \in Ports : q # p => call'[q] = call[q]
  BY <1>1 DEF NvmTypeOK
<1>3. CallsInv'
  <2> SUFFICES ASSUME NEW q \in Ports PROVE CallInv(call'[q], chip.mem, Effective(chip))
    BY DEF CallsInv
  <2> QED BY <1>1, <1>2 DEF CallsInv
<1>4. ChipInv'
  <2>1. CASE chip.cmd = No /\ ~chip.wel
    BY <2>1 DEF ChipInv
  <2>2. ASSUME Writes(chip), NEW q \in Ports, Pending(call[q]) PROVE ChipInv'
    <3>1. q # p
      BY <2>2 DEF Pending, Writes
    <3>2. Pending(call'[q])
      BY <1>2, <2>2, <3>1
    <3> QED BY <2>2, <3>2 DEF ChipInv
  <2> QED BY <1>1, <2>1, <2>2 DEF ChipInv
<1> QED BY <1>1, <1>2, <1>3, <1>4 DEF LandsInv, NvmTypeOK

(* A call, and the chip with it, goes on; nobody else writes. *)
LEMMA ChipGoes ==
  ASSUME LandsInv, NEW p \in Ports, NEW d \in Calls, GoesAs(p, d), NEW ch \in Chips, chip' = ch,
         \A q \in Ports : call[q].pc = "write" => q = p,
         CallInv(d, ch.mem, Effective(ch)),
         (ch.cmd = No /\ ~ch.wel) \/ (Writes(ch) /\ Pending(d))
  PROVE  LandsInv'
<1> DEFINE g(q) == IF q = p THEN d ELSE IF ch.mem = chip.mem THEN call[q] ELSE Disturbed(call[q])
<1>1. NvmTypeOK /\ ChipInv /\ CallsInv
  BY DEF LandsInv
<1>2. ASSUME NEW q \in Ports PROVE g(q) \in Calls /\ CallInv(g(q), ch.mem, Effective(ch))
  <2>0. call[q] \in Calls /\ CallInv(call[q], chip.mem, Effective(chip))
    BY <1>1 DEF NvmTypeOK, CallsInv
  <2>1. CASE q = p
    BY <2>1
  <2>2. CASE q # p /\ ch.mem = chip.mem
    <3>1. call[q].pc # "write"
      BY <2>2
    <3>2. CallInv(call[q], chip.mem, Effective(ch))
      BY <2>0, <3>1, NotWriting
    <3> QED BY <2>0, <2>2, <3>2
  <2>3. CASE q # p /\ ch.mem # chip.mem
    <3>1. Disturbed(call[q]) \in Calls
      BY <2>0, DisturbedCall
    <3>2. CallInv(Disturbed(call[q]), ch.mem, Effective(ch))
      BY <2>0, DisturbedInv
    <3> QED BY <2>3, <3>1, <3>2
  <2> QED BY <2>1, <2>2, <2>3
<1>3. call' = [q \in Ports |-> g(q)] /\ g(p) = d
  BY DEF GoesAs
<1> HIDE DEF g
<1>4. call' \in [Ports -> Calls] /\ call'[p] = d /\ \A q \in Ports : call'[q] = g(q)
  BY <1>2, <1>3
<1>5. CallsInv'
  BY <1>2, <1>4 DEF CallsInv
<1>6. ChipInv'
  BY <1>4 DEF ChipInv
<1>7. NvmTypeOK'
  BY <1>4 DEF NvmTypeOK
<1> QED BY <1>5, <1>6, <1>7 DEF LandsInv

LEMMA GivesUpLands ==
  ASSUME LandsInv, NEW p \in Ports, GivesUp(p), chip' = chip
  PROVE  LandsInv'
<1>1. call[p].pc = "mark" /\ call' = [call EXCEPT ![p] = Idle]
  BY DEF GivesUp, At
<1> QED BY <1>1, IdleCall, CallGoes

LEMMA NobodyLands ==
  ASSUME LandsInv, UNCHANGED <<call, chip>>
  PROVE  LandsInv'
<1>1. NvmTypeOK' /\ ChipInv' /\ CallsInv'
  BY DEF LandsInv, NvmTypeOK, ChipInv, CallsInv
<1> QED BY <1>1 DEF LandsInv

LEMMA ChipIsReadyLands ==
  ASSUME LandsInv, ChipIsReady
  PROVE  LandsInv'
<1> DEFINE ch == [chip EXCEPT !.busy = FALSE]
<1>1. NvmTypeOK /\ ChipInv /\ CallsInv /\ chip \in Chips
  BY DEF LandsInv, NvmTypeOK
<1>2. chip.busy /\ chip' = ch /\ call' = call
  BY DEF ChipIsReady
<1>3. chip.cmd = No /\ ~chip.wel
  BY <1>1, <1>2 DEF ChipInv, Writes
<1>4. ch \in Chips /\ ch.mem = chip.mem /\ ch.cmd = chip.cmd /\ (ch.wel <=> chip.wel)
  BY <1>1 DEF Chips
<1> HIDE DEF ch
<1>5. Effective(ch) = chip.mem /\ Effective(chip) = chip.mem
  BY <1>1, <1>3, <1>4, EffectiveIs
<1>6. CallsInv' /\ ChipInv' /\ NvmTypeOK'
  <2>1. CallsInv'
    <3> SUFFICES ASSUME NEW q \in Ports PROVE CallInv(call[q], ch.mem, Effective(ch))
      BY <1>2 DEF CallsInv
    <3> QED BY <1>1, <1>4, <1>5 DEF CallsInv
  <2>2. ChipInv'
    BY <1>2, <1>3, <1>4 DEF ChipInv
  <2> QED BY <1>1, <1>2, <1>4, <2>1, <2>2 DEF NvmTypeOK
<1> QED BY <1>6 DEF LandsInv

-----------------------------------------------------------------------------
LEMMA SetEepromLands ==
  ASSUME LandsInv, NEW p \in Ports, NEW r \in Requests, SetEeprom(p, r)
  PROVE  LandsInv'
<1> DEFINE n == Count(r)
           e == Edges(r)
           f == FirstWord(r)
           m == chip.mem
           s == [k \in 1..n |-> 0]
           x == ~Crosses(r)
           o == Idle
           d == [o EXCEPT !.pc = "edges", !.what = "data", !.req = r, !.edges = e,
                  !.at = f, !.words = s, !.was = m, !.clean = x]
<1>1. call[p].pc = "idle" /\ chip' = chip /\ call' = [call EXCEPT ![p] = d] /\ m \in Contents
  BY ChipIs DEF SetEeprom, At, LandsInv, NvmTypeOK
<1>2. /\ n \in Nat \ {0} /\ f \in Nat /\ r \in Nat \X Nat
      /\ e \in Seq(Nat) /\ \A j \in DOMAIN e : e[j] \in 1..n
      /\ \A k \in 1..n : Edge(r, k) => \E j \in DOMAIN e : e[j] = k
  BY Requested, EdgesAre
<1>3. s \in Seq(Words) /\ Len(s) = n
  <2>1. 0 \in Words
    BY WordsGiven
  <2> HIDE DEF n
  <2> QED BY <1>2, <2>1
<1>4. x \in BOOLEAN /\ o \in Calls /\ o.widx = 0 /\ o.i = 0 /\ o.sum = 0 /\ o.ok
  BY IdleCall DEF Idle
<1> HIDE DEF n, e, f, m, s, x, o
<1>5. d \in Calls /\ d.pc = "edges" /\ d.what = "data" /\ d.req = r /\ d.edges = e /\ d.at = f
      /\ d.words = s /\ d.was = m /\ (d.clean <=> x) /\ d.widx = 0 /\ d.i = 0 /\ d.sum = 0 /\ d.ok
  BY <1>1, <1>2, <1>3, <1>4 DEF Calls
<1> HIDE DEF d
<1>6. d.clean => Asked(d)
  BY <1>1, <1>3, <1>5 DEF Asked, x, f, n
<1>7. EdgesRead(d, m)
  BY <1>2, <1>3, <1>5 DEF EdgesRead
<1>9. Placed(d)
  BY <1>2, <1>3, <1>5 DEF Placed, f, n
<1>8. CallInv(d, m, Effective(chip))
  BY <1>5, <1>6, <1>7, <1>9 DEF CallInv, DataInv
<1> QED BY <1>1, <1>5, <1>8, CallGoes DEF m

LEMMA ReadEdgeLands ==
  ASSUME LandsInv, NEW p \in Ports, ReadEdge(p)
  PROVE  LandsInv'
<1> DEFINE c == call[p]
           m == chip.mem
           eff == Effective(chip)
<1>1. c \in Calls /\ c.pc = "edges" /\ chip' = chip /\ m \in Contents /\ CallInv(c, m, eff)
      /\ c.edges # <<>>
  BY ChipIs DEF ReadEdge, At, LandsInv, NvmTypeOK, CallsInv
<1>2. c.what = "data" /\ c.widx = 0 /\ c.i = 0 /\ Placed(c)
  BY <1>1 DEF CallInv
<1>3. CASE call' = [call EXCEPT ![p].edges = Tail(@),
                      ![p].words[Head(c.edges)] = chip.mem[c.at + Head(c.edges) - 1]]
  <2> DEFINE e == Tail(c.edges)
             h == Head(c.edges)
             w == [c.words EXCEPT ![h] = m[c.at + h - 1]]
             d == [[c EXCEPT !.edges = e] EXCEPT !.words = w]
  <2>1. call' = [call EXCEPT ![p] = d]
    <3>1. [c EXCEPT !.edges = e].words = c.words
      BY <1>1 DEF Calls
    <3> QED BY <1>3, <3>1 DEF LandsInv, NvmTypeOK
  <2>2. /\ e \in Seq(Nat) /\ Len(c.edges) \in Nat \ {0} /\ h = c.edges[1]
        /\ DOMAIN c.edges = 1..Len(c.edges) /\ DOMAIN e = 1..(Len(c.edges) - 1)
        /\ \A j \in DOMAIN e : e[j] = c.edges[j + 1]
    <3>1. c.edges \in Seq(Nat)
      BY <1>1, CallIs
    <3> DEFINE s == c.edges
    <3> HIDE DEF s
    <3>2. s \in Seq(Nat) /\ s # <<>>
      BY <1>1, <3>1 DEF s
    <3>3. /\ Tail(s) \in Seq(Nat) /\ Len(s) \in Nat \ {0} /\ Head(s) = s[1]
          /\ DOMAIN s = 1..Len(s) /\ Len(Tail(s)) = Len(s) - 1
          /\ \A j \in 1..Len(Tail(s)) : Tail(s)[j] = s[j + 1]
      BY <3>2, HeadTailProperties
    <3> QED BY <3>3 DEF s
  <2>3. h \in 1..Len(c.words) /\ m[c.at + h - 1] \in Words
    <3>1. h \in 1..Len(c.words)
      BY <1>2, <2>2 DEF Placed
    <3>2. c.at + h - 1 \in Addresses
      <4>1. c.at \in Nat /\ Len(c.words) \in Nat /\ c.at + Len(c.words) - 1 < WordSize
        BY <1>2, Requested DEF Placed
      <4> HIDE DEF h
      <4> QED BY <3>1, <4>1, NvmAssumption DEF Addresses
    <3> QED BY <1>1, <3>1, <3>2 DEF Contents
  <2>4. /\ w \in Seq(Words) /\ Len(w) = Len(c.words) /\ w[h] = m[c.at + h - 1]
        /\ \A k \in 1..Len(c.words) : k # h => w[k] = c.words[k]
    <3>1. c.words \in Seq(Words)
      BY <1>1, CallIs
    <3> HIDE DEF h
    <3> QED BY <2>3, <3>1
  <2> HIDE DEF e, h, w
  <2>5. d \in Calls /\ d.edges = e /\ d.words = w /\ d.pc = c.pc /\ d.what = c.what /\ d.req = c.req
        /\ d.at = c.at /\ d.was = c.was /\ (d.clean <=> c.clean) /\ d.widx = c.widx /\ d.i = c.i
        /\ d.sum = c.sum /\ (d.ok <=> c.ok)
    BY <1>1, <2>2, <2>4 DEF Calls
  <2> HIDE DEF d
  <2>6. Placed(d)
    <3>1. \A j \in DOMAIN e : e[j] \in 1..Len(c.words)
      <4> SUFFICES ASSUME NEW j \in DOMAIN e PROVE e[j] \in 1..Len(c.words)
        OBVIOUS
      <4>1. j + 1 \in DOMAIN c.edges
        BY <2>2
      <4> QED BY <1>2, <2>2, <4>1 DEF Placed
    <3> QED BY <1>2, <2>4, <2>5, <3>1 DEF Placed
  <2>7. EdgesRead(c, m) => EdgesRead(d, m)
    <3> SUFFICES ASSUME EdgesRead(c, m), NEW k \in 1..Len(c.words), Edge(c.req, k)
                 PROVE  w[k] = m[c.at + k - 1] \/ \E j \in DOMAIN e : e[j] = k
      BY <2>4, <2>5 DEF EdgesRead
    <3>1. CASE k = h
      BY <2>4, <3>1
    <3>2. CASE k # h /\ c.words[k] = m[c.at + k - 1]
      BY <2>4, <3>2
    <3>3. ASSUME k # h, NEW j \in DOMAIN c.edges, c.edges[j] = k
          PROVE  \E l \in DOMAIN e : e[l] = k
      <4>1. j # 1
        BY <2>2, <3>3 DEF h
      <4>2. j - 1 \in DOMAIN e /\ (j - 1) + 1 = j
        BY <2>2, <3>3, <4>1
      <4>3. e[j - 1] = k
        BY <2>2, <3>3, <4>2
      <4> QED BY <4>2, <4>3
    <3> QED BY <3>1, <3>2, <3>3 DEF EdgesRead
  <2>8. Asked(c) => Asked(d)
    BY <2>4, <2>5 DEF Asked
  <2>9. CallInv(d, m, eff)
    <3> HIDE DEF c, m, eff
    <3> QED BY <1>1, <1>2, <2>5, <2>6, <2>7, <2>8 DEF CallInv, DataInv
  <2> QED BY <1>1, <2>1, <2>5, <2>9, CallGoes
<1>4. ASSUME NEW word \in Garbage,
             call' = [call EXCEPT ![p] = [Disturbed(c) EXCEPT !.edges = <<>>,
               !.words = [k \in DOMAIN @ |-> IF k \in ToSet(c.edges) THEN word ELSE @[k]]]]
      PROVE  LandsInv'
  <2> DEFINE o == Disturbed(c)
             w == [k \in DOMAIN o.words |-> IF k \in ToSet(c.edges) THEN word ELSE o.words[k]]
             d == [[o EXCEPT !.edges = <<>>] EXCEPT !.words = w]
  <2>1. o \in Calls /\ o.pc = "edges" /\ ~o.clean /\ o.what = "data" /\ o.widx = 0
        /\ o.words = c.words /\ o.i = 0 /\ o.req = c.req /\ o.at = c.at
    BY <1>1, <1>2, DisturbedCall
  <2>2. call' = [call EXCEPT ![p] = d]
    <3>1. [o EXCEPT !.edges = <<>>].words = o.words
      BY <2>1 DEF Calls
    <3> QED BY <1>4, <3>1
  <2>3. w \in Seq(Words) /\ Len(w) = Len(c.words)
    <3>1. c.words \in Seq(Words) /\ word \in Words
      BY <1>1, CallIs, NvmAssumption
    <3> DEFINE s == c.words
               R == ToSet(c.edges)
               v == [k \in DOMAIN s |-> IF k \in R THEN word ELSE s[k]]
    <3>2. w = v
      BY <2>1
    <3> HIDE DEF w, s, R
    <3>3. s \in Seq(Words)
      BY <3>1 DEF s
    <3>4. v \in Seq(Words) /\ Len(v) = Len(s)
      BY <3>1, <3>3
    <3> QED BY <3>2, <3>4 DEF s
  <2> HIDE DEF o, w
  <2>4. d \in Calls /\ d.edges = <<>> /\ d.words = w /\ d.pc = "edges" /\ ~d.clean /\ d.what = "data"
        /\ d.widx = 0 /\ d.i = 0 /\ d.req = c.req /\ d.at = c.at
    <3>1. <<>> \in Seq(Nat)
      OBVIOUS
    <3> QED BY <2>1, <2>3, <3>1 DEF Calls
  <2> HIDE DEF d
  <2>5. Placed(d)
    BY <1>2, <2>3, <2>4 DEF Placed
  <2>6. CallInv(d, m, eff)
    BY <2>4, <2>5 DEF CallInv
  <2> QED BY <1>1, <2>2, <2>4, <2>6, CallGoes
<1> QED BY <1>3, <1>4 DEF ReadEdge

-----------------------------------------------------------------------------
(* What memcpy() leaves is a word, whatever has been read. *)
LEMMA MergeTyped ==
  ASSUME NEW r, NEW k, NEW word \in Words
  PROVE  Merge(r, k, word) \in Words
<1> DEFINE in0 == Within(r, 2 * (FirstWord(r) + k - 1))
           in1 == Within(r, 2 * (FirstWord(r) + k - 1) + 1)
           l == IF in0 THEN Radix - 1 ELSE word % Radix
           h == IF in1 THEN Radix - 1 ELSE word \div Radix
<1>1. Merge(r, k, word) = h * Radix + l
  BY DEF Merge, Within
<1>2. Radix - 1 \in 0..(Radix - 1) /\ word % Radix \in 0..(Radix - 1) /\ word \div Radix \in 0..(Radix - 1)
  BY WordsGiven, Bytes
<1> HIDE DEF in0, in1
<1>3. l \in 0..(Radix - 1) /\ h \in 0..(Radix - 1)
  BY <1>2
<1> HIDE DEF l, h
<1> QED BY <1>1, <1>3, Joined

LEMMA FillBufferLands ==
  ASSUME LandsInv, NEW p \in Ports, FillBuffer(p)
  PROVE  LandsInv'
<1> DEFINE c == call[p]
           m == chip.mem
           eff == Effective(chip)
           w == [k \in DOMAIN c.words |-> Merge(c.req, k, c.words[k])]
           d == [[c EXCEPT !.pc = "mark"] EXCEPT !.words = w]
<1>1. c \in Calls /\ c.pc = "edges" /\ chip' = chip /\ m \in Contents /\ CallInv(c, m, eff)
      /\ c.edges = <<>>
  BY ChipIs DEF FillBuffer, At, LandsInv, NvmTypeOK, CallsInv
<1>2. call' = [call EXCEPT ![p] = d]
  <2>1. [c EXCEPT !.pc = "mark"].words = c.words
    BY <1>1 DEF Calls
  <2> QED BY <1>1, <2>1 DEF FillBuffer, LandsInv, NvmTypeOK
<1>3. c.what = "data" /\ c.widx = 0 /\ c.i = 0 /\ Placed(c)
  BY <1>1 DEF CallInv
<1>4. w \in Seq(Words) /\ Len(w) = Len(c.words)
      /\ \A k \in 1..Len(c.words) : w[k] = Merge(c.req, k, c.words[k]) /\ c.words[k] \in Words
  <2>1. c.words \in Seq(Words)
    BY <1>1, CallIs
  <2>2. \A k \in 1..Len(c.words) : c.words[k] \in Words
    BY <2>1
  <2>3. \A k \in 1..Len(c.words) : Merge(c.req, k, c.words[k]) \in Words
    BY <2>2, MergeTyped
  <2> QED BY <2>1, <2>2, <2>3
<1> HIDE DEF w
<1>5. d \in Calls /\ d.words = w /\ d.pc = "mark" /\ d.what = c.what /\ d.req = c.req
      /\ d.at = c.at /\ d.was = c.was /\ (d.clean <=> c.clean) /\ d.widx = c.widx /\ d.i = c.i
      /\ d.sum = c.sum /\ (d.ok <=> c.ok)
  BY <1>1, <1>4 DEF Calls
<1> HIDE DEF d
<1>6. ASSUME Asked(c), c.was = m, EdgesRead(c, m) PROVE Asked(d) /\ RightWords(d.req, d.was, d.words)
  <2>1. Asked(d)
    BY <1>4, <1>5, <1>6 DEF Asked
  <2>2. ASSUME NEW k \in 1..Len(w) PROVE Right(c.req, m, FirstWord(c.req) + k - 1, w[k])
    <3>1. k \in 1..Count(c.req) /\ c.req \in Requests /\ c.words[k] \in Words
      BY <1>3, <1>4, <2>2 DEF Placed
    <3>2. Edge(c.req, k) => c.words[k] = m[FirstWord(c.req) + k - 1]
      BY <1>1, <1>3, <1>4, <1>6, <2>2 DEF EdgesRead, Placed
    <3>3. Right(c.req, m, FirstWord(c.req) + k - 1, Merge(c.req, k, c.words[k]))
      BY <1>1, <3>1, <3>2, MergeRight
    <3> QED BY <1>4, <2>2, <3>3
  <2> QED BY <1>5, <1>6, <2>1, <2>2 DEF RightWords
<1>7. CallInv(d, m, eff)
  <2> HIDE DEF c, m, eff
  <2> QED BY <1>1, <1>3, <1>5, <1>6 DEF CallInv, DataInv
<1> QED BY <1>1, <1>2, <1>5, <1>7, CallGoes

-----------------------------------------------------------------------------
LEMMA GetSmbiLands ==
  ASSUME LandsInv, NEW p \in Ports, GetSmbi(p)
  PROVE  LandsInv'
<1>1. chip' = chip /\ (UNCHANGED call \/ GivesUp(p))
  BY DEF GetSmbi
<1> QED BY <1>1, GivesUpLands, NobodyLands

LEMMA GetSwesmbiLands ==
  ASSUME LandsInv, NEW p \in Ports, GetSwesmbi(p)
  PROVE  LandsInv'
<1>1. chip' = chip /\ (UNCHANGED call \/ GivesUp(p))
  BY DEF GetSwesmbi
<1> QED BY <1>1, GivesUpLands, NobodyLands

(* The call c goes on to the place pc, and is otherwise as it was. *)
MovesTo(c, d, pc) ==
  /\ d.pc = pc /\ d.what = c.what /\ d.req = c.req /\ d.edges = c.edges /\ d.at = c.at
  /\ d.words = c.words /\ d.widx = c.widx /\ d.i = c.i /\ d.sum = c.sum /\ (d.ok <=> c.ok)
  /\ d.was = c.was /\ (d.clean <=> c.clean)

LEMMA PcIs ==
  ASSUME NEW c \in Calls, NEW pc \in {"grant", "write", "sum", "unmark"}
  PROVE  [c EXCEPT !.pc = pc] \in Calls /\ MovesTo(c, [c EXCEPT !.pc = pc], pc)
BY DEF MovesTo, Calls

LEMMA PcLands ==
  ASSUME LandsInv, NEW p \in Ports, NEW pc \in {"grant", "write", "sum"}, Goes(p, pc), chip' = chip,
         call[p].pc # "write",
         \A d \in Calls : MovesTo(call[p], d, pc) => CallInv(d, chip.mem, Effective(chip))
  PROVE  LandsInv'
<1> DEFINE d == [call[p] EXCEPT !.pc = pc]
<1>1. call \in [Ports -> Calls] /\ call[p] \in Calls
  BY DEF LandsInv, NvmTypeOK
<1>2. d \in Calls /\ MovesTo(call[p], d, pc)
  BY <1>1, PcIs
<1>3. call' = [call EXCEPT ![p] = d]
  BY <1>1 DEF Goes
<1> HIDE DEF d
<1>4. CallInv(d, chip.mem, Effective(chip))
  BY <1>2
<1> QED BY <1>2, <1>3, <1>4, CallGoes

LEMMA MarkLands ==
  ASSUME LandsInv, NEW p \in Ports, Mark(p)
  PROVE  LandsInv'
<1> DEFINE c == call[p]
           m == chip.mem
           eff == Effective(chip)
<1>1. c.pc = "mark" /\ chip' = chip /\ CallInv(c, m, eff)
  BY DEF Mark, At, LandsInv, CallsInv
<1>2. ASSUME NEW d \in Calls, MovesTo(c, d, "grant") PROVE CallInv(d, m, eff)
  <2> HIDE DEF c, m, eff
  <2> QED BY <1>1, <1>2 DEF CallInv, DataInv, ChecksumInv, MovesTo, Asked
<1>3. CASE Goes(p, "grant")
  BY <1>1, <1>2, <1>3, PcLands
<1>4. CASE UNCHANGED call \/ GivesUp(p)
  BY <1>1, <1>4, GivesUpLands, NobodyLands
<1> QED BY <1>3, <1>4 DEF Mark

(* The end of a call, which may go on with the checksum. *)
LEMMA UnmarkLands ==
  ASSUME LandsInv, NEW p \in Ports, Unmark(p)
  PROVE  LandsInv'
<1> DEFINE c == call[p]
           m == chip.mem
           eff == Effective(chip)
<1>1. c \in Calls /\ c.pc = "unmark" /\ chip' = chip /\ CallInv(c, m, eff) /\ m \in Contents
  BY ChipIs DEF Unmark, At, LandsInv, CallsInv, NvmTypeOK
<1>2. c.what \in {"data", "checksum"} /\ (c.what = "data" => c.i = 0)
  BY <1>1 DEF CallInv
<1>3. CASE c.what = "data" /\ c.ok /\ FirstWord(c.req) <= ChecksumReg
  <2>1. Goes(p, "sum")
    BY <1>3 DEF Unmark
  <2>2. SumTo(m, 0) = 0 /\ 0 <= ChecksumReg
    BY <1>1, SumToIs, NvmAssumption DEF Addresses
  <2>3. ASSUME NEW d \in Calls, MovesTo(c, d, "sum") PROVE CallInv(d, m, eff)
    <3> HIDE DEF c, m, eff
    <3> QED BY <1>1, <1>2, <1>3, <2>2, <2>3 DEF CallInv, DataInv, MovesTo, LastToAdd
  <2> QED BY <1>1, <2>1, <2>3, PcLands
<1>4. CASE ~(c.what = "data" /\ c.ok /\ FirstWord(c.req) <= ChecksumReg)
  <2> DEFINE e == Ended(c)
  <2>1. call' = [call EXCEPT ![p] = e]
    BY <1>4 DEF Unmark
  <2>2. /\ e \in Calls /\ e.pc = "idle" /\ e.ok /\ e.clean
        /\ c.ok /\ c.clean => e.what = c.what /\ e.req = c.req /\ e.was = c.was /\ e.i = 0 /\ e.sum = 0
        /\ ~(c.ok /\ c.clean) => e = Idle
    BY <1>1, EndedCall
  <2> HIDE DEF e
  <2>3. CASE ~(c.ok /\ c.clean)
    BY <1>1, <2>1, <2>2, <2>3, IdleCall, CallGoes
  <2>4. CASE c.ok /\ c.clean
    <3>1. FirstWord(c.req) \in Nat /\ ChecksumReg \in Nat
      BY <1>1, CallIs, FirstWordIs, NvmAssumption DEF Addresses
    <3>2. c.what = "data" => FirstWord(c.req) > ChecksumReg
      BY <1>4, <2>4, <3>1
    <3>3. CallInv(e, m, eff)
      <4> HIDE DEF c, m, eff
      <4> QED BY <1>1, <1>2, <2>2, <2>4, <3>2 DEF CallInv, DataInv, ChecksumInv
    <3> QED BY <1>1, <2>1, <2>2, <3>3, CallGoes
  <2> QED BY <2>3, <2>4
<1> QED BY <1>3, <1>4

-----------------------------------------------------------------------------
LEMMA AcquireNvmLands ==
  ASSUME LandsInv, WriterGranted, NEW p \in Ports, AcquireNvm(p)
  PROVE  LandsInv'
<1> DEFINE c == call[p]
           m == chip.mem
           eff == Effective(chip)
<1>1. c \in Calls /\ c.pc = "grant" /\ chip' = chip /\ CallInv(c, m, eff) /\ m \in Contents /\ chip \in Chips
  BY ChipIs DEF AcquireNvm, At, LandsInv, CallsInv, NvmTypeOK
<1>2. c.what \in {"data", "checksum"} /\ (c.what = "data" => c.i = 0) /\ c.widx = 0
  BY <1>1 DEF CallInv
<1>3. CASE grant = {} /\ Goes(p, "write")
  <2>1. eff = m
    <3>1. \A q \in Ports : ~Pending(call[q])
      BY <1>3 DEF WriterGranted, Pending
    <3>2. chip.cmd = No
      BY <3>1 DEF LandsInv, ChipInv
    <3> QED BY <1>1, <3>2, EffectiveIs
  <2>2. ASSUME NEW d \in Calls, MovesTo(c, d, "write") PROVE CallInv(d, m, m)
    <3>1. Len(c.words) \in Nat
      BY <1>1, CallIs
    <3>2. Asked(c) => c.at \in Nat
      BY <1>1, CallIs
    <3> HIDE DEF c, m, eff
    <3>3. d.what = "data" /\ d.clean /\ d.ok => DataInv(d, m, m)
      <4> SUFFICES ASSUME d.what = "data", d.clean, d.ok PROVE DataInv(d, m, m)
        OBVIOUS
      <4>1. Asked(c) /\ c.was = m /\ RightWords(c.req, c.was, c.words) /\ c.sum = 0
        BY <1>1, <2>2 DEF CallInv, DataInv, MovesTo
      <4>2. Partly(c.at, c.words, 0, m, m)
        BY <3>2, <4>1, NvmAssumption DEF Partly, Addresses
      <4> QED BY <1>2, <2>2, <4>1, <4>2 DEF DataInv, MovesTo, Asked
    <3>4. d.what = "checksum" /\ d.clean => ChecksumInv(d, m, m)
      BY <1>1, <1>2, <2>2 DEF CallInv, ChecksumInv, MovesTo
    <3> QED BY <1>2, <2>2, <3>1, <3>3, <3>4 DEF CallInv, MovesTo
  <2> QED BY <1>1, <1>3, <2>1, <2>2, PcLands
<1>4. CASE call' = [call EXCEPT ![p] = [Fails(@) EXCEPT !.pc = "unmark"]]
  <2> DEFINE u == [Fails(c) EXCEPT !.pc = "unmark"]
  <2>1. call' = [call EXCEPT ![p] = u]
    BY <1>4
  <2>2. u \in Calls /\ CallInv(u, m, eff)
    BY <1>1, <1>2, FailsCall
  <2> HIDE DEF u
  <2> QED BY <1>1, <2>1, <2>2, CallGoes
<1> QED BY <1>3, <1>4 DEF AcquireNvm

-----------------------------------------------------------------------------
LEMMA CheckNvmLands ==
  ASSUME LandsInv, NEW p \in Ports, CheckNvm(p)
  PROVE  LandsInv'
<1> DEFINE o == Idle
           d == [o EXCEPT !.pc = "sum", !.what = "check"]
<1>1. call[p].pc = "idle" /\ chip' = chip /\ call' = [call EXCEPT ![p] = d]
  BY DEF CheckNvm, At
<1>2. o \in Calls /\ o.i = 0 /\ ChecksumReg \in Nat
  BY IdleCall, NvmAssumption DEF Idle, Addresses
<1> HIDE DEF o
<1>3. d \in Calls /\ d.pc = "sum" /\ d.what = "check" /\ d.i = 0
  BY <1>2 DEF Calls
<1> HIDE DEF d
<1>4. CallInv(d, chip.mem, Effective(chip))
  BY <1>2, <1>3 DEF CallInv, LastToAdd
<1> QED BY <1>1, <1>3, <1>4, CallGoes

LEMMA AddLands ==
  ASSUME LandsInv, NEW p \in Ports, Add(p)
  PROVE  LandsInv'
<1> DEFINE c == call[p]
           m == chip.mem
           eff == Effective(chip)
<1>1. c \in Calls /\ c.pc = "sum" /\ chip' = chip /\ CallInv(c, m, eff) /\ m \in Contents
      /\ call \in [Ports -> Calls] /\ c.i < LastToAdd(c)
  BY ChipIs DEF Add, At, LandsInv, CallsInv, NvmTypeOK
<1>2. c.i \in Nat /\ c.sum \in Words /\ c.what \in {"data", "check"} /\ c.i <= ChecksumReg
      /\ ChecksumReg \in 0..(WordSize - 1) /\ WordSize \in Nat
  BY <1>1, CallIs, NvmAssumption DEF CallInv, LastToAdd, Addresses
<1>3. CASE call' = [call EXCEPT ![p].i = @ + 1, ![p].sum = (@ + chip.mem[c.i]) % Mod]
  <2> DEFINE s == (c.sum + m[c.i]) % Mod
             n == c.i + 1
             d == [[c EXCEPT !.i = n] EXCEPT !.sum = s]
  <2>1. call' = [call EXCEPT ![p] = d]
    <3>1. [c EXCEPT !.i = n].sum = c.sum
      BY <1>1 DEF Calls
    <3> QED BY <1>1, <1>3, <3>1
  <2>2. s \in Words /\ n \in Nat
    <3>1. m[c.i] \in Words
      BY <1>1, <1>2 DEF Contents, Addresses
    <3> DEFINE x == c.sum + m[c.i]
    <3>2. x \in Nat
      BY <1>2, <3>1, WordsGiven
    <3> HIDE DEF x
    <3>3. x % Mod \in Words
      BY <3>2, WordsGiven, Divided
    <3> QED BY <1>2, <3>3 DEF x
  <2>3. c.sum = SumTo(m, c.i) => s = SumTo(m, n)
    <3>1. n \in 1..WordSize /\ n - 1 = c.i
      BY <1>2
    <3> HIDE DEF n
    <3>2. SumTo(m, n) = (SumTo(m, n - 1) + m[n - 1]) % Mod
      BY <1>1, <3>1, SumToIs
    <3> QED BY <3>1, <3>2
  <2>4. c.what = "data" => n <= ChecksumReg
    BY <1>1, <1>2 DEF LastToAdd
  <2>5. c.what = "check" => n <= ChecksumReg + 1
    BY <1>2
  <2> HIDE DEF s, n
  <2>6. d \in Calls /\ d.pc = "sum" /\ d.what = c.what /\ d.req = c.req /\ d.i = n /\ d.sum = s
        /\ (d.ok <=> c.ok) /\ d.was = c.was /\ (d.clean <=> c.clean)
    BY <1>1, <2>2 DEF Calls
  <2> HIDE DEF d
  <2>7. CallInv(d, m, eff)
    <3> HIDE DEF c, m, eff
    <3> QED BY <1>1, <1>2, <2>3, <2>4, <2>5, <2>6 DEF CallInv, DataInv, LastToAdd
  <2> QED BY <1>1, <2>1, <2>6, <2>7, CallGoes
<1>4. CASE call' = [call EXCEPT ![p] = Idle]
  BY <1>1, <1>4, IdleCall, CallGoes
<1> QED BY <1>3, <1>4 DEF Add

LEMMA AddedLands ==
  ASSUME LandsInv, NEW p \in Ports, Added(p)
  PROVE  LandsInv'
<1> DEFINE c == call[p]
           m == chip.mem
           eff == Effective(chip)
<1>1. c \in Calls /\ c.pc = "sum" /\ chip' = chip /\ CallInv(c, m, eff) /\ m \in Contents
      /\ c.i = LastToAdd(c)
  BY ChipIs DEF Added, At, LandsInv, CallsInv, NvmTypeOK
<1>2. c.what \in {"data", "check"} /\ (c.what = "data" => c.ok)
  BY <1>1 DEF CallInv
<1>3. CASE c.what = "check"
  <2> DEFINE o == c.sum = NvmSum
             b == [c EXCEPT !.ok = o]
             e == Ended(b)
  <2>1. call' = [call EXCEPT ![p] = e]
    BY <1>3 DEF Added
  <2>2. o \in BOOLEAN
    OBVIOUS
  <2> HIDE DEF o
  <2>3. b \in Calls /\ b.what = "check"
    BY <1>1, <1>3, <2>2 DEF Calls
  <2> HIDE DEF b
  <2>4. /\ e \in Calls /\ e.pc = "idle" /\ e.ok /\ e.clean
        /\ b.ok /\ b.clean => e.what = b.what
        /\ ~(b.ok /\ b.clean) => e = Idle
    BY <2>3, EndedCall
  <2> HIDE DEF e
  <2>5. CallInv(e, m, eff)
    BY <2>3, <2>4, IdleCall DEF CallInv
  <2> QED BY <1>1, <2>1, <2>4, <2>5, CallGoes
<1>4. CASE c.what = "data"
  <2> DEFINE w == <<(NvmSum + Mod - c.sum) % Mod>>
             a == ChecksumReg
             d == [c EXCEPT !.pc = "mark", !.what = "checksum", !.at = a, !.widx = 0, !.words = w]
  <2>1. call' = [call EXCEPT ![p] = d]
    BY <1>4 DEF Added
  <2>2. w \in Seq(Words) /\ a \in Nat
    <3> DEFINE x == NvmSum + Mod - c.sum
    <3>1. c.sum \in Words
      BY <1>1, CallIs
    <3>2. x \in Nat
      BY <3>1, WordsGiven
    <3> HIDE DEF x
    <3>3. x % Mod \in Words
      BY <3>2, WordsGiven, Divided
    <3>4. a \in Nat
      BY NvmAssumption DEF Addresses
    <3> QED BY <3>3, <3>4 DEF x
  <2>3. c.sum = SumTo(m, ChecksumReg) => w = <<Checksum(m)>>
    BY DEF Checksum
  <2>4. c.i = ChecksumReg
    BY <1>1, <1>4 DEF LastToAdd
  <2> HIDE DEF w
  <2>5. d \in Calls /\ d.pc = "mark" /\ d.what = "checksum" /\ d.at = a /\ d.widx = 0 /\ d.words = w
        /\ d.req = c.req /\ (d.ok <=> c.ok) /\ d.was = c.was /\ (d.clean <=> c.clean)
    BY <1>1, <2>2 DEF Calls
  <2> HIDE DEF d
  <2>6. d.clean => ChecksumInv(d, m, eff)
    <3> SUFFICES ASSUME d.clean PROVE ChecksumInv(d, m, eff)
      OBVIOUS
    <3> HIDE DEF c, m, eff
    <3>1. DataInv(c, m, eff)
      BY <1>1, <1>2, <1>4, <2>5 DEF CallInv
    <3>2. Landed(c.req, c.was, m) /\ c.was \in Contents /\ c.sum = SumTo(m, ChecksumReg)
      BY <1>1, <2>4, <3>1 DEF DataInv
    <3>3. LandedBut(c.req, c.was, m)
      BY <3>2 DEF Landed, LandedBut
    <3> QED BY <2>3, <2>5, <3>2, <3>3 DEF ChecksumInv
  <2>7. CallInv(d, m, eff)
    BY <2>5, <2>6 DEF CallInv
  <2> QED BY <1>1, <2>1, <2>5, <2>7, CallGoes
<1> QED BY <1>2, <1>3, <1>4

-----------------------------------------------------------------------------
LEMMA OneWord ==
  ASSUME NEW s \in Seq(Words), NEW e, Len(s) = 1, s[1] = e
  PROVE  s = <<e>>
<1>1. e \in Words
  OBVIOUS
<1> DEFINE t == <<e>>
<1>2. t \in Seq(Words) /\ Len(t) = 1 /\ t[1] = e
  BY <1>1
<1> HIDE DEF t
<1>3. \A i \in 1..Len(s) : s[i] = t[i]
  BY <1>2
<1>4. s = t
  BY <1>2, <1>3, SeqEqual
<1> QED BY <1>4 DEF t

(* What the chip holds when the command that was shifted out has been told *)
(* or is about to be.                                                      *)
LEMMA FullEffective ==
  ASSUME NEW f \in Chips, Writes(f)
  PROVE  /\ Effective(f) = Written(f)
         /\ LET s == StandbyNvm(f) IN
            s \in Chips /\ s.cmd = No /\ ~s.wel /\ Effective(s) = Written(f)
<1> DEFINE s == StandbyNvm(f)
<1>1. s \in Chips /\ s.cmd = No /\ ~s.wel /\ s.mem = Written(f)
  BY DeselectIs DEF StandbyNvm
<1> HIDE DEF s
<1>2. Effective(s) = Written(f)
  BY <1>1, EffectiveIs
<1> QED BY <1>1, <1>2, EffectiveIs DEF s

(* One page after another: the words up to widx are there, those of the    *)
(* page that follows are added.                                            *)
LEMMA PageLands ==
  ASSUME NEW f \in Chips, NEW at \in Nat, NEW words \in Seq(Words), NEW widx \in Nat, NEW n \in Nat,
         widx + n <= Len(words), NEW was, Partly(at, words, widx, was, f.mem),
         f.cmd.at = at + widx, f.cmd.words = SubSeq(words, widx + 1, widx + n),
         ((at + widx) % PageWords) + n <= PageWords
  PROVE  Partly(at, words, widx + n, was, Written(f))
<1> DEFINE ws == SubSeq(words, widx + 1, widx + n)
           x == at + widx
<1>1. Len(ws) = n /\ \A k \in 1..n : ws[k] = words[widx + k]
  <2>1. \A i \in (widx + 1)..(widx + n) : words[i] \in Words
    OBVIOUS
  <2>2. /\ Len(ws) = IF widx + 1 <= widx + n THEN (widx + n) - (widx + 1) + 1 ELSE 0
        /\ \A i \in 1..((widx + n) - (widx + 1) + 1) : ws[i] = words[(widx + 1) + i - 1]
    BY <2>1, SubSeqProperties
  <2> HIDE DEF ws
  <2>3. (widx + n) - (widx + 1) + 1 = n /\ \A i \in 1..n : (widx + 1) + i - 1 = widx + i
    OBVIOUS
  <2> QED BY <2>2, <2>3
<1>2. x \in Nat /\ (x % PageWords) + n <= PageWords /\ f.cmd.at = x /\ f.cmd.words = ws
  OBVIOUS
<1> HIDE DEF ws, x
<1>3. \A k \in 1..Len(f.cmd.words) : (f.cmd.at % PageWords) + k - 1 < PageWords
  <2>1. InPage(x) \in Nat /\ PageWords \in Nat
    BY <1>2, Paged, NvmAssumption
  <2>2. InPage(x) + n <= PageWords
    BY <1>2 DEF InPage
  <2>3. \A k \in 1..n : InPage(x) + k - 1 < PageWords
    BY <2>1, <2>2
  <2> QED BY <1>1, <1>2, <2>3 DEF InPage
<1>4. ASSUME NEW a \in Addresses
      PROVE  Written(f)[a] = IF at <= a /\ a < at + (widx + n) THEN words[a - at + 1] ELSE was[a]
  <2>0. a \in Nat
    BY NvmAssumption DEF Addresses
  <2>1. Written(f)[a] = IF x <= a /\ a < x + n THEN ws[a - x + 1] ELSE f.mem[a]
    BY <1>1, <1>2, <1>3, WrittenInPage
  <2>2. f.mem[a] = IF at <= a /\ a < at + widx THEN words[a - at + 1] ELSE was[a]
    BY DEF Partly
  <2>3. CASE x <= a /\ a < x + n
    <3>1. a - x + 1 \in 1..n /\ widx + (a - x + 1) = a - at + 1 /\ at <= a /\ a < at + (widx + n)
      BY <2>0, <2>3 DEF x
    <3>2. ws[a - x + 1] = words[widx + (a - x + 1)]
      BY <1>1, <3>1
    <3> QED BY <2>1, <2>3, <3>1, <3>2
  <2>4. CASE ~(x <= a /\ a < x + n)
    <3>1. (at <= a /\ a < at + (widx + n)) <=> (at <= a /\ a < at + widx)
      BY <2>0, <2>4 DEF x
    <3> QED BY <2>1, <2>2, <2>4, <3>1
  <2> QED BY <2>3, <2>4
<1> QED BY <1>4 DEF Partly

(* The word of the checksum lands, and does not change what it sums up. *)
LEMMA ChecksumLands ==
  ASSUME NEW f \in Chips, NEW r, NEW was, LandedBut(r, was, f.mem),
         f.cmd.at = ChecksumReg, f.cmd.words = <<Checksum(f.mem)>>
  PROVE  LET m == Written(f) IN
         LandedBut(r, was, m) /\ Checksum(m) = Checksum(f.mem) /\ m[ChecksumReg] = Checksum(f.mem)
<1> DEFINE m == Written(f)
           s == <<Checksum(f.mem)>>
<1>1. m \in Contents /\ f.mem \in Contents /\ ChecksumReg \in 0..(WordSize - 1) /\ WordSize \in Nat
      /\ ChecksumReg \in Addresses
  BY WrittenTyped, ChipIs, NvmAssumption DEF Addresses
<1>2. Len(s) = 1 /\ s[1] = Checksum(f.mem) /\ f.cmd.words = s
  OBVIOUS
<1> HIDE DEF s
<1>3. \A k \in 1..Len(f.cmd.words) : (f.cmd.at % PageWords) + k - 1 < PageWords
  <2>1. InPage(ChecksumReg) \in Nat /\ InPage(ChecksumReg) < PageWords
    BY <1>1, Paged
  <2>2. \A k \in 1..1 : InPage(ChecksumReg) + k - 1 < PageWords
    BY <2>1
  <2> QED BY <1>2, <2>2 DEF InPage
<1>4. ASSUME NEW a \in Addresses
      PROVE  m[a] = IF a = ChecksumReg THEN Checksum(f.mem) ELSE f.mem[a]
  <2>1. m[a] = IF ChecksumReg <= a /\ a < ChecksumReg + 1 THEN s[a - ChecksumReg + 1] ELSE f.mem[a]
    BY <1>2, <1>3, WrittenInPage
  <2> HIDE DEF m
  <2> QED BY <1>1, <1>2, <2>1 DEF Addresses
<1> HIDE DEF m
<1>5. LandedBut(r, was, m)
  BY <1>4 DEF LandedBut
<1>6. Checksum(m) = Checksum(f.mem)
  <2>1. \A a \in 0..(ChecksumReg - 1) : m[a] = f.mem[a]
    BY <1>1, <1>4 DEF Addresses
  <2>2. SumTo(m, ChecksumReg) = SumTo(f.mem, ChecksumReg)
    <3> DEFINE n == f.mem
    <3>1. n \in Contents /\ \A a \in 0..(ChecksumReg - 1) : m[a] = n[a]
      BY <1>1, <2>1
    <3>2. ChecksumReg \in 0..WordSize
      BY <1>1
    <3> HIDE DEF n
    <3>3. SumTo(m, ChecksumReg) = SumTo(n, ChecksumReg)
      BY <1>1, <3>1, <3>2, SumToAgrees
    <3> QED BY <3>3 DEF n
  <2> QED BY <2>2 DEF Checksum
<1> QED BY <1>1, <1>4, <1>5, <1>6 DEF m

LEMMA WritePageLands ==
  ASSUME LandsInv, WriterGranted, NEW p \in Ports, WritePage(p)
  PROVE  LandsInv'
<1> DEFINE c == call[p]
           m == chip.mem
           eff == Effective(chip)
           n == Turn(c)
           x == c.at + c.widx
           ws == SubSeq(c.words, c.widx + 1, c.widx + n)
           widx == c.widx + n
           f == Full(chip, Address(c.at, x), ws)
           d == [c EXCEPT !.widx = widx]
<1>1. c \in Calls /\ c.pc = "write" /\ CallInv(c, m, eff) /\ m \in Contents /\ chip \in Chips
      /\ c.widx < Len(c.words)
  BY ChipIs DEF WritePage, At, LandsInv, CallsInv, NvmTypeOK
<1>2. c.what \in {"data", "checksum"} /\ (c.what = "data" => c.i = 0)
  BY <1>1 DEF CallInv
<1>3. \A q \in Ports : call[q].pc = "write" => q = p
  BY <1>1 DEF WriterGranted
<1>4. CASE ~chip.busy /\ GoesAs(p, d) /\ chip' = IF (c.at + widx) % PageWords = 0 THEN StandbyNvm(f) ELSE f
  <2>1. chip.cmd = No /\ eff = m
    <3>1. \A q \in Ports : ~Pending(call[q])
      <4>1. ~Pending(c)
        BY <1>1 DEF Pending
      <4> QED BY <1>3, <4>1 DEF Pending
    <3>2. chip.cmd = No
      BY <3>1 DEF LandsInv, ChipInv
    <3> QED BY <1>1, <3>2, EffectiveIs
  <2>2. /\ c.words \in Seq(Words) /\ c.at \in Nat /\ c.widx \in Nat /\ Len(c.words) \in Nat
    BY <1>1, CallIs
  <2>3. /\ n \in 1..(Len(c.words) - c.widx) /\ (x % PageWords) + n <= PageWords
        /\ (c.at + widx) % PageWords = 0 \/ widx = Len(c.words)
    BY <1>1, <2>2, TurnIs
  <2> HIDE DEF n
  <2>4. n \in Nat /\ widx \in Nat /\ widx <= Len(c.words) /\ x \in Nat
    BY <2>2, <2>3
  <2>5. ws \in Seq(Words)
    <3>1. \A i \in (c.widx + 1)..(c.widx + n) : c.words[i] \in Words
      BY <2>2, <2>4
    <3> QED BY <2>2, <2>4, <3>1, SubSeqProperties
  <2>6. Address(c.at, x) \in Nat
    BY <2>2, <2>4, AddressIs
  <2>7. f \in Chips /\ f.mem = m /\ Writes(f) /\ f.cmd.at = Address(c.at, x) /\ f.cmd.words = ws
    <3> DEFINE a == Address(c.at, x)
               s == ws
               ch == chip
    <3>1. a \in Nat /\ s \in Seq(Words) /\ ch \in Chips /\ ch.cmd = No /\ ~ch.busy
      BY <1>1, <1>4, <2>1, <2>5, <2>6
    <3> HIDE DEF a, s, ch
    <3>2. LET g == Full(ch, a, s) IN
          g \in Chips /\ g.mem = ch.mem /\ Writes(g) /\ g.cmd.at = a /\ g.cmd.words = s
      BY <3>1, FullIs
    <3>3. f = Full(ch, a, s)
      BY DEF a, s, ch
    <3> HIDE DEF f
    <3> QED BY <3>2, <3>3 DEF a, s, ch
  <2>8. d \in Calls /\ d.widx = widx /\ d.pc = "write" /\ d.what = c.what /\ d.req = c.req /\ d.at = c.at
        /\ d.words = c.words /\ d.was = c.was /\ (d.clean <=> c.clean) /\ (d.ok <=> c.ok) /\ d.i = c.i
        /\ d.sum = c.sum
    <3> HIDE DEF widx
    <3> QED BY <1>1, <2>4 DEF Calls
  <2> HIDE DEF d, f
  <2>9. d.what = "data" /\ d.clean /\ d.ok => DataInv(d, chip'.mem, Written(f))
    <3> SUFFICES ASSUME d.what = "data", d.clean, d.ok PROVE DataInv(d, chip'.mem, Written(f))
      OBVIOUS
    <3>1. DataInv(c, m, eff)
      <4> HIDE DEF c, m, eff
      <4> QED BY <1>1, <2>8 DEF CallInv
    <3>2. Asked(c) /\ RightWords(c.req, c.was, c.words) /\ Partly(c.at, c.words, c.widx, c.was, m) /\ c.sum = 0
      <4> HIDE DEF c, m, eff
      <4> QED BY <1>1, <2>1, <3>1 DEF DataInv
    <3>3. Address(c.at, x) = x
      <4>1. /\ c.req \in Requests /\ ~Crosses(c.req) /\ c.at = FirstWord(c.req)
            /\ Len(c.words) = Count(c.req)
        BY <3>2 DEF Asked
      <4>2. x <= LastWord(c.req) /\ x >= c.at /\ LastWord(c.req) < WordSize /\ LastWord(c.req) \in Nat
        <5> DEFINE r == c.req
        <5>1. r \in Requests /\ c.at = FirstWord(r) /\ Len(c.words) = Count(r)
          BY <4>1
        <5> HIDE DEF r, c
        <5>2. LastWord(r) < WordSize /\ LastWord(r) = FirstWord(r) + Count(r) - 1 /\ LastWord(r) \in Nat
          BY <5>1, Requested
        <5>3. c.at + c.widx <= LastWord(r) /\ c.at + c.widx >= c.at
          BY <1>1, <2>2, <5>1, <5>2
        <5> QED BY <5>2, <5>3 DEF r
      <4>3. AddressWords \in Nat /\ WordSize <= 2 * AddressWords /\ WordSize \in Nat
        BY NvmAssumption
      <4>4. c.at < AddressWords => LastWord(c.req) < AddressWords
        BY <4>1, <4>2, <4>3 DEF Crosses
      <4>5. \/ c.at < AddressWords /\ x < AddressWords
            \/ c.at >= AddressWords /\ x >= AddressWords /\ x < 2 * AddressWords
        <5> HIDE DEF x
        <5> QED BY <2>2, <2>4, <4>2, <4>3, <4>4
      <4> QED BY <2>2, <2>4, <4>5, AddressIs
    <3>4. Partly(c.at, c.words, c.widx + n, c.was, Written(f))
      <4>1. f.cmd.at = c.at + c.widx /\ f.cmd.words = SubSeq(c.words, c.widx + 1, c.widx + n)
        BY <2>7, <3>3
      <4>2. ((c.at + c.widx) % PageWords) + n <= PageWords /\ c.widx + n <= Len(c.words)
        BY <2>3, <2>4
      <4>3. Partly(c.at, c.words, c.widx, c.was, f.mem)
        BY <2>7, <3>2
      <4> QED BY <2>2, <2>4, <2>7, <4>1, <4>2, <4>3, PageLands
    <3> HIDE DEF c
    <3> QED BY <2>8, <3>2, <3>4 DEF DataInv, Asked
  <2>10. d.what = "checksum" /\ d.clean => ChecksumInv(d, chip'.mem, Written(f))
    <3> SUFFICES ASSUME d.what = "checksum", d.clean PROVE ChecksumInv(d, chip'.mem, Written(f))
      OBVIOUS
    <3>1. ChecksumInv(c, m, eff)
      <4> HIDE DEF c, m, eff
      <4> QED BY <1>1, <2>8 DEF CallInv
    <3>2. c.was \in Contents /\ c.at = ChecksumReg /\ LandedBut(c.req, c.was, m) /\ c.words = <<Checksum(m)>>
      <4> HIDE DEF c, m, eff
      <4> QED BY <1>1, <2>1, <3>1 DEF ChecksumInv
    <3>3. c.widx = 0 /\ n = 1 /\ x = ChecksumReg
      <4>1. Len(c.words) = 1
        BY <3>2
      <4> QED BY <1>1, <2>2, <2>3, <3>2, <4>1
    <3>4. ws = <<Checksum(m)>>
      <4>1. \A i \in 1..1 : c.words[i] \in Words
        BY <2>2, <3>2
      <4>2. Len(ws) = 1 /\ ws[1] = c.words[1]
        BY <3>3, <4>1, SubSeqProperties
      <4> DEFINE s == ws
                 e == Checksum(m)
      <4>3. s \in Seq(Words) /\ Len(s) = 1 /\ s[1] = e
        <5>1. c.words[1] = Checksum(m)
          BY <3>2
        <5> QED BY <2>5, <4>2, <5>1
      <4> HIDE DEF s, e
      <4>4. s = <<e>>
        BY <4>3, OneWord
      <4> QED BY <4>4 DEF s, e
    <3>5. Address(c.at, x) = ChecksumReg
      <4>1. ChecksumReg \in Nat /\ ChecksumReg < 2 * AddressWords /\ AddressWords \in Nat
        BY NvmAssumption DEF Addresses
      <4> QED BY <3>2, <3>3, <4>1, AddressIs
    <3>6. LET w == Written(f) IN
          LandedBut(c.req, c.was, w) /\ Checksum(w) = Checksum(m) /\ w[ChecksumReg] = Checksum(m)
      BY <2>7, <3>2, <3>4, <3>5, ChecksumLands
    <3> HIDE DEF c, m
    <3> QED BY <2>8, <3>2, <3>6 DEF ChecksumInv
  <2>11. CallInv(d, chip'.mem, Written(f))
    <3> HIDE DEF c, widx
    <3> QED BY <1>2, <2>4, <2>8, <2>9, <2>10 DEF CallInv
  <2>12. /\ Effective(f) = Written(f)
         /\ StandbyNvm(f) \in Chips /\ StandbyNvm(f).cmd = No /\ ~StandbyNvm(f).wel
         /\ Effective(StandbyNvm(f)) = Written(f)
    BY <2>7, FullEffective
  <2>13. CASE (c.at + widx) % PageWords = 0
    <3> DEFINE ch == StandbyNvm(f)
    <3>1. chip' = ch
      BY <1>4, <2>13
    <3>2. ch \in Chips /\ ch.cmd = No /\ ~ch.wel /\ CallInv(d, ch.mem, Effective(ch))
      BY <2>11, <2>12, <3>1
    <3>3. GoesAs(p, d)
      BY <1>4 DEF d
    <3> HIDE DEF ch, c
    <3> QED BY <1>3, <2>8, <3>1, <3>2, <3>3, ChipGoes
  <2>14. CASE ~((c.at + widx) % PageWords = 0)
    <3>1. chip' = f
      BY <1>4, <2>14 DEF f
    <3>2. Pending(d)
      BY <2>3, <2>8, <2>14 DEF Pending
    <3>3. CallInv(d, f.mem, Effective(f))
      BY <2>11, <2>12, <3>1
    <3>4. GoesAs(p, d)
      BY <1>4 DEF d
    <3> HIDE DEF c
    <3> QED BY <1>3, <2>7, <2>8, <3>1, <3>2, <3>3, <3>4, ChipGoes
  <2> QED BY <2>13, <2>14
<1>5. CASE chip.busy /\ call' = [call EXCEPT ![p] = [Fails(c) EXCEPT !.widx = Len(c.words)]] /\ chip' = chip
  <2> DEFINE w == [Fails(c) EXCEPT !.widx = Len(c.words)]
  <2>1. w \in Calls /\ CallInv(w, m, eff)
    BY <1>1, <1>2, FailsCall
  <2>2. call' = [call EXCEPT ![p] = w]
    BY <1>5
  <2> HIDE DEF w
  <2> QED BY <1>5, <2>1, <2>2, CallGoes
<1> QED BY <1>4, <1>5 DEF WritePage, Full

LEMMA ReleaseNvmLands ==
  ASSUME LandsInv, WriterGranted, NEW p \in Ports, ReleaseNvm(p)
  PROVE  LandsInv'
<1> DEFINE c == call[p]
           m == chip.mem
           eff == Effective(chip)
           ch == Deselect(chip)
           d == [c EXCEPT !.pc = "unmark"]
<1>1. c \in Calls /\ c.pc = "write" /\ CallInv(c, m, eff) /\ m \in Contents /\ chip \in Chips
      /\ c.widx = Len(c.words) /\ chip' = ch /\ GoesAs(p, d)
  BY ChipIs DEF ReleaseNvm, At, LandsInv, CallsInv, NvmTypeOK
<1>2. c.what \in {"data", "checksum"} /\ (c.what = "data" => c.i = 0)
  BY <1>1 DEF CallInv
<1>3. \A q \in Ports : call[q].pc = "write" => q = p
  BY <1>1 DEF WriterGranted
<1>4. ch \in Chips /\ ch.cmd = No /\ ~ch.wel /\ ch.mem = eff /\ Effective(ch) = eff /\ eff \in Contents
  <2>1. ch \in Chips /\ ch.cmd = No /\ ch.mem = eff
    BY <1>1, DeselectIs DEF Effective
  <2>2. ~ch.wel
    <3>1. CASE Writes(chip)
      BY <1>1, <3>1, DeselectIs
    <3>2. CASE chip.cmd = No /\ ~chip.wel
      <4>1. ~Writes(chip) /\ chip.cmd.op # "wren"
        BY <3>2, NoIsCommand DEF Writes
      <4> QED BY <1>1, <3>2, <4>1, DeselectIs
    <3> QED BY <3>1, <3>2 DEF LandsInv, ChipInv
  <2> HIDE DEF ch
  <2>3. Effective(ch) = ch.mem
    BY <2>1, EffectiveIs
  <2> QED BY <1>1, <2>1, <2>2, <2>3, EffectiveIs
<1> HIDE DEF ch
<1>5. d \in Calls /\ MovesTo(c, d, "unmark")
  BY <1>1, PcIs
<1>a. Len(c.words) \in Nat
  BY <1>1, CallIs
<1>6. d.what = "data" /\ d.clean /\ d.ok => DataInv(d, eff, eff)
  <2> SUFFICES ASSUME d.what = "data", d.clean, d.ok PROVE DataInv(d, eff, eff)
    OBVIOUS
  <2> HIDE DEF c, m, eff, d
  <2>1. DataInv(c, m, eff)
    BY <1>1, <1>5 DEF CallInv, MovesTo
  <2>2. /\ Asked(c) /\ RightWords(c.req, c.was, c.words) /\ c.sum = 0
        /\ Partly(c.at, c.words, c.widx, c.was, eff)
    BY <1>1, <2>1 DEF DataInv
  <2>3. Landed(c.req, c.was, eff)
    <3>1. c.req \in Requests /\ c.was \in Contents /\ c.at = FirstWord(c.req) /\ c.widx = Count(c.req)
          /\ Len(c.words) = Count(c.req)
      BY <1>1, <2>2 DEF Asked
    <3> QED BY <2>2, <3>1, AllLanded
  <2> QED BY <1>5, <2>2, <2>3 DEF DataInv, MovesTo, Asked
<1>7. d.what = "checksum" /\ d.clean => ChecksumInv(d, eff, eff)
  <2> SUFFICES ASSUME d.what = "checksum", d.clean PROVE ChecksumInv(d, eff, eff)
    OBVIOUS
  <2> HIDE DEF c, m, eff, d
  <2>1. ChecksumInv(c, m, eff)
    BY <1>1, <1>5 DEF CallInv, MovesTo
  <2>2. /\ LandedBut(c.req, c.was, eff) /\ c.words = <<Checksum(eff)>> /\ c.was \in Contents
        /\ c.at = ChecksumReg /\ (c.widx = 1 => eff[ChecksumReg] = Checksum(eff))
    BY <1>1, <2>1 DEF ChecksumInv
  <2>3. Valid(eff)
    <3>1. c.widx = 1
      BY <1>1, <2>2
    <3> QED BY <1>4, <2>2, <3>1, ChecksumMakesValid
  <2> QED BY <1>5, <2>2, <2>3 DEF ChecksumInv, MovesTo
<1>8. CallInv(d, ch.mem, Effective(ch))
  <2> HIDE DEF c, m, eff, d
  <2> QED BY <1>2, <1>4, <1>5, <1>6, <1>7 DEF CallInv, MovesTo
<1> HIDE DEF c, d
<1>9. GoesAs(p, d)
  BY <1>1
<1> QED BY <1>1, <1>3, <1>4, <1>5, <1>8, <1>9, ChipGoes

-----------------------------------------------------------------------------
LEMMA LandsInitial == NvmInit => LandsInv
<1> SUFFICES ASSUME NvmInit PROVE LandsInv
  OBVIOUS
<1> DEFINE m == [a \in Addresses |-> IF a = ChecksumReg THEN NvmSum ELSE 0]
<1>1. chip = [mem |-> m, cmd |-> No, wel |-> FALSE, busy |-> FALSE] /\ call = [p \in Ports |-> Idle]
  BY DEF NvmInit
<1>2. m \in Contents
  BY WordsGiven DEF Contents
<1> HIDE DEF m
<1>3. chip \in Chips /\ chip.cmd = No /\ ~chip.wel
  BY <1>1, <1>2, NoIsCommand DEF Chips
<1>4. NvmTypeOK /\ ChipInv /\ CallsInv
  BY <1>1, <1>3, IdleCall DEF NvmTypeOK, ChipInv, CallsInv
<1> QED BY <1>4 DEF LandsInv

LEMMA LandsStep == LandsInv /\ WriterGranted /\ [NvmNext]_nvmVars => LandsInv'
<1> SUFFICES ASSUME LandsInv, WriterGranted, [NvmNext]_nvmVars PROVE LandsInv'
  OBVIOUS
<1>1. CASE UNCHANGED nvmVars
  BY <1>1, NobodyLands DEF nvmVars
<1>2. CASE FirmwareMarks
  BY <1>2, NobodyLands DEF FirmwareMarks
<1>3. CASE NvmNext /\ ~FirmwareMarks
  BY <1>3, ChipIsReadyLands, SetEepromLands, ReadEdgeLands, FillBufferLands, GetSmbiLands,
     GetSwesmbiLands, MarkLands, UnmarkLands, AcquireNvmLands, WritePageLands, ReleaseNvmLands,
     CheckNvmLands, AddLands, AddedLands
  DEF NvmNext
<1> QED BY <1>1, <1>2, <1>3

(* What is right at an address is right for the bytes of it. *)
ByteIs(r, was, mem, b) ==
  Byte(mem, b) = IF r[1] <= b /\ b < r[1] + r[2] THEN Radix - 1 ELSE Byte(was, b)

LEMMA BytesRight ==
  ASSUME NEW r, NEW was, NEW mem, NEW b \in 0..(2 * WordSize - 1),
         b \div 2 \in Addresses => Right(r, was, b \div 2, mem[b \div 2])
  PROVE  ByteIs(r, was, mem, b)
<1> DEFINE a == b \div 2
<1>1. a \in Addresses
  BY NvmAssumption DEF Addresses
<1>2. b \in Nat /\ a \in Nat /\ (b % 2 = 0 => b = 2 * a) /\ (b % 2 # 0 => b = 2 * a + 1)
  BY NvmAssumption
<1>3. Right(r, was, a, mem[a])
  BY <1>1
<1>4. /\ Byte(mem, b) = IF b % 2 = 0 THEN mem[a] % Radix ELSE mem[a] \div Radix
      /\ Byte(was, b) = IF b % 2 = 0 THEN was[a] % Radix ELSE was[a] \div Radix
  BY DEF Byte
<1> HIDE DEF a
<1>5. CASE b % 2 = 0
  BY <1>2, <1>3, <1>4, <1>5 DEF Right, Within, ByteIs
<1>6. CASE b % 2 # 0
  BY <1>2, <1>3, <1>4, <1>6 DEF Right, Within, ByteIs
<1> QED BY <1>5, <1>6

LEMMA InvImpliesLands == LandsInv => WriteLands
<1> SUFFICES ASSUME LandsInv, NEW p \in Ports, call[p].pc = "idle",
                    call[p].what \in {"data", "checksum"}
             PROVE  /\ FirstWord(call[p].req) <= ChecksumReg => Valid(chip.mem)
                    /\ \A b \in 0..(2 * WordSize - 1) :
                         b \div 2 = ChecksumReg
                           \/ Byte(chip.mem, b) =
                                IF call[p].req[1] <= b /\ b < call[p].req[1] + call[p].req[2]
                                THEN Radix - 1 ELSE Byte(call[p].was, b)
  BY DEF WriteLands
<1> DEFINE c == call[p]
           m == chip.mem
           eff == Effective(chip)
<1>1. c \in Calls /\ CallInv(c, m, eff) /\ ChecksumReg \in Nat
  BY NvmAssumption DEF LandsInv, NvmTypeOK, CallsInv, Addresses
<1>2. FirstWord(c.req) \in Nat
  BY <1>1, CallIs, FirstWordIs
<1>3. CASE c.what = "data"
  <2>1. FirstWord(c.req) > ChecksumReg /\ Landed(c.req, c.was, m)
    <3> HIDE DEF c, m, eff
    <3>1. c.pc = "idle"
      BY DEF c
    <3> QED BY <1>1, <1>3, <3>1 DEF CallInv, DataInv
  <2>2. \A a \in Addresses : Right(c.req, c.was, a, m[a])
    BY <2>1 DEF Landed
  <2>3. ASSUME NEW b \in 0..(2 * WordSize - 1)
        PROVE  ByteIs(c.req, c.was, m, b)
    <3>1. b \div 2 \in Addresses => Right(c.req, c.was, b \div 2, m[b \div 2])
      BY <2>2
    <3> HIDE DEF c, m
    <3> QED BY <3>1, BytesRight
  <2> QED BY <1>1, <1>2, <2>1, <2>3 DEF ByteIs
<1>4. CASE c.what = "checksum"
  <2>1. Valid(m) /\ LandedBut(c.req, c.was, m)
    <3> HIDE DEF c, m, eff
    <3>1. c.pc = "idle"
      BY DEF c
    <3> QED BY <1>1, <1>4, <3>1 DEF CallInv, ChecksumInv
  <2>2. ASSUME NEW b \in 0..(2 * WordSize - 1), b \div 2 # ChecksumReg
        PROVE  ByteIs(c.req, c.was, m, b)
    <3>1. b \div 2 \in Addresses => Right(c.req, c.was, b \div 2, m[b \div 2])
      BY <2>1, <2>2 DEF LandedBut
    <3> HIDE DEF c, m
    <3> QED BY <3>1, BytesRight
  <2> QED BY <2>1, <2>2 DEF ByteIs
<1> QED BY <1>3, <1>4

(* A call of igb_set_eeprom() that returns success, and that nothing has   *)
(* disturbed, has written the bytes that were asked for and no others but  *)
(* the checksum, which is right if it covers any of them: for any geometry *)
(* of the EEPROM and any requests, whatever other ports do meanwhile.      *)
THEOREM WritesLand == NvmSpec => []WriteLands
<1>1. NvmInv => WriterGranted
  BY DEF NvmInv, GrantInv, Doing, WriterGranted
<1>2. NvmInit => NvmInv /\ LandsInv
  BY NvmInitial, LandsInitial
<1>3. NvmInv /\ LandsInv /\ [NvmNext]_nvmVars => NvmInv' /\ LandsInv'
  BY <1>1, NvmStep, LandsStep
<1> QED BY <1>2, <1>3, InvImpliesLands, PTL DEF NvmSpec

-----------------------------------------------------------------------------
(* The table of ukmem.c.  Entry i is the first one with its address, the   *)
(* one that is found when igb registers something.                         *)
Foremost(i) == \A j \in 1..(i - 1) : table[j].addr # table[i].addr

(* A NIC that is not open has had at most as many generations of rings as  *)
(* something was undone, and one that is open one more.                    *)
NicInv ==
  \A a \in Nics :
    /\ nic[a].state # "absent" => nic[a].addr \in Addrs
    /\ IF nic[a].state \in {"absent", "allocated"}
         THEN nic[a].n = 0
         ELSE queueNum = Queues /\ nic[a].n \in {1, Queues}
    /\ \A d \in Dirs : IF nic[a].state \in Opening \cup {"up"}
                         THEN nic[a].gen[d] \in 1..(faults + 1)
                         ELSE nic[a].gen[d] \in 0..faults

(* The first entry with the address of a NIC is about this NIC, and later  *)
(* entries with that address never get a ring.                             *)
EntryInv ==
  \A i \in DOMAIN table :
    IF Foremost(i)
      THEN \A a \in Nics : nic[a].addr = table[i].addr =>
             table[i].regs = a /\ (nic[a].state \notin Probing => table[i].mac = a)
      ELSE table[i].tx = <<>> /\ table[i].rx = <<>>

(* Another entry has the same address: the table cannot be complete again. *)
Twin(i) == \E j \in DOMAIN table : j # i /\ table[j].addr = table[i].addr
Seen(p) == calm[p] /\ proc[p].stage # "read"

(* What p has read is still in the table, or the table is spoilt for good. *)
LooksAt(p) ==
  /\ proc[p].num <= Len(table)
  /\ calm[p] => \A i \in 1..proc[p].num :
       /\ proc[p].queues = Queues
       /\ proc[p].macs[i] \in Nics
       /\ table[i].regs = proc[p].macs[i] \/ Twin(i)
LooksInv == \A p \in Procs : proc[p].stage # "read" => LooksAt(p)

(* What p has mapped is where it counts it to be. *)
MapsAt(p) ==
  \A i \in 1..proc[p].num :
    /\ \A j \in 1..proc[p].num : proc[p].macs[i] = proc[p].macs[j] => i = j
    /\ proc[p].stage \in {"descs", "open"} => RegsAt(p, i) = proc[p].macs[i]
    /\ proc[p].stage = "open" /\ p < proc[p].queues => \A d \in Dirs : \E g \in 1..(MaxFaults + 1) :
         RingAt(p, i, d) = <<proc[p].macs[i], d, p, g>>
MapsInv == \A p \in Procs : Seen(p) => MapsAt(p)

(* Two processes that found the table complete number the NICs alike. *)
NumbersAt(p, q) ==
  \A i \in 1..proc[p].num : i <= proc[q].num => proc[p].macs[i] = proc[q].macs[i]
NumbersInv == \A p, q \in Procs : Seen(p) /\ Seen(q) => NumbersAt(p, q)

AdaptersInv == TypeOK /\ NicInv /\ EntryInv /\ LooksInv /\ MapsInv /\ NumbersInv

-----------------------------------------------------------------------------
(* What the calls of igb make of the table. *)
LEMMA TableIs ==
  ASSUME NEW t \in Seq(EntryType), NEW i \in DOMAIN t
  PROVE  /\ t[i] \in EntryType /\ t[i].addr \in Addrs /\ t[i].regs \in Some /\ t[i].mac \in Some
         /\ t[i].tx \in Seq(Pages) /\ t[i].rx \in Seq(Pages)
         /\ DOMAIN t = 1..Len(t) /\ i \in 1..Len(t) /\ Len(t) \in Nat
<1>1. t[i] \in EntryType /\ DOMAIN t = 1..Len(t) /\ i \in 1..Len(t) /\ Len(t) \in Nat
  OBVIOUS
<1> QED BY <1>1 DEF EntryType

LEMMA IsSeq ==
  ASSUME NEW S, NEW n \in Nat, NEW f \in [1..n -> S]
  PROVE  f \in Seq(S) /\ Len(f) = n
OBVIOUS

LEMMA EntryIs ==
  ASSUME NEW addr, NEW i \in DOMAIN table, table \in Seq(EntryType)
  PROVE  i \in Entry(addr) <=> table[i].addr = addr /\ Foremost(i)
<1>1. DOMAIN table = 1..Len(table) /\ Len(table) \in Nat
  OBVIOUS
<1> QED BY <1>1 DEF Entry, Foremost

(* The table grows, and its entries stay where they are. *)
Grows ==
  /\ table' \in Seq(EntryType) /\ Len(table') \in {Len(table), Len(table) + 1}
  /\ \A i \in 1..Len(table) : table'[i].addr = table[i].addr

(* An entry with one field changed. *)
WithRegs(e, v) == [e EXCEPT !.regs = v]
WithMac(e, v) == [e EXCEPT !.mac = v]
WithRing(e, d, page) == [e EXCEPT ![d] = Append(@, page)]

LEMMA WithRegsIs ==
  ASSUME NEW e \in EntryType, NEW v
  PROVE  /\ WithRegs(e, v).addr = e.addr /\ WithRegs(e, v).mac = e.mac
         /\ WithRegs(e, v).tx = e.tx /\ WithRegs(e, v).rx = e.rx
         /\ WithRegs(e, v).regs = v
         /\ v \in Some => WithRegs(e, v) \in EntryType
BY DEF EntryType, WithRegs

LEMMA WithMacIs ==
  ASSUME NEW e \in EntryType, NEW v
  PROVE  /\ WithMac(e, v).addr = e.addr /\ WithMac(e, v).regs = e.regs
         /\ WithMac(e, v).tx = e.tx /\ WithMac(e, v).rx = e.rx
         /\ WithMac(e, v).mac = v
         /\ v \in Some => WithMac(e, v) \in EntryType
BY DEF EntryType, WithMac

LEMMA WithRingIs ==
  ASSUME NEW e \in EntryType, NEW d \in Dirs, NEW page \in Pages
  PROVE  /\ WithRing(e, d, page).addr = e.addr /\ WithRing(e, d, page).regs = e.regs
         /\ WithRing(e, d, page).mac = e.mac /\ WithRing(e, d, page) \in EntryType
<1> DEFINE ring == Append(e[d], page)
<1>1. e[d] \in Seq(Pages)
  BY DEF EntryType, Dirs
<1>2. ring \in Seq(Pages)
  BY <1>1
<1>3. WithRing(e, d, page) = [e EXCEPT ![d] = ring]
  BY DEF WithRing
<1> HIDE DEF ring
<1> QED BY <1>2, <1>3 DEF EntryType, Dirs

LEMMA AllocIs ==
  ASSUME TypeOK, NEW addr \in Addrs, NEW a \in Nics, AllocAdapter(addr, a)
  PROVE  /\ Grows /\ Len(table') = Len(table) + 1
         /\ \A i \in 1..Len(table) :
              /\ table'[i].mac = table[i].mac
              /\ table'[i].tx = table[i].tx /\ table'[i].rx = table[i].rx
              /\ table'[i].regs = IF i \in Entry(addr) THEN a ELSE table[i].regs
         /\ LET e == table'[Len(table) + 1] IN
              /\ e.addr = addr /\ e.tx = <<>> /\ e.rx = <<>>
              /\ Entry(addr) = {} => e.regs = a
<1> DEFINE n == Len(table)
           fresh == [addr |-> addr, regs |-> None, mac |-> None, tx |-> <<>>, rx |-> <<>>]
           new == Append(table, fresh)
           first == IF Entry(addr) = {} THEN {n + 1} ELSE Entry(addr)
           Item(i) == IF i \in first THEN WithRegs(new[i], a) ELSE new[i]
<1>0. table \in Seq(EntryType) /\ n \in Nat /\ a \in Some /\ DOMAIN table = 1..n
  BY DEF TypeOK, Some
<1>1. fresh \in EntryType
  BY DEF EntryType, Some
<1>2. fresh.addr = addr /\ fresh.tx = <<>> /\ fresh.rx = <<>>
  OBVIOUS
<1>3. /\ new \in Seq(EntryType) /\ DOMAIN new = 1..(n + 1)
      /\ \A i \in 1..n : new[i] = table[i]
      /\ new[n + 1] = fresh
  <2> HIDE DEF fresh
  <2> QED BY <1>0, <1>1
<1>4. table' = [i \in 1..(n + 1) |-> Item(i)]
  BY <1>3 DEF AllocAdapter, WithRegs
<1> HIDE DEF fresh, new
<1>5. \A i \in 1..(n + 1) : new[i] \in EntryType
  BY <1>3
<1>6. \A i \in 1..(n + 1) : Item(i) \in EntryType
  BY <1>0, <1>5, WithRegsIs
<1>7. table' \in Seq(EntryType) /\ Len(table') = n + 1 /\ \A i \in 1..(n + 1) : table'[i] = Item(i)
  <2> HIDE DEF Item
  <2>1. table' \in [1..(n + 1) -> EntryType] /\ n + 1 \in Nat
    BY <1>0, <1>4, <1>6
  <2>2. \A i \in 1..(n + 1) : table'[i] = Item(i)
    BY <1>4
  <2> QED BY <2>1, <2>2
<1>8. \A i \in 1..n : /\ i \in 1..(n + 1) /\ new[i] = table[i] /\ table[i] \in EntryType
                      /\ i \in first <=> i \in Entry(addr)
  BY <1>0, <1>3, <1>5
<1>9. \A i \in 1..n :
        /\ Item(i).addr = table[i].addr /\ Item(i).mac = table[i].mac
        /\ Item(i).tx = table[i].tx /\ Item(i).rx = table[i].rx
        /\ Item(i).regs = IF i \in Entry(addr) THEN a ELSE table[i].regs
  <2> TAKE i \in 1..n
  <2>1. CASE i \in Entry(addr)
    <3>1. Item(i) = WithRegs(table[i], a)
      BY <1>8, <2>1
    <3> QED BY <1>8, <2>1, <3>1, WithRegsIs
  <2>2. CASE i \notin Entry(addr)
    <3>1. Item(i) = table[i]
      BY <1>8, <2>2
    <3> QED BY <2>2, <3>1
  <2> QED BY <2>1, <2>2
<1>10. /\ Item(n + 1).addr = addr /\ Item(n + 1).tx = <<>> /\ Item(n + 1).rx = <<>>
       /\ Entry(addr) = {} => Item(n + 1).regs = a
  <2>1. CASE n + 1 \in first
    <3>1. Item(n + 1) = WithRegs(fresh, a)
      BY <1>3, <2>1
    <3> HIDE DEF Item
    <3> QED BY <1>1, <1>2, <3>1, WithRegsIs
  <2>2. CASE n + 1 \notin first
    <3>1. Item(n + 1) = fresh /\ Entry(addr) # {}
      BY <1>3, <2>2
    <3> QED BY <1>2, <3>1
  <2> QED BY <2>1, <2>2
<1> HIDE DEF Item
<1>11. \A i \in 1..n : i \in 1..(n + 1) /\ table'[i] = Item(i)
  BY <1>0, <1>7
<1>12. n + 1 \in 1..(n + 1)
  BY <1>0
<1> QED BY <1>0, <1>7, <1>9, <1>10, <1>11, <1>12 DEF Grows

LEMMA MacIs ==
  ASSUME TypeOK, NEW addr, NEW a \in Nics, AddMac(addr, a)
  PROVE  /\ Grows /\ Len(table') = Len(table)
         /\ \A i \in 1..Len(table) :
              /\ table'[i].regs = table[i].regs
              /\ table'[i].tx = table[i].tx /\ table'[i].rx = table[i].rx
              /\ table'[i].mac = IF i \in Entry(addr) THEN a ELSE table[i].mac
<1> DEFINE n == Len(table)
           Item(i) == IF i \in Entry(addr) THEN WithMac(table[i], a) ELSE table[i]
<1>0. table \in Seq(EntryType) /\ n \in Nat /\ a \in Some /\ DOMAIN table = 1..n
  BY DEF TypeOK, Some
<1>1. table' = [i \in 1..n |-> Item(i)]
  BY <1>0 DEF AddMac, WithMac
<1>2. \A i \in 1..n : table[i] \in EntryType
  BY <1>0
<1>3. \A i \in 1..n : Item(i) \in EntryType
  BY <1>0, <1>2, WithMacIs
<1>4. table' \in Seq(EntryType) /\ Len(table') = n /\ \A i \in 1..n : table'[i] = Item(i)
  <2> HIDE DEF Item
  <2>1. table' \in [1..n -> EntryType]
    BY <1>1, <1>3
  <2>2. \A i \in 1..n : table'[i] = Item(i)
    BY <1>1
  <2> QED BY <1>0, <2>1, <2>2
<1>5. \A i \in 1..n :
        /\ Item(i).addr = table[i].addr /\ Item(i).regs = table[i].regs
        /\ Item(i).tx = table[i].tx /\ Item(i).rx = table[i].rx
        /\ Item(i).mac = IF i \in Entry(addr) THEN a ELSE table[i].mac
  BY <1>2, WithMacIs
<1> HIDE DEF Item
<1> QED BY <1>0, <1>4, <1>5 DEF Grows

LEMMA RingIs ==
  ASSUME TypeOK, NEW addr, NEW d \in Dirs, NEW page \in Pages, AddDesc(addr, d, page)
  PROVE  /\ Grows /\ Len(table') = Len(table)
         /\ \A i \in 1..Len(table) :
              /\ table'[i].regs = table[i].regs /\ table'[i].mac = table[i].mac
              /\ i \notin Entry(addr) => table'[i].tx = table[i].tx /\ table'[i].rx = table[i].rx
<1> DEFINE n == Len(table)
           Item(i) == IF i \in Entry(addr) THEN WithRing(table[i], d, page) ELSE table[i]
<1>0. table \in Seq(EntryType) /\ n \in Nat /\ DOMAIN table = 1..n
  BY DEF TypeOK
<1>1. table' = [i \in 1..n |-> Item(i)]
  BY <1>0 DEF AddDesc, WithRing
<1>2. \A i \in 1..n : table[i] \in EntryType
  BY <1>0
<1>3. \A i \in 1..n : Item(i) \in EntryType
  BY <1>2, WithRingIs
<1>4. table' \in Seq(EntryType) /\ Len(table') = n /\ \A i \in 1..n : table'[i] = Item(i)
  <2> HIDE DEF Item
  <2>1. table' \in [1..n -> EntryType]
    BY <1>1, <1>3
  <2>2. \A i \in 1..n : table'[i] = Item(i)
    BY <1>1
  <2> QED BY <1>0, <2>1, <2>2
<1>5. \A i \in 1..n :
        /\ Item(i).addr = table[i].addr /\ Item(i).regs = table[i].regs /\ Item(i).mac = table[i].mac
        /\ i \notin Entry(addr) => Item(i).tx = table[i].tx /\ Item(i).rx = table[i].rx
  BY <1>2, WithRingIs
<1> HIDE DEF Item
<1> QED BY <1>0, <1>4, <1>5 DEF Grows

LEMMA GrowsNot ==
  ASSUME TypeOK, UNCHANGED table
  PROVE  Grows /\ Len(table') = Len(table)
<1>1. Len(table) \in Nat
  BY DEF TypeOK
<1> QED BY <1>1 DEF TypeOK, Grows

LEMMA ForemostStays ==
  ASSUME TypeOK, Grows, NEW i \in 1..Len(table)
  PROVE  Foremost(i)' <=> Foremost(i)
<1>1. Len(table) \in Nat
  BY DEF TypeOK
<1>2. \A j \in 1..(i - 1) : j \in 1..Len(table) /\ table'[j].addr = table[j].addr
  BY <1>1 DEF Grows
<1>3. table'[i].addr = table[i].addr
  BY DEF Grows
<1> QED BY <1>2, <1>3 DEF Foremost

-----------------------------------------------------------------------------
(* What a step makes of a NIC. *)
States == {"absent", "down", "up"} \cup Probing \cup Opening
Nic(s, addr, n, gen, done) == [state |-> s, addr |-> addr, n |-> n, gen |-> gen, done |-> done]
NicGoes(a, s, addr, n, gen, done) == nic' = [nic EXCEPT ![a] = Nic(s, addr, n, gen, done)]

NicTypes ==
  /\ faults \in 0..MaxFaults /\ queueNum \in {0, Queues}
  /\ nic \in [Nics -> NicType]
  /\ \A a \in Nics : \A d \in Dirs : nic[a].done[d] <= nic[a].n
  /\ \A a, b \in Nics : nic[a].addr = nic[b].addr /\ a # b => nic[a].addr = None

LEMMA NicIs ==
  ASSUME TypeOK, NEW a \in Nics
  PROVE  /\ nic[a].state \in States /\ nic[a].addr \in Addrs \cup {None}
         /\ nic[a].n \in {0, 1, Queues}
         /\ nic[a].gen \in [Dirs -> 0..(MaxFaults + 1)] /\ nic[a].done \in [Dirs -> 0..Queues]
         /\ \A d \in Dirs : nic[a].done[d] <= nic[a].n
         /\ nic[a] = Nic(nic[a].state, nic[a].addr, nic[a].n, nic[a].gen, nic[a].done)
<1>1. nic[a] \in NicType
  BY DEF TypeOK
<1> QED BY <1>1 DEF TypeOK, NicType, Nic, States

LEMMA NicFields ==
  ASSUME NEW s, NEW addr, NEW n, NEW gen, NEW done
  PROVE  /\ Nic(s, addr, n, gen, done).state = s /\ Nic(s, addr, n, gen, done).addr = addr
         /\ Nic(s, addr, n, gen, done).n = n /\ Nic(s, addr, n, gen, done).gen = gen
         /\ Nic(s, addr, n, gen, done).done = done
BY DEF Nic

(* One field of it changed. *)
WithState(r, s) == [r EXCEPT !.state = s]
WithAddr(r, addr) == [r EXCEPT !.addr = addr]
WithN(r, n) == [r EXCEPT !.n = n]
WithGen(r, gen) == [r EXCEPT !.gen = gen]
WithDone(r, done) == [r EXCEPT !.done = done]

LEMMA NicWith ==
  ASSUME NEW s, NEW addr, NEW n, NEW gen, NEW done, NEW v
  PROVE  /\ WithState(Nic(s, addr, n, gen, done), v) = Nic(v, addr, n, gen, done)
         /\ WithAddr(Nic(s, addr, n, gen, done), v) = Nic(s, v, n, gen, done)
         /\ WithN(Nic(s, addr, n, gen, done), v) = Nic(s, addr, v, gen, done)
         /\ WithGen(Nic(s, addr, n, gen, done), v) = Nic(s, addr, n, v, done)
         /\ WithDone(Nic(s, addr, n, gen, done), v) = Nic(s, addr, n, gen, v)
BY DEF Nic, WithState, WithAddr, WithN, WithGen, WithDone

LEMMA NicGone ==
  ASSUME TypeOK, NEW a \in Nics, NEW s, NEW addr, NEW n, NEW gen, NEW done,
         NicGoes(a, s, addr, n, gen, done)
  PROVE  /\ nic'[a].state = s /\ nic'[a].addr = addr /\ nic'[a].n = n
         /\ nic'[a].gen = gen /\ nic'[a].done = done
         /\ \A b \in Nics : b # a => nic'[b] = nic[b]
<1>1. nic'[a] = Nic(s, addr, n, gen, done) /\ \A b \in Nics : b # a => nic'[b] = nic[b]
  BY DEF TypeOK, NicGoes
<1> QED BY <1>1, NicFields

(* What a step has to see to. *)
Sound(a, s, addr, n, gen, done) ==
  /\ s \in States /\ n \in {0, 1, Queues} /\ done \in [Dirs -> 0..Queues] /\ gen \in [Dirs -> Nat]
  /\ \A d \in Dirs : done[d] <= n
  /\ addr \in Addrs \cup {None} /\ (s # "absent" => addr \in Addrs)
  /\ addr # None => \A b \in Nics : b # a => nic[b].addr # addr
  /\ IF s \in {"absent", "allocated"} THEN n = 0 ELSE queueNum' = Queues /\ n \in {1, Queues}
  /\ \A d \in Dirs : IF s \in Opening \cup {"up"} THEN gen[d] \in 1..(faults' + 1)
                                                  ELSE gen[d] \in 0..faults'

LEMMA NicStep ==
  ASSUME TypeOK, NicInv, NEW a \in Nics, NEW s, NEW addr, NEW n, NEW gen, NEW done,
         NicGoes(a, s, addr, n, gen, done), Sound(a, s, addr, n, gen, done),
         queueNum' \in {queueNum, Queues}, faults' \in {faults, faults + 1}, faults' <= MaxFaults
  PROVE  NicTypes' /\ NicInv'
<1>0. /\ MaxFaults \in Nat /\ Queues \in Nat /\ faults \in Nat
      /\ queueNum \in {0, Queues}
  BY AdaptersAssumption DEF TypeOK
<1>1. faults' \in 0..MaxFaults /\ queueNum' \in {0, Queues}
  BY <1>0
<1>2. gen \in [Dirs -> 0..(MaxFaults + 1)]
  <2>1. \A d \in Dirs : gen[d] \in 0..(MaxFaults + 1)
    BY <1>0, <1>1 DEF Sound
  <2> QED BY <2>1 DEF Sound
<1>3. Nic(s, addr, n, gen, done) \in NicType
  BY <1>2 DEF Sound, Nic, NicType, States
<1>4. nic' \in [Nics -> NicType]
  BY <1>3 DEF NicGoes, TypeOK
<1>5. /\ nic'[a].state = s /\ nic'[a].addr = addr /\ nic'[a].n = n
      /\ nic'[a].gen = gen /\ nic'[a].done = done
      /\ \A b \in Nics : b # a => nic'[b] = nic[b]
  BY NicGone
<1>6. \A b \in Nics : \A d \in Dirs : nic'[b].done[d] <= nic'[b].n
  BY <1>5 DEF Sound, TypeOK
<1>7. \A b, c \in Nics : nic'[b].addr = nic'[c].addr /\ b # c => nic'[b].addr = None
  <2> TAKE b, c \in Nics
  <2>1. CASE b # a /\ c # a
    BY <1>5, <2>1 DEF TypeOK
  <2>2. CASE b = a \/ c = a
    BY <1>5, <2>2 DEF Sound
  <2> QED BY <2>1, <2>2
<1>8. NicTypes'
  BY <1>1, <1>4, <1>6, <1>7 DEF NicTypes
<1>9. ASSUME NEW b \in Nics
      PROVE  /\ nic'[b].state # "absent" => nic'[b].addr \in Addrs
             /\ IF nic'[b].state \in {"absent", "allocated"}
                  THEN nic'[b].n = 0
                  ELSE queueNum' = Queues /\ nic'[b].n \in {1, Queues}
             /\ \A d \in Dirs : IF nic'[b].state \in Opening \cup {"up"}
                         THEN nic'[b].gen[d] \in 1..(faults' + 1)
                         ELSE nic'[b].gen[d] \in 0..faults'
  <2>1. CASE b = a
    BY <1>5, <2>1 DEF Sound
  <2>2. CASE b # a
    <3>1. nic'[b] = nic[b]
      BY <1>5, <2>2
    <3>2. /\ nic[b].state # "absent" => nic[b].addr \in Addrs
          /\ IF nic[b].state \in {"absent", "allocated"}
               THEN nic[b].n = 0
               ELSE queueNum = Queues /\ nic[b].n \in {1, Queues}
      BY DEF NicInv
    <3>3. \A d \in Dirs : IF nic[b].state \in Opening \cup {"up"}
                         THEN nic[b].gen[d] \in 1..(faults + 1)
                         ELSE nic[b].gen[d] \in 0..faults
      BY DEF NicInv
    <3>4. \A d \in Dirs : IF nic[b].state \in Opening \cup {"up"}
                         THEN nic[b].gen[d] \in 1..(faults' + 1)
                         ELSE nic[b].gen[d] \in 0..faults'
      BY <1>0, <3>3
    <3> QED BY <3>1, <3>2, <3>4
  <2> QED BY <2>1, <2>2
<1>10. NicInv'
  BY <1>9 DEF NicInv
<1> QED BY <1>8, <1>10

(* The entries and their NICs, when nothing is registered but rings. *)
LEMMA EntriesStay ==
  ASSUME TypeOK, EntryInv, Grows, Len(table') = Len(table),
         \A i \in 1..Len(table) :
           /\ table'[i].regs = table[i].regs /\ table'[i].mac = table[i].mac
           /\ ~Foremost(i) => table'[i].tx = table[i].tx /\ table'[i].rx = table[i].rx,
         \A a \in Nics : nic'[a].addr # None =>
           nic'[a].addr = nic[a].addr /\ (nic[a].state \in Probing => nic'[a].state \in Probing)
  PROVE  EntryInv'
<1>0. Len(table) \in Nat /\ DOMAIN table = 1..Len(table)
  BY DEF TypeOK
<1>a. DOMAIN table' = 1..Len(table)
  BY <1>0 DEF Grows
<1> SUFFICES ASSUME NEW i \in 1..Len(table)
             PROVE  IF Foremost(i)'
                      THEN \A a \in Nics : nic'[a].addr = table'[i].addr =>
                             table'[i].regs = a /\ (nic'[a].state \notin Probing => table'[i].mac = a)
                      ELSE table'[i].tx = <<>> /\ table'[i].rx = <<>>
  BY <1>a DEF EntryInv
<1>1. Foremost(i)' <=> Foremost(i)
  BY ForemostStays
<1>2. table'[i].addr = table[i].addr /\ table[i].addr # None
  BY TableIs, AdaptersAssumption DEF Grows, TypeOK
<1>3. IF Foremost(i)
      THEN \A a \in Nics : nic[a].addr = table[i].addr =>
             table[i].regs = a /\ (nic[a].state \notin Probing => table[i].mac = a)
      ELSE table[i].tx = <<>> /\ table[i].rx = <<>>
  BY <1>0 DEF EntryInv
<1>4. CASE Foremost(i)
  BY <1>1, <1>2, <1>3, <1>4
<1>5. CASE ~Foremost(i)
  BY <1>1, <1>3, <1>5
<1> QED BY <1>4, <1>5

LEMMA ProcIs ==
  ASSUME TypeOK, NEW p \in Procs
  PROVE  /\ proc[p] \in ProcType /\ proc[p].num \in Nat /\ proc[p].queues \in {0, Queues}
         /\ proc[p].macs \in Seq(Some) /\ Len(proc[p].macs) = proc[p].num
         /\ proc[p].stage \in {"read", "regs", "descs", "open"}
         /\ proc[p].regs \in AreaType /\ proc[p].descs \in AreaType
<1>1. proc[p] \in ProcType /\ Len(proc[p].macs) = proc[p].num
  BY DEF TypeOK
<1> QED BY <1>1 DEF ProcType

(* What the processes have seen, when igb takes a step. *)
LEMMA SightsStay ==
  ASSUME TypeOK, LooksInv, MapsInv, NumbersInv, Grows, UNCHANGED <<proc, calm>>,
         \A i \in 1..Len(table) : Twin(i)' \/ table'[i].regs = table[i].regs
  PROVE  LooksInv' /\ MapsInv' /\ NumbersInv'
<1>0. Len(table) \in Nat /\ Len(table') \in Nat /\ Len(table) <= Len(table')
      /\ DOMAIN table = 1..Len(table) /\ DOMAIN table' = 1..Len(table')
  BY DEF TypeOK, Grows
<1>1. ASSUME NEW i \in 1..Len(table), Twin(i) PROVE Twin(i)'
  <2>1. PICK j \in 1..Len(table) : j # i /\ table[j].addr = table[i].addr
    BY <1>0, <1>1 DEF Twin
  <2>2. j \in DOMAIN table'
    BY <1>0
  <2>3. table'[j].addr = table[j].addr /\ table'[i].addr = table[i].addr
    BY DEF Grows
  <2> QED BY <2>1, <2>2, <2>3 DEF Twin
<1>2. LooksInv'
  <2> SUFFICES ASSUME NEW p \in Procs, proc[p].stage # "read"
               PROVE  /\ proc[p].num <= Len(table')
                      /\ calm[p] => \A i \in 1..proc[p].num :
                           /\ proc[p].queues = Queues
                           /\ proc[p].macs[i] \in Nics
                           /\ table'[i].regs = proc[p].macs[i] \/ Twin(i)'
    BY DEF LooksInv, LooksAt
  <2>1. /\ proc[p].num <= Len(table) /\ proc[p].num \in Nat
        /\ calm[p] => \A i \in 1..proc[p].num :
             /\ proc[p].queues = Queues
             /\ proc[p].macs[i] \in Nics
             /\ table[i].regs = proc[p].macs[i] \/ Twin(i)
    BY ProcIs DEF LooksInv, LooksAt
  <2>2. \A i \in 1..proc[p].num : i \in 1..Len(table)
    BY <1>0, <2>1
  <2> QED BY <1>0, <1>1, <2>1, <2>2
<1>3. MapsInv'
  BY DEF MapsInv, MapsAt, Seen, RegsAt, RingAt
<1>4. NumbersInv'
  BY DEF NumbersInv, NumbersAt, Seen
<1> QED BY <1>2, <1>3, <1>4

LEMMA TypesStay ==
  ASSUME TypeOK, NicTypes', Grows, UNCHANGED <<proc, calm>>
  PROVE  TypeOK'
BY DEF TypeOK, NicTypes, Grows

LEMMA NicOnly ==
  ASSUME AdaptersInv, UNCHANGED <<table, proc, calm>>,
         NEW a \in Nics, NEW s, NEW addr, NEW n, NEW gen, NEW done,
         NicGoes(a, s, addr, n, gen, done), Sound(a, s, addr, n, gen, done),
         queueNum' \in {queueNum, Queues}, faults' \in {faults, faults + 1}, faults' <= MaxFaults,
         addr \in {None, nic[a].addr}, nic[a].state \in Probing /\ addr # None => s \in Probing
  PROVE  AdaptersInv'
<1>0. TypeOK /\ NicInv /\ EntryInv /\ LooksInv /\ MapsInv /\ NumbersInv
  BY DEF AdaptersInv
<1>1. NicTypes' /\ NicInv'
  BY <1>0, NicStep
<1>2. Grows /\ Len(table') = Len(table)
  BY <1>0, GrowsNot
<1>3. TypeOK'
  BY <1>0, <1>1, <1>2, TypesStay
<1>4. \A b \in Nics : nic'[b].addr # None =>
        nic'[b].addr = nic[b].addr /\ (nic[b].state \in Probing => nic'[b].state \in Probing)
  <2>1. /\ nic'[a].state = s /\ nic'[a].addr = addr
        /\ \A b \in Nics : b # a => nic'[b] = nic[b]
    BY <1>0, NicGone
  <2> QED BY <2>1
<1>5. EntryInv'
  BY <1>0, <1>2, <1>4, EntriesStay
<1>6. LooksInv' /\ MapsInv' /\ NumbersInv'
  BY <1>0, <1>2, SightsStay
<1> QED BY <1>1, <1>3, <1>5, <1>6 DEF AdaptersInv

LEMMA BecomeIs ==
  ASSUME TypeOK, NEW a \in Nics, NEW s, Become(a, s)
  PROVE  NicGoes(a, s, nic[a].addr, nic[a].n, nic[a].gen, nic[a].done)
<1>1. nic[a] \in NicType /\ nic' = [nic EXCEPT ![a] = [nic[a] EXCEPT !.state = s]]
  BY DEF TypeOK, Become
<1>2. [nic[a] EXCEPT !.state = s] = Nic(s, nic[a].addr, nic[a].n, nic[a].gen, nic[a].done)
  BY <1>1 DEF NicType, Nic
<1> QED BY <1>1, <1>2 DEF NicGoes

Fresh == [d \in Dirs |-> 0]

LEMMA FreedIs ==
  ASSUME TypeOK, NEW a \in Nics, Freed(a)
  PROVE  NicGoes(a, "absent", None, 0, nic[a].gen, Fresh)
<1>1. [NoNic EXCEPT !.gen = nic[a].gen] = Nic("absent", None, 0, nic[a].gen, Fresh)
  BY DEF NoNic, Nic, Fresh
<1> QED BY <1>1 DEF Freed, NicGoes

LEMMA FreshIs == Fresh \in [Dirs -> 0..Queues] /\ \A d \in Dirs : Fresh[d] = 0
<1>1. Queues \in Nat
  BY AdaptersAssumption
<1> QED BY <1>1 DEF Fresh

(* The rings that there have been. *)
LEMMA GenIs ==
  ASSUME TypeOK, NicInv, NEW a \in Nics
  PROVE  /\ faults \in Nat /\ MaxFaults \in Nat
         /\ nic[a].gen \in [Dirs -> Nat]
         /\ \A d \in Dirs : nic[a].gen[d] \in 0..(faults + 1)
         /\ nic[a].state \in Opening \cup {"up"} => \A d \in Dirs : nic[a].gen[d] \in 1..(faults + 1)
         /\ nic[a].state \notin Opening \cup {"up"} => \A d \in Dirs : nic[a].gen[d] \in 0..faults
<1>0. faults \in Nat /\ MaxFaults \in Nat
  BY AdaptersAssumption DEF TypeOK
<1>1. nic[a].gen \in [Dirs -> 0..(MaxFaults + 1)]
  BY NicIs
<1>2. \A d \in Dirs : IF nic[a].state \in Opening \cup {"up"}
                        THEN nic[a].gen[d] \in 1..(faults + 1)
                        ELSE nic[a].gen[d] \in 0..faults
  BY DEF NicInv
<1>3. nic[a].gen \in [Dirs -> Nat]
  BY <1>0, <1>1
<1>4. CASE nic[a].state \in Opening \cup {"up"}
  BY <1>0, <1>2, <1>3, <1>4
<1>5. CASE nic[a].state \notin Opening \cup {"up"}
  BY <1>0, <1>2, <1>3, <1>5
<1> QED BY <1>4, <1>5

LEMMA FaultIs ==
  ASSUME TypeOK, Fault
  PROVE  faults' = faults + 1 /\ faults' <= MaxFaults
BY AdaptersAssumption DEF TypeOK, Fault

LEMMA FaultNot ==
  ASSUME TypeOK, UNCHANGED faults
  PROVE  faults' = faults /\ faults' <= MaxFaults
BY AdaptersAssumption DEF TypeOK

LEMMA FreedSound ==
  ASSUME TypeOK, NicInv, NEW a \in Nics, Freed(a), Fault
  PROVE  Sound(a, "absent", None, 0, nic[a].gen, Fresh)
<1>1. \A d \in Dirs : nic[a].gen[d] \in 0..faults'
  BY GenIs, FaultIs
<1>2. nic[a].gen \in [Dirs -> Nat]
  BY GenIs
<1> QED BY <1>1, <1>2, FreshIs DEF Sound, States, Opening

(* A NIC that is known goes from one state to another. *)
LEMMA BecomeSound ==
  ASSUME TypeOK, NicInv, NEW a \in Nics, NEW s \in States \ {"absent", "allocated"},
         nic[a].state \notin {"absent", "allocated"}, UNCHANGED queueNum,
         NEW n \in {1, Queues}, NEW gen \in [Dirs -> Nat], NEW done \in [Dirs -> 0..Queues],
         \A d \in Dirs : done[d] <= n,
         \A d \in Dirs : IF s \in Opening \cup {"up"} THEN gen[d] \in 1..(faults' + 1)
                                                  ELSE gen[d] \in 0..faults'
  PROVE  Sound(a, s, nic[a].addr, n, gen, done)
<1>1. queueNum = Queues /\ nic[a].addr \in Addrs
  BY DEF NicInv
<1>2. \A b \in Nics : b # a => nic[b].addr # nic[a].addr
  BY <1>1, AdaptersAssumption DEF TypeOK
<1> QED BY <1>1, <1>2 DEF Sound

LEMMA KnownIs ==
  ASSUME TypeOK, NicInv, NEW a \in Nics, nic[a].state \notin {"absent", "allocated"}
  PROVE  queueNum = Queues /\ nic[a].n \in {1, Queues} /\ nic[a].addr \in Addrs
BY DEF NicInv

-----------------------------------------------------------------------------
(* The steps of igb that leave the table alone. *)
LEMMA BecomeInv ==
  ASSUME AdaptersInv, NEW a \in Nics, NEW s \in States \ {"absent", "allocated"}, Become(a, s),
         nic[a].state \notin {"absent", "allocated"} \cup Probing,
         UNCHANGED <<table, queueNum, proc, calm>>,
         Fault \/ (UNCHANGED faults /\ nic[a].state \in Opening /\ s = "up"),
         Fault => s = "down"
  PROVE  AdaptersInv'
<1>0. TypeOK /\ NicInv
  BY DEF AdaptersInv
<1>1. faults' \in {faults, faults + 1} /\ faults' <= MaxFaults
  BY <1>0, FaultIs, FaultNot
<1>2. \A d \in Dirs : IF s \in Opening \cup {"up"} THEN nic[a].gen[d] \in 1..(faults' + 1)
                                                  ELSE nic[a].gen[d] \in 0..faults'
  <2>1. CASE Fault
    <3>1. faults' = faults + 1 /\ s = "down" /\ s \notin Opening \cup {"up"}
      BY <1>0, <2>1, FaultIs DEF Opening
    <3>2. \A d \in Dirs : nic[a].gen[d] \in 0..faults'
      BY <1>0, <3>1, GenIs
    <3> QED BY <3>1, <3>2
  <2>2. CASE UNCHANGED faults /\ nic[a].state \in Opening /\ s = "up"
    <3>1. \A d \in Dirs : nic[a].gen[d] \in 1..(faults' + 1)
      BY <1>0, <2>2, GenIs
    <3> QED BY <2>2, <3>1
  <2> QED BY <2>1, <2>2
<1>3. NicGoes(a, s, nic[a].addr, nic[a].n, nic[a].gen, nic[a].done)
  BY <1>0, BecomeIs
<1>4. nic[a].n \in {1, Queues} /\ nic[a].gen \in [Dirs -> Nat] /\ nic[a].done \in [Dirs -> 0..Queues]
      /\ \A d \in Dirs : nic[a].done[d] <= nic[a].n
  BY <1>0, KnownIs, NicIs, GenIs
<1>5. Sound(a, s, nic[a].addr, nic[a].n, nic[a].gen, nic[a].done)
  BY <1>0, <1>2, <1>4, BecomeSound
<1> QED BY <1>1, <1>3, <1>5, NicOnly

LEMMA FreedInv ==
  ASSUME AdaptersInv, NEW a \in Nics, Freed(a), Fault, UNCHANGED <<table, queueNum, proc, calm>>
  PROVE  AdaptersInv'
<1>0. TypeOK /\ NicInv
  BY DEF AdaptersInv
<1>1. NicGoes(a, "absent", None, 0, nic[a].gen, Fresh)
  BY <1>0, FreedIs
<1>2. Sound(a, "absent", None, 0, nic[a].gen, Fresh)
  BY <1>0, FreedSound
<1>3. faults' \in {faults, faults + 1} /\ faults' <= MaxFaults
  BY <1>0, FaultIs
<1> QED BY <1>1, <1>2, <1>3, NicOnly

LEMMA ProbeInitInv ==
  ASSUME AdaptersInv, NEW a \in Nics, ProbeInit(a)
  PROVE  AdaptersInv'
<1>0. TypeOK /\ NicInv
  BY DEF AdaptersInv
<1>1. PICK n \in Granted :
        /\ IF n = Queues THEN UNCHANGED faults ELSE Fault
        /\ nic' = [nic EXCEPT ![a].state = "initialised", ![a].n = n]
  BY DEF ProbeInit
<1>2. /\ nic[a].state = "allocated" /\ queueNum' = Queues /\ UNCHANGED <<table, proc, calm>>
      /\ n \in {1, Queues} /\ Queues \in Nat \ {0}
  BY AdaptersAssumption DEF ProbeInit, Granted
<1>3. NicGoes(a, "initialised", nic[a].addr, n, nic[a].gen, nic[a].done)
  <2>1. nic' = [nic EXCEPT ![a] = WithN(WithState(nic[a], "initialised"), n)]
    BY <1>0, <1>1 DEF TypeOK, WithN, WithState
  <2>2. WithN(WithState(nic[a], "initialised"), n) =
          Nic("initialised", nic[a].addr, n, nic[a].gen, nic[a].done)
    BY <1>0, NicIs, NicWith
  <2> QED BY <2>1, <2>2 DEF NicGoes
<1>4. faults' \in {faults, faults + 1} /\ faults' <= MaxFaults /\ faults' >= faults
  BY <1>0, <1>1, FaultIs, FaultNot, GenIs
<1>5. \A d \in Dirs : nic[a].gen[d] \in 0..faults'
  BY <1>0, <1>2, <1>4, GenIs DEF Opening
<1>6. nic[a].gen \in [Dirs -> Nat] /\ nic[a].done \in [Dirs -> 0..Queues]
      /\ \A d \in Dirs : nic[a].done[d] <= n
  <2>1. nic[a].n = 0
    BY <1>0, <1>2 DEF NicInv
  <2>2. nic[a].done \in [Dirs -> 0..Queues] /\ \A d \in Dirs : nic[a].done[d] <= nic[a].n
    BY <1>0, NicIs
  <2>3. \A d \in Dirs : nic[a].done[d] <= n
    BY <1>2, <2>1, <2>2
  <2> QED BY <1>0, <2>2, <2>3, GenIs
<1>7. nic[a].addr \in Addrs /\ \A b \in Nics : b # a => nic[b].addr # nic[a].addr
  BY <1>0, <1>2, AdaptersAssumption DEF NicInv, TypeOK
<1>8. Sound(a, "initialised", nic[a].addr, n, nic[a].gen, nic[a].done)
  BY <1>2, <1>5, <1>6, <1>7 DEF Sound, States, Opening, Probing
<1> QED BY <1>2, <1>3, <1>4, <1>8, NicOnly DEF Probing

(* Mutual exclusion apart, the rings of a are set up from the beginning. *)
LEMMA NewRingsInv ==
  ASSUME AdaptersInv, NEW a \in Nics, NEW s \in Opening, NEW n \in {1, Queues},
         nic[a].state \notin {"absent", "allocated"} \cup Probing,
         nic' = [nic EXCEPT ![a] = NewRings(a, s, n)],
         UNCHANGED <<table, queueNum, proc, calm>>,
         (nic[a].state = "down" /\ UNCHANGED faults) \/ Fault
  PROVE  AdaptersInv'
<1> DEFINE gen == [d \in Dirs |-> nic[a].gen[d] + 1]
<1>0. TypeOK /\ NicInv
  BY DEF AdaptersInv
<1>1. NicGoes(a, s, nic[a].addr, n, gen, Fresh)
  <2>1. NewRings(a, s, n) = WithDone(WithGen(WithN(WithState(nic[a], s), n), gen), Fresh)
    <3>1. WithN(WithState(nic[a], s), n).gen = nic[a].gen
      BY <1>0, NicIs, NicWith, NicFields
    <3> QED BY <3>1 DEF NewRings, WithState, WithN, WithGen, WithDone, Fresh
  <2>2. WithDone(WithGen(WithN(WithState(nic[a], s), n), gen), Fresh) = Nic(s, nic[a].addr, n, gen, Fresh)
    <3> HIDE DEF gen
    <3> QED BY <1>0, NicIs, NicWith
  <2> QED BY <2>1, <2>2 DEF NicGoes
<1>2. faults' \in {faults, faults + 1} /\ faults' <= MaxFaults
  BY <1>0, FaultIs, FaultNot
<1>3. gen \in [Dirs -> Nat] /\ \A d \in Dirs : gen[d] \in 1..(faults' + 1)
  <2>1. faults \in Nat /\ \A d \in Dirs : nic[a].gen[d] \in 0..(faults + 1)
    BY <1>0, GenIs
  <2>2. CASE nic[a].state = "down" /\ UNCHANGED faults
    <3>1. \A d \in Dirs : nic[a].gen[d] \in 0..faults
      BY <1>0, <2>2, GenIs DEF Opening
    <3> QED BY <2>1, <2>2, <3>1
  <2>3. CASE Fault
    <3>1. faults' = faults + 1
      BY <1>0, <2>3, FaultIs
    <3> QED BY <2>1, <3>1
  <2> QED BY <2>2, <2>3
<1> HIDE DEF gen
<1>4. Fresh \in [Dirs -> 0..Queues] /\ \A d \in Dirs : Fresh[d] <= n
  BY FreshIs, AdaptersAssumption
<1>5. s \in States \ {"absent", "allocated"} /\ s \in Opening \cup {"up"}
  BY DEF States, Opening
<1>6. Sound(a, s, nic[a].addr, n, gen, Fresh)
  BY <1>0, <1>3, <1>4, <1>5, BecomeSound
<1> QED BY <1>1, <1>2, <1>6, NicOnly

LEMMA OpenInv ==
  ASSUME AdaptersInv, NEW a \in Nics, Open(a)
  PROVE  AdaptersInv'
<1>1. /\ nic[a].state = "down" /\ nic' = [nic EXCEPT ![a] = NewRings(a, "opening", nic[a].n)]
      /\ UNCHANGED <<table, queueNum, proc, faults, calm>>
  BY DEF Open
<1>2. nic[a].n \in {1, Queues}
  BY <1>1, KnownIs DEF AdaptersInv
<1>3. "opening" \in Opening /\ nic[a].state \notin {"absent", "allocated"} \cup Probing
  BY <1>1 DEF Opening, Probing
<1> QED BY <1>1, <1>2, <1>3, NewRingsInv

LEMMA RequestIrqInv ==
  ASSUME AdaptersInv, NEW a \in Nics, RequestIrq(a)
  PROVE  AdaptersInv'
<1>1. /\ nic[a].state \in Opening /\ UNCHANGED <<table, queueNum, proc, calm>>
      /\ nic[a].state \notin {"absent", "allocated"} \cup Probing
      /\ {"up", "down"} \subseteq States \ {"absent", "allocated"} /\ "retrying" \in Opening
  BY DEF RequestIrq, Opening, Probing, States
<1>2. \/ Become(a, "up") /\ UNCHANGED faults
      \/ Become(a, "down") /\ Fault
      \/ nic' = [nic EXCEPT ![a] = NewRings(a, "retrying", 1)] /\ Fault
  BY DEF RequestIrq
<1>3. CASE Become(a, "up") /\ UNCHANGED faults
  <2>1. ~Fault
    BY <1>3, FaultIs, GenIs DEF AdaptersInv
  <2> QED BY <1>1, <1>3, <2>1, BecomeInv
<1>4. CASE Become(a, "down") /\ Fault
  BY <1>1, <1>4, BecomeInv
<1>5. CASE nic' = [nic EXCEPT ![a] = NewRings(a, "retrying", 1)] /\ Fault
  BY <1>1, <1>5, NewRingsInv
<1> QED BY <1>2, <1>3, <1>4, <1>5

LEMMA CloseInv ==
  ASSUME AdaptersInv, NEW a \in Nics, Close(a)
  PROVE  AdaptersInv'
<1>1. /\ nic[a].state \notin {"absent", "allocated"} \cup Probing
      /\ "down" \in States \ {"absent", "allocated"}
      /\ Become(a, "down") /\ Fault /\ UNCHANGED <<table, queueNum, proc, calm>>
  BY DEF Close, Probing, States
<1> QED BY <1>1, BecomeInv

LEMMA ResizeInv ==
  ASSUME AdaptersInv, NEW a \in Nics, Resize(a)
  PROVE  AdaptersInv'
<1>0. TypeOK /\ NicInv
  BY DEF AdaptersInv
<1>1. PICK new \in (SUBSET Dirs) \ {{}} :
        nic' = [nic EXCEPT ![a].gen = [d \in Dirs |-> IF d \in new THEN @[d] + 1 ELSE @[d]]] /\ Fault
  BY DEF Resize
<1> DEFINE gen == [d \in Dirs |-> IF d \in new THEN nic[a].gen[d] + 1 ELSE nic[a].gen[d]]
<1>2. nic[a].state = "up" /\ UNCHANGED <<table, queueNum, proc, calm>>
  BY DEF Resize
<1>3. NicGoes(a, "up", nic[a].addr, nic[a].n, gen, nic[a].done)
  <2>1. nic[a] \in NicType /\ nic' = [nic EXCEPT ![a] = [nic[a] EXCEPT !.gen = gen]]
    BY <1>0, <1>1 DEF TypeOK
  <2> HIDE DEF gen
  <2>2. [nic[a] EXCEPT !.gen = gen] = Nic("up", nic[a].addr, nic[a].n, gen, nic[a].done)
    BY <1>2, <2>1 DEF NicType, Nic
  <2> QED BY <2>1, <2>2 DEF NicGoes
<1>4. faults' = faults + 1 /\ faults' <= MaxFaults
  BY <1>0, <1>1, FaultIs
<1>5. gen \in [Dirs -> Nat] /\ \A d \in Dirs : gen[d] \in 1..(faults' + 1)
  <2>1. faults \in Nat /\ \A d \in Dirs : nic[a].gen[d] \in 1..(faults + 1)
    BY <1>0, <1>2, GenIs
  <2> QED BY <1>4, <2>1
<1> HIDE DEF gen
<1>6. nic[a].n \in {1, Queues} /\ nic[a].done \in [Dirs -> 0..Queues]
      /\ \A d \in Dirs : nic[a].done[d] <= nic[a].n
  BY <1>0, <1>2, KnownIs, NicIs
<1>7. "up" \in States \ {"absent", "allocated"} /\ nic[a].state \notin {"absent", "allocated"} \cup Probing
  BY <1>2 DEF States, Probing
<1>8. Sound(a, "up", nic[a].addr, nic[a].n, gen, nic[a].done)
  BY <1>0, <1>2, <1>5, <1>6, <1>7, BecomeSound
<1>9. faults' \in {faults, faults + 1} /\ queueNum' \in {queueNum, Queues}
      /\ (nic[a].state \in Probing => "up" \in Probing)
  BY <1>2, <1>4, <1>7
<1> QED BY <1>2, <1>3, <1>4, <1>8, <1>9, NicOnly

-----------------------------------------------------------------------------
(* The steps of igb that register something. *)
LEMMA ProbeStartInv ==
  ASSUME AdaptersInv, NEW a \in Nics, ProbeStart(a)
  PROVE  AdaptersInv'
<1>0. TypeOK /\ NicInv /\ EntryInv /\ LooksInv /\ MapsInv /\ NumbersInv
  BY DEF AdaptersInv
<1>1. PICK addr \in Addrs \ {nic[b].addr : b \in Nics} :
        /\ nic' = [nic EXCEPT ![a] = [NoNic EXCEPT !.state = "allocated", !.addr = addr,
                                                   !.gen = nic[a].gen]]
        /\ AllocAdapter(addr, a)
  BY DEF ProbeStart
<1>2. nic[a].state = "absent" /\ UNCHANGED <<queueNum, proc, faults, calm>>
  BY DEF ProbeStart
<1>3. NicGoes(a, "allocated", addr, 0, nic[a].gen, Fresh)
  <2>1. NoNic = Nic("absent", None, 0, Fresh, Fresh)
    BY DEF NoNic, Nic, Fresh
  <2>2. WithGen(WithAddr(WithState(NoNic, "allocated"), addr), nic[a].gen) =
          Nic("allocated", addr, 0, nic[a].gen, Fresh)
    BY <2>1, NicWith
  <2>3. nic' = [nic EXCEPT ![a] = WithGen(WithAddr(WithState(NoNic, "allocated"), addr), nic[a].gen)]
    BY <1>1 DEF WithGen, WithAddr, WithState
  <2> QED BY <2>2, <2>3 DEF NicGoes
<1>4. Sound(a, "allocated", addr, 0, nic[a].gen, Fresh)
  <2>1. nic[a].gen \in [Dirs -> Nat] /\ \A d \in Dirs : nic[a].gen[d] \in 0..faults'
    BY <1>0, <1>2, GenIs DEF Opening
  <2> QED BY <1>1, <2>1, FreshIs DEF Sound, States, Opening, Probing
<1>5. faults' = faults /\ faults' <= MaxFaults
  BY <1>0, <1>2, FaultNot
<1>6. NicTypes' /\ NicInv'
  BY <1>0, <1>2, <1>3, <1>4, <1>5, NicStep
<1>7. /\ Grows /\ Len(table') = Len(table) + 1
      /\ \A i \in 1..Len(table) :
           /\ table'[i].mac = table[i].mac
           /\ table'[i].tx = table[i].tx /\ table'[i].rx = table[i].rx
           /\ table'[i].regs = IF i \in Entry(addr) THEN a ELSE table[i].regs
      /\ LET e == table'[Len(table) + 1] IN
           /\ e.addr = addr /\ e.tx = <<>> /\ e.rx = <<>>
           /\ Entry(addr) = {} => e.regs = a
  BY <1>0, <1>1, AllocIs
<1>8. TypeOK'
  BY <1>0, <1>2, <1>6, <1>7, TypesStay
<1>9. /\ Len(table) \in Nat /\ table \in Seq(EntryType) /\ DOMAIN table = 1..Len(table)
      /\ DOMAIN table' = 1..(Len(table) + 1)
      /\ \A i \in 1..Len(table) : table'[i].addr = table[i].addr
  BY <1>0, <1>7 DEF TypeOK, Grows
<1>10. LooksInv' /\ MapsInv' /\ NumbersInv'
  <2>1. ASSUME NEW i \in 1..Len(table), table'[i].regs # table[i].regs PROVE Twin(i)'
    <3>1. table[i].addr = addr
      <4>1. i \in Entry(addr)
        BY <1>7, <2>1
      <4> QED BY <4>1 DEF Entry
    <3>2. /\ Len(table) + 1 \in DOMAIN table' /\ Len(table) + 1 # i
          /\ table'[Len(table) + 1].addr = table'[i].addr
      BY <1>7, <1>9, <3>1
    <3> QED BY <3>2 DEF Twin
  <2> QED BY <1>0, <1>2, <1>7, <2>1, SightsStay
<1>11. /\ nic'[a].state = "allocated" /\ nic'[a].addr = addr
       /\ \A b \in Nics : b # a => nic'[b] = nic[b] /\ nic[b].addr # addr
  BY <1>0, <1>1, <1>3, NicGone
<1>12. EntryInv'
  <2> SUFFICES ASSUME NEW i \in 1..(Len(table) + 1)
               PROVE  IF Foremost(i)'
                        THEN \A b \in Nics : nic'[b].addr = table'[i].addr =>
                               table'[i].regs = b /\ (nic'[b].state \notin Probing => table'[i].mac = b)
                        ELSE table'[i].tx = <<>> /\ table'[i].rx = <<>>
    BY <1>9 DEF EntryInv
  <2>1. CASE i \in 1..Len(table)
    <3>1. Foremost(i)' <=> Foremost(i)
      BY <1>0, <1>7, <2>1, ForemostStays
    <3>2. IF Foremost(i)
            THEN \A b \in Nics : nic[b].addr = table[i].addr =>
                   table[i].regs = b /\ (nic[b].state \notin Probing => table[i].mac = b)
            ELSE table[i].tx = <<>> /\ table[i].rx = <<>>
      BY <1>0, <1>9, <2>1 DEF EntryInv
    <3>3. CASE ~Foremost(i)
      BY <1>7, <2>1, <3>1, <3>2, <3>3
    <3>4. CASE Foremost(i)
      <4> SUFFICES ASSUME NEW b \in Nics, nic'[b].addr = table'[i].addr
                   PROVE  table'[i].regs = b /\ (nic'[b].state \notin Probing => table'[i].mac = b)
        BY <3>1, <3>4
      <4>1. i \in Entry(addr) <=> table[i].addr = addr
        BY <1>9, <2>1, <3>4, EntryIs
      <4>2. CASE b = a
        BY <1>7, <1>9, <1>11, <2>1, <4>1, <4>2 DEF Probing
      <4>3. CASE b # a
        <5>1. nic[b].addr = table[i].addr /\ nic'[b].state = nic[b].state /\ table[i].addr # addr
          BY <1>9, <1>11, <2>1, <4>3
        <5> QED BY <1>7, <2>1, <3>2, <3>4, <4>1, <5>1
      <4> QED BY <4>2, <4>3
    <3> QED BY <3>3, <3>4
  <2>2. CASE i = Len(table) + 1
    <3>1. CASE ~Foremost(i)'
      BY <1>7, <2>2, <3>1
    <3>2. CASE Foremost(i)'
      <4>1. \A j \in 1..Len(table) : table[j].addr # addr
        <5>1. \A j \in 1..Len(table) : j \in 1..(i - 1)
          BY <1>9, <2>2
        <5> QED BY <1>7, <1>9, <2>2, <3>2, <5>1 DEF Foremost
      <4>2. Entry(addr) = {}
        BY <1>9, <4>1 DEF Entry
      <4>3. table'[i].regs = a /\ table'[i].addr = addr
        BY <1>7, <2>2, <4>2
      <4>4. \A b \in Nics : nic'[b].addr = table'[i].addr => b = a
        BY <1>11, <4>3
      <4> QED BY <1>11, <3>2, <4>3, <4>4 DEF Probing
    <3> QED BY <3>1, <3>2
  <2> QED BY <1>9, <2>1, <2>2
<1> QED BY <1>6, <1>8, <1>10, <1>12 DEF AdaptersInv

LEMMA ProbeMacInv ==
  ASSUME AdaptersInv, NEW a \in Nics, ProbeMac(a)
  PROVE  AdaptersInv'
<1>0. TypeOK /\ NicInv /\ EntryInv /\ LooksInv /\ MapsInv /\ NumbersInv
  BY DEF AdaptersInv
<1> DEFINE addr == nic[a].addr
<1>1. /\ nic[a].state = "initialised" /\ AddMac(addr, a) /\ UNCHANGED <<queueNum, proc, calm>>
      /\ (Become(a, "down") /\ UNCHANGED faults) \/ (Freed(a) /\ Fault)
  BY DEF ProbeMac
<1>2. NicTypes' /\ NicInv' /\ nic'[a].addr \in {addr, None} /\ \A b \in Nics : b # a => nic'[b] = nic[b]
  <2>1. CASE Become(a, "down") /\ UNCHANGED faults
    <3>1. NicGoes(a, "down", addr, nic[a].n, nic[a].gen, nic[a].done)
      BY <1>0, <2>1, BecomeIs
    <3>2. nic[a].n \in {1, Queues} /\ nic[a].gen \in [Dirs -> Nat] /\ nic[a].done \in [Dirs -> 0..Queues]
          /\ \A d \in Dirs : nic[a].done[d] <= nic[a].n
      BY <1>0, <1>1, KnownIs, NicIs, GenIs
    <3>3. faults' = faults /\ faults' <= MaxFaults
      BY <1>0, <2>1, FaultNot
    <3>4. \A d \in Dirs : nic[a].gen[d] \in 0..faults'
      BY <1>0, <1>1, <3>3, GenIs DEF Opening
    <3>5. "down" \in States \ {"absent", "allocated"} /\ "down" \notin Opening \cup {"up"}
      BY DEF States, Opening
    <3>6. Sound(a, "down", addr, nic[a].n, nic[a].gen, nic[a].done)
      BY <1>0, <1>1, <3>2, <3>4, <3>5, BecomeSound
    <3> QED BY <1>0, <1>1, <3>1, <3>3, <3>6, NicStep, NicGone
  <2>2. CASE Freed(a) /\ Fault
    <3>1. NicGoes(a, "absent", None, 0, nic[a].gen, Fresh)
      BY <1>0, <2>2, FreedIs
    <3>2. Sound(a, "absent", None, 0, nic[a].gen, Fresh)
      BY <1>0, <2>2, FreedSound
    <3>3. faults' = faults + 1 /\ faults' <= MaxFaults
      BY <1>0, <2>2, FaultIs
    <3> QED BY <1>0, <1>1, <3>1, <3>2, <3>3, NicStep, NicGone
  <2> QED BY <1>1, <2>1, <2>2
<1>3. /\ Grows /\ Len(table') = Len(table)
      /\ \A i \in 1..Len(table) :
           /\ table'[i].regs = table[i].regs
           /\ table'[i].tx = table[i].tx /\ table'[i].rx = table[i].rx
           /\ table'[i].mac = IF i \in Entry(addr) THEN a ELSE table[i].mac
  BY <1>0, <1>1, MacIs
<1>4. TypeOK'
  BY <1>0, <1>1, <1>2, <1>3, TypesStay
<1>5. LooksInv' /\ MapsInv' /\ NumbersInv'
  BY <1>0, <1>1, <1>3, SightsStay
<1>6. /\ table \in Seq(EntryType) /\ DOMAIN table = 1..Len(table) /\ DOMAIN table' = 1..Len(table)
      /\ \A i \in 1..Len(table) : table'[i].addr = table[i].addr /\ table[i].addr # None
  <2>1. table \in Seq(EntryType) /\ DOMAIN table = 1..Len(table) /\ DOMAIN table' = 1..Len(table)
        /\ \A i \in 1..Len(table) : table'[i].addr = table[i].addr
    BY <1>0, <1>3 DEF TypeOK, Grows
  <2> QED BY <2>1, TableIs, AdaptersAssumption
<1>7. EntryInv'
  <2> SUFFICES ASSUME NEW i \in 1..Len(table)
               PROVE  IF Foremost(i)'
                        THEN \A b \in Nics : nic'[b].addr = table'[i].addr =>
                               table'[i].regs = b /\ (nic'[b].state \notin Probing => table'[i].mac = b)
                        ELSE table'[i].tx = <<>> /\ table'[i].rx = <<>>
    BY <1>6 DEF EntryInv
  <2>1. Foremost(i)' <=> Foremost(i)
    BY <1>0, <1>3, ForemostStays
  <2>2. IF Foremost(i)
          THEN \A b \in Nics : nic[b].addr = table[i].addr =>
                 table[i].regs = b /\ (nic[b].state \notin Probing => table[i].mac = b)
          ELSE table[i].tx = <<>> /\ table[i].rx = <<>>
    BY <1>0, <1>6 DEF EntryInv
  <2>3. CASE ~Foremost(i)
    BY <1>3, <2>1, <2>2, <2>3
  <2>4. CASE Foremost(i)
    <3> SUFFICES ASSUME NEW b \in Nics, nic'[b].addr = table'[i].addr
                 PROVE  table'[i].regs = b /\ (nic'[b].state \notin Probing => table'[i].mac = b)
      BY <2>1, <2>4
    <3>1. i \in Entry(addr) <=> table[i].addr = addr
      BY <1>6, <2>4, EntryIs
    <3>2. nic[b].addr = table[i].addr
      BY <1>2, <1>6
    <3>3. table'[i].regs = b
      BY <1>3, <2>2, <2>4, <3>2
    <3>4. CASE b = a
      BY <1>3, <3>1, <3>2, <3>3, <3>4
    <3>5. CASE b # a
      <4>1. nic'[b] = nic[b] /\ nic[b].addr # addr
        BY <1>0, <1>2, <1>6, <3>2, <3>5 DEF TypeOK
      <4> QED BY <1>3, <2>2, <2>4, <3>1, <3>2, <3>3, <4>1
    <3> QED BY <3>4, <3>5
  <2> QED BY <2>3, <2>4
<1> QED BY <1>2, <1>4, <1>5, <1>7 DEF AdaptersInv

(* A ring is set up, or not. *)
LEMMA SetupRingInv ==
  ASSUME AdaptersInv, NEW a \in Nics, NEW d \in Dirs, SetupRing(a, d)
  PROVE  AdaptersInv'
<1> DEFINE done == [nic[a].done EXCEPT ![d] = @ + 1]
           page == <<a, d, nic[a].done[d], nic[a].gen[d]>>
<1>0. TypeOK /\ NicInv /\ EntryInv /\ LooksInv /\ MapsInv /\ NumbersInv
  BY DEF AdaptersInv
<1>1. /\ nic[a].state \in Opening /\ nic[a].done[d] < nic[a].n /\ UNCHANGED <<queueNum, proc, calm>>
      /\ \/ AddDesc(nic[a].addr, d, page) /\ nic' = [nic EXCEPT ![a].done[d] = @ + 1] /\ UNCHANGED faults
         \/ Become(a, "down") /\ UNCHANGED table /\ Fault
         \/ nic' = [nic EXCEPT ![a].done[d] = @ + 1] /\ UNCHANGED table /\ Fault
  BY DEF SetupRing
<1>2. nic[a].state \notin {"absent", "allocated"} \cup Probing
  BY <1>1 DEF Opening, Probing
<1>3. /\ nic[a].n \in {1, Queues} /\ nic[a].addr \in Addrs /\ queueNum = Queues
      /\ nic[a].done \in [Dirs -> 0..Queues] /\ \A e \in Dirs : nic[a].done[e] <= nic[a].n
      /\ Queues \in Nat \ {0}
  BY <1>0, <1>2, KnownIs, NicIs, AdaptersAssumption
<1>4. CASE Become(a, "down") /\ UNCHANGED table /\ Fault
  <2>1. "down" \in States \ {"absent", "allocated"}
    BY DEF States
  <2> QED BY <1>1, <1>2, <1>4, <2>1, BecomeInv
<1>5. done \in [Dirs -> 0..Queues] /\ \A e \in Dirs : done[e] <= nic[a].n
  <2>1. nic[a].done[d] + 1 \in 0..Queues /\ nic[a].done[d] + 1 <= nic[a].n
    BY <1>1, <1>3
  <2> QED BY <1>3, <2>1
<1>6. ASSUME nic' = [nic EXCEPT ![a].done[d] = @ + 1], Fault \/ UNCHANGED faults
      PROVE  /\ NicGoes(a, nic[a].state, nic[a].addr, nic[a].n, nic[a].gen, done)
             /\ Sound(a, nic[a].state, nic[a].addr, nic[a].n, nic[a].gen, done)
             /\ faults' \in {faults, faults + 1} /\ faults' <= MaxFaults
  <2>1. nic' = [nic EXCEPT ![a] = WithDone(nic[a], done)]
    BY <1>6 DEF WithDone
  <2> HIDE DEF done
  <2>2. WithDone(nic[a], done) = Nic(nic[a].state, nic[a].addr, nic[a].n, nic[a].gen, done)
    BY <1>0, NicIs, NicWith
  <2>3. faults' \in {faults, faults + 1} /\ faults' <= MaxFaults
    BY <1>0, <1>6, FaultIs, FaultNot
  <2>4. nic[a].gen \in [Dirs -> Nat] /\ \A e \in Dirs : nic[a].gen[e] \in 1..(faults' + 1)
    <3>1. faults \in Nat /\ nic[a].gen \in [Dirs -> Nat] /\ \A e \in Dirs : nic[a].gen[e] \in 1..(faults + 1)
      BY <1>0, <1>1, GenIs
    <3> QED BY <2>3, <3>1
  <2>5. nic[a].state \in States \ {"absent", "allocated"} /\ nic[a].state \in Opening \cup {"up"}
    BY <1>0, <1>1, <1>2, NicIs
  <2>6. Sound(a, nic[a].state, nic[a].addr, nic[a].n, nic[a].gen, done)
    BY <1>0, <1>1, <1>2, <1>3, <1>5, <2>4, <2>5, BecomeSound
  <2> QED BY <2>1, <2>2, <2>3, <2>6 DEF NicGoes
<1>7. CASE nic' = [nic EXCEPT ![a].done[d] = @ + 1] /\ UNCHANGED table /\ Fault
  <2> HIDE DEF done
  <2> QED BY <1>1, <1>6, <1>7, NicOnly
<1>8. CASE AddDesc(nic[a].addr, d, page) /\ nic' = [nic EXCEPT ![a].done[d] = @ + 1] /\ UNCHANGED faults
  <2>1. page \in Pages
    <3>1. nic[a].gen[d] \in 1..(faults + 1) /\ faults + 1 \in 1..(MaxFaults + 1)
      BY <1>0, <1>1, GenIs DEF TypeOK
    <3>2. nic[a].gen[d] \in 1..(MaxFaults + 1) /\ nic[a].done[d] \in 0..Queues
      BY <1>0, <1>3, <3>1, GenIs
    <3> QED BY <3>2 DEF Pages
  <2> HIDE DEF done, page
  <2>2. /\ Grows /\ Len(table') = Len(table)
        /\ \A i \in 1..Len(table) :
             /\ table'[i].regs = table[i].regs /\ table'[i].mac = table[i].mac
             /\ i \notin Entry(nic[a].addr) => table'[i].tx = table[i].tx /\ table'[i].rx = table[i].rx
    BY <1>0, <1>8, <2>1, RingIs
  <2>3. /\ NicGoes(a, nic[a].state, nic[a].addr, nic[a].n, nic[a].gen, done)
        /\ Sound(a, nic[a].state, nic[a].addr, nic[a].n, nic[a].gen, done)
        /\ faults' \in {faults, faults + 1} /\ faults' <= MaxFaults
    BY <1>6, <1>8
  <2>4. NicTypes' /\ NicInv'
    BY <1>0, <1>1, <2>3, NicStep
  <2>5. TypeOK'
    BY <1>0, <1>1, <2>2, <2>4, TypesStay
  <2>6. LooksInv' /\ MapsInv' /\ NumbersInv'
    BY <1>0, <1>1, <2>2, SightsStay
  <2>7. /\ nic'[a].state = nic[a].state /\ nic'[a].addr = nic[a].addr
        /\ \A b \in Nics : b # a => nic'[b] = nic[b]
    BY <1>0, <2>3, NicGone
  <2>8. \A i \in 1..Len(table) : ~Foremost(i) => i \notin Entry(nic[a].addr)
    <3>1. table \in Seq(EntryType) /\ DOMAIN table = 1..Len(table)
      BY <1>0 DEF TypeOK
    <3> QED BY <3>1, EntryIs
  <2>9. \A b \in Nics : nic'[b].addr = nic[b].addr /\ nic'[b].state = nic[b].state
    BY <2>7
  <2>10. EntryInv'
    BY <1>0, <2>2, <2>8, <2>9, EntriesStay
  <2> QED BY <2>4, <2>5, <2>6, <2>10 DEF AdaptersInv
<1> QED BY <1>1, <1>4, <1>7, <1>8

-----------------------------------------------------------------------------
(* A complete table. *)
RingsFor(a, d, g) == [k \in 1..Queues |-> <<a, d, k - 1, g>>]
Described(i) ==
  /\ table[i].regs \in Nics /\ table[i].mac = table[i].regs
  /\ \E g \in 1..(MaxFaults + 1) : table[i].tx = RingsFor(table[i].regs, "tx", g)
  /\ \E g \in 1..(MaxFaults + 1) : table[i].rx = RingsFor(table[i].regs, "rx", g)

LEMMA OwnerIs ==
  ASSUME TypeOK, NicInv, EntryInv, Complete, NEW i \in DOMAIN table
  PROVE  \E a \in Nics :
           /\ nic[a].addr = table[i].addr /\ Foremost(i) /\ Described(i)
           /\ table[i].regs = a /\ queueNum = Queues
<1>0. Queues \in Nat \ {0}
  BY AdaptersAssumption
<1>1. PICK a \in Nics : Describes(table[i], a)
  BY DEF Complete
<1>2. /\ nic[a].state = "up" /\ nic[a].addr = table[i].addr /\ nic[a].n = queueNum
      /\ \A d \in Dirs : table[i][d] = RingsOf(a, d)
  BY <1>1 DEF Describes
<1>3. queueNum = Queues /\ nic[a].n = Queues
  BY <1>2, KnownIs
<1>4. table[i].tx = RingsOf(a, "tx") /\ table[i].rx = RingsOf(a, "rx")
  BY <1>2 DEF Dirs
<1>5. \A d \in Dirs : nic[a].gen[d] \in 1..(MaxFaults + 1)
  <2>1. \A d \in Dirs : nic[a].gen[d] \in 1..(faults + 1)
    BY <1>2, GenIs
  <2>2. faults \in Nat /\ MaxFaults \in Nat /\ faults <= MaxFaults
    BY AdaptersAssumption DEF TypeOK
  <2> QED BY <2>1, <2>2
<1>6. RingsOf(a, "tx") = RingsFor(a, "tx", nic[a].gen["tx"]) /\ RingsOf(a, "rx") = RingsFor(a, "rx", nic[a].gen["rx"])
  BY <1>3 DEF RingsOf, RingsFor
<1>7. Foremost(i)
  <2>1. RingsFor(a, "tx", nic[a].gen["tx"]) # <<>>
    <3>1. DOMAIN RingsFor(a, "tx", nic[a].gen["tx"]) = 1..Queues /\ 1 \in 1..Queues /\ DOMAIN <<>> = {}
      BY <1>0 DEF RingsFor
    <3> QED BY <3>1
  <2> QED BY <1>4, <1>6, <2>1 DEF EntryInv
<1>8. table[i].regs = a /\ table[i].mac = a
  BY <1>2, <1>7 DEF EntryInv, Probing
<1>9. Described(i)
  BY <1>4, <1>5, <1>6, <1>8 DEF Described, Dirs
<1> QED BY <1>2, <1>3, <1>7, <1>8, <1>9

LEMMA CompleteIs ==
  ASSUME TypeOK, NicInv, EntryInv, Complete, NEW i \in DOMAIN table
  PROVE  /\ Described(i) /\ queueNum = Queues /\ ~Twin(i)
         /\ \A j \in DOMAIN table : table[i].regs = table[j].regs => i = j
<1>0. table \in Seq(EntryType) /\ Len(table) \in Nat /\ DOMAIN table = 1..Len(table)
  BY DEF TypeOK
<1>1. Described(i) /\ queueNum = Queues
  BY OwnerIs
<1>2. ASSUME NEW j \in DOMAIN table, table[j].addr = table[i].addr PROVE j = i
  <2>1. Foremost(i) /\ Foremost(j)
    BY OwnerIs
  <2>2. CASE i < j
    <3>1. i \in 1..(j - 1)
      BY <1>0, <2>2
    <3> QED BY <1>2, <2>1, <3>1 DEF Foremost
  <2>3. CASE j < i
    <3>1. j \in 1..(i - 1)
      BY <1>0, <2>3
    <3> QED BY <1>2, <2>1, <3>1 DEF Foremost
  <2> QED BY <1>0, <2>2, <2>3
<1>3. ~Twin(i)
  BY <1>2 DEF Twin
<1>4. ASSUME NEW j \in DOMAIN table, table[i].regs = table[j].regs PROVE i = j
  <2>1. table[i].addr = table[j].addr
    BY <1>4, OwnerIs
  <2> QED BY <1>2, <2>1
<1> QED BY <1>1, <1>3, <1>4

-----------------------------------------------------------------------------
(* The pages of all adapters, one after the other. *)
LEMMA AllDescsGiven ==
  ASSUME TypeOK
  PROVE  \E f : /\ f \in [0..Len(table) -> Seq(Pages)] /\ f[0] = <<>>
                /\ \A k \in 1..Len(table) : f[k] = f[k - 1] \o DescArea(k)
                /\ AllDescs = f[Len(table)]
<1> DEFINE n == Len(table)
           S == Seq(Pages)
           step == [ks \in (1..n) \X S |-> ks[2] \o DescArea(ks[1])]
           Def(f) == f = [i \in 0..n |-> IF i = 0 THEN <<>> ELSE f[i - 1] \o DescArea(i)]
           upTo == CHOOSE f : Def(f)
<1>0. n \in Nat /\ table \in Seq(EntryType) /\ DOMAIN table = 1..n
  BY DEF TypeOK
<1>1. \A k \in 1..n : DescArea(k) \in S
  <2> TAKE k \in 1..n
  <2>1. table[k].tx \in Seq(Pages) /\ table[k].rx \in Seq(Pages)
    BY <1>0, TableIs
  <2> QED BY <2>1 DEF DescArea
<1> HIDE DEF n
<1>2. Steps(step, n, S) /\ <<>> \in S
  <2>1. ASSUME NEW k \in 1..n, NEW x \in S PROVE step[<<k, x>>] = x \o DescArea(k) /\ x \o DescArea(k) \in S
    <3>1. <<k, x>> \in (1..n) \X S
      OBVIOUS
    <3>2. DescArea(k) \in S
      BY <1>1
    <3> QED BY <3>1, <3>2
  <2>2. <<>> \in S
    OBVIOUS
  <2> HIDE DEF step, S
  <2>3. Steps(step, n, S)
    BY <2>1 DEF Steps
  <2> QED BY <2>2, <2>3
<1>3. PICK f : Recurs(f, n, S, <<>>, step)
  <2> HIDE DEF step, S
  <2> QED BY <1>0, <1>2, Recursion
<1>4. /\ f \in [0..n -> S] /\ f[0] = <<>>
      /\ \A k \in 1..n : f[k] = f[k - 1] \o DescArea(k)
  <2>1. f \in [0..n -> S] /\ f[0] = <<>> /\ \A k \in 1..n : f[k] = step[<<k, f[k - 1]>>]
    BY <1>3 DEF Recurs
  <2>2. ASSUME NEW k \in 1..n PROVE step[<<k, f[k - 1]>>] = f[k - 1] \o DescArea(k)
    <3>1. k - 1 \in 0..n
      BY <1>0
    <3>2. f[k - 1] \in S
      <4> HIDE DEF S
      <4> QED BY <2>1, <3>1
    <3> HIDE DEF S
    <3>3. <<k, f[k - 1]>> \in (1..n) \X S
      BY <3>2
    <3> QED BY <3>3
  <2> HIDE DEF step
  <2> QED BY <2>1, <2>2
<1> HIDE DEF step, S
<1>5. Def(f)
  <2>1. f = [i \in 0..n |-> f[i]]
    BY <1>4
  <2>2. \A i \in 0..n : f[i] = IF i = 0 THEN <<>> ELSE f[i - 1] \o DescArea(i)
    <3> TAKE i \in 0..n
    <3>1. i = 0 \/ i \in 1..n
      BY <1>0
    <3> QED BY <1>4, <3>1
  <2> QED BY <2>1, <2>2
<1>6. Def(upTo)
  <2> HIDE DEF Def
  <2> QED BY <1>5
<1>7. AllDescs = upTo[n]
  BY DEF AllDescs, n
<1> HIDE DEF upTo
<1>8. \A i \in 0..n : upTo[i] = IF i = 0 THEN <<>> ELSE upTo[i - 1] \o DescArea(i)
  BY <1>6
<1> DEFINE K == {i \in 0..n : upTo[i] = f[i]}
<1>9. 0 \in K
  BY <1>0, <1>4, <1>8
<1>10. ASSUME NEW k \in 0..(n - 1), k \in K PROVE k + 1 \in K
  <2>1. k + 1 \in 1..n /\ k + 1 \in 0..n /\ k + 1 # 0 /\ (k + 1) - 1 = k
    BY <1>0
  <2>2. upTo[k + 1] = upTo[k] \o DescArea(k + 1) /\ f[k + 1] = f[k] \o DescArea(k + 1)
    BY <1>4, <1>8, <2>1
  <2> QED BY <1>10, <2>1, <2>2
<1> HIDE DEF K
<1>11. n \in K
  BY <1>0, <1>9, <1>10, UpTo
<1>12. upTo[n] = f[n]
  BY <1>11 DEF K
<1> QED BY <1>4, <1>7, <1>12 DEF n, S

LEMMA SeqJoined ==
  ASSUME NEW S, NEW s \in Seq(S), NEW t \in Seq(S)
  PROVE  /\ Len(s \o t) = Len(s) + Len(t)
         /\ \A i \in 1..Len(s) : (s \o t)[i] = s[i]
         /\ \A m \in 1..Len(t) : (s \o t)[Len(s) + m] = t[m]
OBVIOUS

(* Where one begins. *)
LEMMA Times ==
  ASSUME NEW w \in Nat
  PROVE  \A i \in Nat : /\ i * w \in Nat /\ (i + 1) * w = i * w + w
                        /\ i # 0 => i * w >= w
OBVIOUS

LEMMA AllDescsIs ==
  ASSUME TypeOK, NEW w \in Nat, \A i \in DOMAIN table : Len(DescArea(i)) = w
  PROVE  /\ Len(AllDescs) = Len(table) * w
         /\ \A i \in DOMAIN table, m \in 1..w : AllDescs[(i - 1) * w + m] = DescArea(i)[m]
<1> DEFINE n == Len(table)
<1>0. n \in Nat /\ table \in Seq(EntryType) /\ DOMAIN table = 1..n
  BY DEF TypeOK
<1>1. PICK f : /\ f \in [0..n -> Seq(Pages)] /\ f[0] = <<>>
               /\ \A k \in 1..n : f[k] = f[k - 1] \o DescArea(k)
               /\ AllDescs = f[n]
  BY AllDescsGiven
<1>2. \A k \in 1..n : DescArea(k) \in Seq(Pages) /\ Len(DescArea(k)) = w
  <2> TAKE k \in 1..n
  <2>1. table[k].tx \in Seq(Pages) /\ table[k].rx \in Seq(Pages)
    BY <1>0, TableIs
  <2>2. DescArea(k) \in Seq(Pages)
    BY <2>1 DEF DescArea
  <2> QED BY <1>0, <2>2
<1> HIDE DEF n
<1> DEFINE PagedIn(k) == /\ Len(f[k]) = k * w
                       /\ \A i \in 1..k, m \in 1..w : f[k][(i - 1) * w + m] = DescArea(i)[m]
           K == {k \in 0..n : PagedIn(k)}
<1>3. 0 \in K
  <2>1. 0 * w = 0
    BY Times
  <2> QED BY <1>0, <1>1, <2>1
<1>4. ASSUME NEW k \in 0..(n - 1), k \in K PROVE k + 1 \in K
  <2>0. k \in Nat /\ k \in 0..n /\ k + 1 \in 1..n /\ k + 1 \in 0..n /\ (k + 1) - 1 = k
    BY <1>0
  <2>1. k * w \in Nat /\ (k + 1) * w = k * w + w
    BY <2>0, Times
  <2>2. f[k] \in Seq(Pages) /\ Len(f[k]) = k * w
    BY <1>1, <1>4, <2>0
  <2>3. f[k + 1] = f[k] \o DescArea(k + 1)
    BY <1>1, <2>0
  <2>4. DescArea(k + 1) \in Seq(Pages) /\ Len(DescArea(k + 1)) = w
    BY <1>2, <2>0
  <2>j. /\ Len(f[k + 1]) = k * w + w
        /\ \A i \in 1..(k * w) : f[k + 1][i] = f[k][i]
        /\ \A m \in 1..w : f[k + 1][k * w + m] = DescArea(k + 1)[m]
    <3> DEFINE s == f[k]
               t == DescArea(k + 1)
    <3>0. /\ s \in Seq(Pages) /\ t \in Seq(Pages) /\ Len(s) = k * w /\ Len(t) = w
          /\ f[k + 1] = s \o t
      BY <2>2, <2>3, <2>4
    <3> HIDE DEF s, t
    <3>1. /\ Len(s \o t) = Len(s) + Len(t)
          /\ \A i \in 1..Len(s) : (s \o t)[i] = s[i]
          /\ \A m \in 1..Len(t) : (s \o t)[Len(s) + m] = t[m]
      <4>1. s \in Seq(Pages) /\ t \in Seq(Pages)
        BY <3>0
      <4> QED BY <4>1, SeqJoined
    <3>2. /\ Len(f[k + 1]) = k * w + w
          /\ \A i \in 1..(k * w) : f[k + 1][i] = s[i]
          /\ \A m \in 1..w : f[k + 1][k * w + m] = t[m]
      BY <3>0, <3>1
    <3> QED BY <3>2 DEF s, t
  <2>5. Len(f[k + 1]) = (k + 1) * w
    BY <2>1, <2>j
  <2>6. ASSUME NEW i \in 1..(k + 1), NEW m \in 1..w
        PROVE  f[k + 1][(i - 1) * w + m] = DescArea(i)[m]
    <3>1. CASE i = k + 1
      <4>1. (i - 1) * w + m = k * w + m
        BY <2>0, <3>1
      <4>2. f[k + 1][k * w + m] = DescArea(k + 1)[m]
        BY <2>j
      <4> QED BY <3>1, <4>1, <4>2
    <3>2. CASE i \in 1..k
      <4> DEFINE x == (i - 1) * w
      <4>1. x \in Nat /\ x + w <= k * w
        <5>1. i - 1 \in Nat /\ k - i \in Nat /\ k - (i - 1) = (k - i) + 1
          BY <2>0, <3>2
        <5>2. (k - i) * w \in Nat /\ x \in Nat
          BY <5>1, Times
        <5>3. k * w = x + ((k - i) * w + w)
          BY <2>0, <3>2
        <5> QED BY <5>2, <5>3
      <4> HIDE DEF x
      <4>2. x + m \in 1..(k * w)
        BY <2>1, <4>1
      <4>3. f[k + 1][x + m] = f[k][x + m]
        BY <2>j, <4>2
      <4>4. f[k][x + m] = DescArea(i)[m]
        BY <1>4, <3>2 DEF x
      <4> QED BY <4>3, <4>4 DEF x
    <3> QED BY <2>0, <3>1, <3>2
  <2>7. PagedIn(k + 1)
    BY <2>5, <2>6
  <2> QED BY <2>0, <2>7
<1> HIDE DEF K
<1>5. n \in K
  BY <1>0, <1>3, <1>4, UpTo
<1>6. PagedIn(n)
  BY <1>5 DEF K
<1> QED BY <1>0, <1>1, <1>6 DEF n

-----------------------------------------------------------------------------
(* What a process is given to map. *)
LEMMA IsArea ==
  ASSUME NEW k \in {"none", "regs", "descs", "buffers"}, NEW s \in Seq(Some \cup Pages)
  PROVE  [kind |-> k, of |-> s] \in AreaType
BY DEF AreaType

LEMMA MmapTyped ==
  ASSUME TypeOK, NEW pages \in Nat
  PROVE  Mmap(pages) \in AreaType
<1>0. table \in Seq(EntryType) /\ Len(table) \in Nat /\ DOMAIN table = 1..Len(table)
  BY DEF TypeOK
<1>1. <<>> \in Seq(Some \cup Pages)
  OBVIOUS
<1>2. [kind |-> "none", of |-> <<>>] \in AreaType /\ [kind |-> "buffers", of |-> <<>>] \in AreaType
  BY <1>1, IsArea
<1>3. [kind |-> "regs", of |-> [i \in DOMAIN table |-> table[i].regs]] \in AreaType
  <2> DEFINE s == [i \in DOMAIN table |-> table[i].regs]
  <2>1. \A i \in 1..Len(table) : table[i].regs \in Some \cup Pages
    BY <1>0, TableIs
  <2>2. s \in [1..Len(table) -> Some \cup Pages]
    BY <1>0, <2>1
  <2>3. s \in Seq(Some \cup Pages)
    <3> HIDE DEF s
    <3> QED BY <1>0, <2>2, IsSeq
  <2>4. [kind |-> "regs", of |-> s] \in AreaType
    <3> HIDE DEF s
    <3> QED BY <2>3, IsArea
  <2> QED BY <2>4
<1>4. [kind |-> "descs", of |-> [i \in 1..pages |-> IF i <= Len(AllDescs) THEN AllDescs[i] ELSE None]] \in AreaType
  <2> DEFINE s == [i \in 1..pages |-> IF i <= Len(AllDescs) THEN AllDescs[i] ELSE None]
  <2>1. AllDescs \in Seq(Pages)
    <3>1. Len(table) \in 0..Len(table)
      BY <1>0
    <3> QED BY <3>1, AllDescsGiven
  <2>2. \A i \in 1..pages : i <= Len(AllDescs) => AllDescs[i] \in Pages
    <3>1. \A i \in 1..Len(AllDescs) : AllDescs[i] \in Pages
      BY <2>1
    <3> QED BY <3>1
  <2>3. \A i \in 1..pages : s[i] \in Some \cup Pages
    BY <2>2 DEF Some
  <2>4. s \in [1..pages -> Some \cup Pages]
    BY <2>3
  <2>5. s \in Seq(Some \cup Pages)
    <3> HIDE DEF s
    <3> QED BY <2>4, IsSeq
  <2>6. [kind |-> "descs", of |-> s] \in AreaType
    <3> HIDE DEF s
    <3> QED BY <2>5, IsArea
  <2> QED BY <2>6
<1> QED BY <1>2, <1>3, <1>4 DEF Mmap, NoArea

LEMMA Less ==
  ASSUME NEW n \in Nat \ {0}, NEW x \in Nat, NEW y \in Nat, x < y
  PROVE  n * x < n * y /\ n * x \in Nat /\ n * y \in Nat /\ n * y # 0
<1>1. n * y = n * x + n * (y - x)
  OBVIOUS
<1>2. n * (y - x) >= n
  OBVIOUS
<1>3. n * x \in Nat
  OBVIOUS
<1> QED BY <1>1, <1>2, <1>3

LEMMA MmapRegs ==
  ASSUME TypeOK, table # <<>>
  PROVE  Mmap(Len(table) * RegsPages).of = [i \in DOMAIN table |-> table[i].regs]
<1>1. Len(table) \in Nat \ {0} /\ RegsPages \in Nat /\ 0 < RegsPages
  BY AdaptersAssumption DEF TypeOK
<1>2. Len(table) * RegsPages # 0
  BY <1>1, Less
<1> QED BY <1>2 DEF Mmap

LEMMA MmapDescs ==
  ASSUME TypeOK, table # <<>>, Len(table[1].rx) = Queues
  PROVE  Mmap(Len(table) * Queues * 2).of =
           [i \in 1..(Len(table) * Queues * 2) |-> IF i <= Len(AllDescs) THEN AllDescs[i] ELSE None]
<1>1. /\ Len(table) \in Nat \ {0} /\ RegsPages \in Nat /\ Queues \in Nat \ {0}
      /\ 2 * Queues < RegsPages
  BY AdaptersAssumption DEF TypeOK
<1> DEFINE pages == Len(table) * Queues * 2
<1>2. pages = Len(table) * (2 * Queues)
  BY <1>1
<1>3. 2 * Queues \in Nat /\ 0 \in Nat /\ 0 < 2 * Queues
  BY <1>1
<1>4. Len(table) * (2 * Queues) < Len(table) * RegsPages
  BY <1>1, <1>3, Less
<1>5. Len(table) * (2 * Queues) # 0 /\ Len(table) * (2 * Queues) \in Nat /\ Len(table) * RegsPages \in Nat
  BY <1>1, <1>3, Less
<1>6. pages # 0 /\ pages # Len(table) * RegsPages
  BY <1>2, <1>4, <1>5
<1>7. pages = Len(table) * Len(table[1].rx) * 2
  OBVIOUS
<1> HIDE DEF pages
<1>8. Mmap(pages).of = [i \in 1..pages |-> IF i <= Len(AllDescs) THEN AllDescs[i] ELSE None]
  BY <1>6, <1>7 DEF Mmap
<1> QED BY <1>8 DEF pages

(* The rings of a complete table, where they are. *)
LEMMA RingPlaces ==
  ASSUME TypeOK, NicInv, EntryInv, Complete, NEW i \in DOMAIN table, NEW p \in 0..(Queues - 1)
  PROVE  /\ Len(table[i].rx) = Queues /\ Len(AllDescs) = Len(table) * (2 * Queues)
         /\ \E g \in 1..(MaxFaults + 1) :
              AllDescs[(i - 1) * (2 * Queues) + (p + 1)] = <<table[i].regs, "tx", p, g>>
         /\ \E g \in 1..(MaxFaults + 1) :
              AllDescs[(i - 1) * (2 * Queues) + (Queues + p + 1)] = <<table[i].regs, "rx", p, g>>
<1>0. Queues \in Nat \ {0} /\ 2 * Queues \in Nat
  BY AdaptersAssumption
<1>1. ASSUME NEW j \in DOMAIN table
      PROVE  /\ \E g \in 1..(MaxFaults + 1) : table[j].tx = RingsFor(table[j].regs, "tx", g)
             /\ \E g \in 1..(MaxFaults + 1) : table[j].rx = RingsFor(table[j].regs, "rx", g)
             /\ table[j].tx \in Seq(Pages) /\ table[j].rx \in Seq(Pages)
             /\ Len(table[j].tx) = Queues /\ Len(table[j].rx) = Queues
  <2>1. Described(j)
    BY CompleteIs
  <2>2. table[j].tx \in Seq(Pages) /\ table[j].rx \in Seq(Pages)
    BY TableIs DEF TypeOK
  <2>3. \A a, d, g : DOMAIN RingsFor(a, d, g) = 1..Queues
    BY DEF RingsFor
  <2>4. DOMAIN table[j].tx = 1..Queues /\ DOMAIN table[j].rx = 1..Queues
    BY <2>1, <2>3 DEF Described
  <2>5. Len(table[j].tx) = Queues /\ Len(table[j].rx) = Queues
    BY <1>0, <2>2, <2>4
  <2> QED BY <2>1, <2>2, <2>5 DEF Described
<1>2. ASSUME NEW j \in DOMAIN table
      PROVE  /\ Len(DescArea(j)) = 2 * Queues
             /\ \A m \in 1..Queues : DescArea(j)[m] = table[j].tx[m] /\ DescArea(j)[Queues + m] = table[j].rx[m]
  <2> DEFINE s == table[j].tx
             t == table[j].rx
  <2>1. s \in Seq(Pages) /\ t \in Seq(Pages)
    BY <1>1
  <2>2. Len(s) = Queues /\ Len(t) = Queues
    BY <1>1
  <2>3. DescArea(j) = s \o t
    BY DEF DescArea
  <2> HIDE DEF s, t
  <2>4. /\ Len(s \o t) = Len(s) + Len(t)
        /\ \A k \in 1..Len(s) : (s \o t)[k] = s[k]
        /\ \A m \in 1..Len(t) : (s \o t)[Len(s) + m] = t[m]
    BY <2>1, SeqJoined
  <2>5. /\ Len(DescArea(j)) = 2 * Queues
        /\ \A m \in 1..Queues : DescArea(j)[m] = s[m] /\ DescArea(j)[Queues + m] = t[m]
    BY <1>0, <2>2, <2>3, <2>4
  <2> QED BY <2>5 DEF s, t
<1>3. /\ Len(AllDescs) = Len(table) * (2 * Queues)
      /\ \A j \in DOMAIN table, m \in 1..(2 * Queues) :
           AllDescs[(j - 1) * (2 * Queues) + m] = DescArea(j)[m]
  BY <1>0, <1>2, AllDescsIs
<1>4. p + 1 \in 1..Queues /\ p + 1 \in 1..(2 * Queues) /\ Queues + (p + 1) \in 1..(2 * Queues)
      /\ Queues + (p + 1) = Queues + p + 1 /\ (p + 1) - 1 = p
  BY <1>0
<1>5. /\ AllDescs[(i - 1) * (2 * Queues) + (p + 1)] = table[i].tx[p + 1]
      /\ AllDescs[(i - 1) * (2 * Queues) + (Queues + p + 1)] = table[i].rx[p + 1]
  <2>1. DescArea(i)[p + 1] = table[i].tx[p + 1] /\ DescArea(i)[Queues + (p + 1)] = table[i].rx[p + 1]
    BY <1>2, <1>4
  <2>2. AllDescs[(i - 1) * (2 * Queues) + (p + 1)] = DescArea(i)[p + 1]
    BY <1>3, <1>4
  <2>3. AllDescs[(i - 1) * (2 * Queues) + (Queues + (p + 1))] = DescArea(i)[Queues + (p + 1)]
    BY <1>3, <1>4
  <2> QED BY <1>4, <2>1, <2>2, <2>3
<1>6. \A a, d, g : RingsFor(a, d, g)[p + 1] = <<a, d, p, g>>
  BY <1>4 DEF RingsFor
<1>7. \E g \in 1..(MaxFaults + 1) : table[i].tx[p + 1] = <<table[i].regs, "tx", p, g>>
  BY <1>1, <1>6
<1>8. \E g \in 1..(MaxFaults + 1) : table[i].rx[p + 1] = <<table[i].regs, "rx", p, g>>
  BY <1>1, <1>6
<1> QED BY <1>1, <1>3, <1>5, <1>7, <1>8

-----------------------------------------------------------------------------
(* The steps of a process. *)
Pr(stage, num, queues, macs, regs, descs) ==
  [stage |-> stage, num |-> num, queues |-> queues, macs |-> macs, regs |-> regs, descs |-> descs]
ProcGoes(p, stage, num, queues, macs, regs, descs) ==
  proc' = [proc EXCEPT ![p] = Pr(stage, num, queues, macs, regs, descs)]

SetStage(r, v) == [r EXCEPT !.stage = v]
SetNum(r, v) == [r EXCEPT !.num = v]
SetQueues(r, v) == [r EXCEPT !.queues = v]
SetMacs(r, v) == [r EXCEPT !.macs = v]
SetRegs(r, v) == [r EXCEPT !.regs = v]
SetDescs(r, v) == [r EXCEPT !.descs = v]

LEMMA PrWith ==
  ASSUME NEW s, NEW n, NEW q, NEW m, NEW r, NEW d, NEW v
  PROVE  /\ SetStage(Pr(s, n, q, m, r, d), v) = Pr(v, n, q, m, r, d)
         /\ SetNum(Pr(s, n, q, m, r, d), v) = Pr(s, v, q, m, r, d)
         /\ SetQueues(Pr(s, n, q, m, r, d), v) = Pr(s, n, v, m, r, d)
         /\ SetMacs(Pr(s, n, q, m, r, d), v) = Pr(s, n, q, v, r, d)
         /\ SetRegs(Pr(s, n, q, m, r, d), v) = Pr(s, n, q, m, v, d)
         /\ SetDescs(Pr(s, n, q, m, r, d), v) = Pr(s, n, q, m, r, v)
BY DEF Pr, SetStage, SetNum, SetQueues, SetMacs, SetRegs, SetDescs

LEMMA PrFields ==
  ASSUME NEW s, NEW n, NEW q, NEW m, NEW r, NEW d
  PROVE  /\ Pr(s, n, q, m, r, d).stage = s /\ Pr(s, n, q, m, r, d).num = n
         /\ Pr(s, n, q, m, r, d).queues = q /\ Pr(s, n, q, m, r, d).macs = m
         /\ Pr(s, n, q, m, r, d).regs = r /\ Pr(s, n, q, m, r, d).descs = d
BY DEF Pr

LEMMA PrIs ==
  ASSUME TypeOK, NEW p \in Procs
  PROVE  proc[p] = Pr(proc[p].stage, proc[p].num, proc[p].queues, proc[p].macs, proc[p].regs, proc[p].descs)
BY ProcIs DEF ProcType, Pr

LEMMA LookIs ==
  ASSUME TypeOK, NEW p \in Procs, NEW num, Look(p, num)
  PROVE  /\ calm' \in [Procs -> BOOLEAN]
         /\ calm'[p] => calm[p] /\ Complete /\ num = Len(table)
         /\ \A q \in Procs : q # p => calm'[q] = calm[q]
<1> DEFINE ok == calm[p] /\ Complete /\ num = Len(table)
<1>1. calm' = [calm EXCEPT ![p] = ok] /\ ok \in BOOLEAN
  BY DEF Look
<1> HIDE DEF ok
<1>2. calm \in [Procs -> BOOLEAN]
  BY DEF TypeOK
<1>3. /\ calm' \in [Procs -> BOOLEAN] /\ calm'[p] = ok
      /\ \A q \in Procs : q # p => calm'[q] = calm[q]
  BY <1>1, <1>2
<1> QED BY <1>3 DEF ok

LEMMA ProcGone ==
  ASSUME TypeOK, NEW p \in Procs, NEW s, NEW n, NEW q, NEW m, NEW r, NEW d,
         ProcGoes(p, s, n, q, m, r, d)
  PROVE  /\ proc'[p].stage = s /\ proc'[p].num = n /\ proc'[p].queues = q
         /\ proc'[p].macs = m /\ proc'[p].regs = r /\ proc'[p].descs = d
         /\ \A k \in Procs : k # p => proc'[k] = proc[k]
<1>1. proc'[p] = Pr(s, n, q, m, r, d) /\ \A k \in Procs : k # p => proc'[k] = proc[k]
  BY DEF TypeOK, ProcGoes
<1> QED BY <1>1, PrFields

(* It is enough to look at the process that takes the step. *)
LEMMA ProcStep ==
  ASSUME AdaptersInv, NEW p \in Procs, NEW s \in {"regs", "descs", "open"}, NEW n \in Nat,
         NEW q \in {0, Queues}, NEW m \in Seq(Some), NEW r \in AreaType, NEW d \in AreaType,
         Len(m) = n, ProcGoes(p, s, n, q, m, r, d), Look(p, n),
         UNCHANGED <<table, queueNum, nic, faults>>,
         LooksAt(p)', calm'[p] => MapsAt(p)',
         \A k \in Procs \ {p} : calm'[p] /\ Seen(k) => NumbersAt(p, k)' /\ NumbersAt(k, p)'
  PROVE  AdaptersInv'
<1>0. TypeOK /\ NicInv /\ EntryInv /\ LooksInv /\ MapsInv /\ NumbersInv
  BY DEF AdaptersInv
<1>1. /\ calm' \in [Procs -> BOOLEAN]
      /\ \A k \in Procs : k # p => calm'[k] = calm[k]
  BY <1>0, LookIs
<1>2. /\ proc'[p].stage = s /\ proc'[p].num = n /\ proc'[p].macs = m
      /\ \A k \in Procs : k # p => proc'[k] = proc[k]
  BY <1>0, ProcGone
<1>3. TypeOK'
  <2>1. Pr(s, n, q, m, r, d) \in ProcType
    BY DEF Pr, ProcType
  <2>2. proc' \in [Procs -> ProcType]
    BY <1>0, <2>1 DEF ProcGoes, TypeOK
  <2>3. \A k \in Procs : Len(proc'[k].macs) = proc'[k].num
    BY <1>0, <1>2 DEF TypeOK
  <2> QED BY <1>0, <1>1, <2>2, <2>3 DEF TypeOK
<1>4. NicInv' /\ EntryInv'
  BY <1>0 DEF NicInv, EntryInv, Foremost
<1>5. \A k \in Procs : k # p => /\ LooksAt(k)' <=> LooksAt(k)
                                /\ MapsAt(k)' <=> MapsAt(k)
                                /\ Seen(k)' <=> Seen(k)
  <2> SUFFICES ASSUME NEW k \in Procs, k # p
               PROVE  /\ LooksAt(k)' <=> LooksAt(k)
                      /\ MapsAt(k)' <=> MapsAt(k)
                      /\ Seen(k)' <=> Seen(k)
    OBVIOUS
  <2>1. proc'[k] = proc[k] /\ calm'[k] = calm[k]
    BY <1>1, <1>2
  <2>2. \A i : Twin(i)' <=> Twin(i)
    BY DEF Twin
  <2>3. LooksAt(k)' <=> LooksAt(k)
    BY <2>1, <2>2 DEF LooksAt
  <2>4. \A i : RegsAt(k, i)' = RegsAt(k, i)
    BY <2>1 DEF RegsAt
  <2>5. \A i, e : RingAt(k, i, e)' = RingAt(k, i, e)
    BY <2>1 DEF RingAt
  <2>6. MapsAt(k)' <=> MapsAt(k)
    BY <2>1, <2>4, <2>5 DEF MapsAt
  <2>7. Seen(k)' <=> Seen(k)
    BY <2>1 DEF Seen
  <2> QED BY <2>3, <2>6, <2>7
<1>6. \A k, l \in Procs : k # p /\ l # p => (NumbersAt(k, l)' <=> NumbersAt(k, l))
  BY <1>2 DEF NumbersAt
<1>7. LooksInv'
  BY <1>0, <1>2, <1>5 DEF LooksInv
<1>8. MapsInv'
  BY <1>0, <1>2, <1>5 DEF MapsInv, Seen
<1>9. NumbersInv'
  <2> SUFFICES ASSUME NEW k \in Procs, NEW l \in Procs, Seen(k)', Seen(l)'
               PROVE  NumbersAt(k, l)'
    BY DEF NumbersInv
  <2>1. CASE k # p /\ l # p
    BY <1>0, <1>5, <1>6, <2>1 DEF NumbersInv
  <2>2. CASE k = p /\ l = p
    BY <2>2 DEF NumbersAt
  <2>3. CASE k = p /\ l # p
    BY <1>5, <2>3 DEF Seen
  <2>4. CASE k # p /\ l = p
    BY <1>5, <2>4 DEF Seen
  <2> QED BY <2>1, <2>2, <2>3, <2>4
<1> QED BY <1>3, <1>4, <1>7, <1>8, <1>9 DEF AdaptersInv

LEMMA ReadInv ==
  ASSUME AdaptersInv, NEW p \in Procs, Read(p)
  PROVE  AdaptersInv'
<1> DEFINE m == [i \in DOMAIN table |-> table[i].mac]
           n == Len(table)
<1>0. TypeOK /\ NicInv /\ EntryInv /\ LooksInv /\ MapsInv /\ NumbersInv
  BY DEF AdaptersInv
<1>1. /\ proc[p].stage = "read" /\ Look(p, n) /\ UNCHANGED <<table, queueNum, nic, faults>>
      /\ proc' = [proc EXCEPT ![p].stage = "regs", ![p].num = n, ![p].queues = queueNum, ![p].macs = m]
  BY DEF Read
<1>2. /\ table \in Seq(EntryType) /\ n \in Nat /\ DOMAIN table = 1..n
      /\ queueNum \in {0, Queues} /\ proc[p].regs \in AreaType /\ proc[p].descs \in AreaType
  BY <1>0, ProcIs DEF TypeOK
<1>3. m \in Seq(Some) /\ Len(m) = n /\ \A i \in 1..n : m[i] = table[i].mac
  <2>1. m \in [1..n -> Some] /\ \A i \in 1..n : m[i] = table[i].mac
    BY <1>2, TableIs
  <2> HIDE DEF m, n
  <2> QED BY <1>2, <2>1, IsSeq
<1> HIDE DEF m
<1>4. ProcGoes(p, "regs", n, queueNum, m, proc[p].regs, proc[p].descs)
  <2> HIDE DEF n
  <2>1. proc' = [proc EXCEPT ![p] = SetMacs(SetQueues(SetNum(SetStage(proc[p], "regs"), n), queueNum), m)]
    BY <1>0, <1>1 DEF TypeOK, SetMacs, SetQueues, SetNum, SetStage
  <2>2. SetMacs(SetQueues(SetNum(SetStage(proc[p], "regs"), n), queueNum), m) =
          Pr("regs", n, queueNum, m, proc[p].regs, proc[p].descs)
    BY <1>0, PrIs, PrWith
  <2> QED BY <2>1, <2>2 DEF ProcGoes
<1>5. /\ proc'[p].stage = "regs" /\ proc'[p].num = n /\ proc'[p].queues = queueNum /\ proc'[p].macs = m
      /\ \A k \in Procs : k # p => proc'[k] = proc[k]
  BY <1>0, <1>4, ProcGone
<1>6. ASSUME calm'[p], NEW i \in 1..n
      PROVE  /\ m[i] = table[i].regs /\ m[i] \in Nics /\ queueNum = Queues /\ ~Twin(i)
             /\ \A j \in 1..n : m[i] = m[j] => i = j
  <2>1. Complete
    BY <1>0, <1>1, <1>6, LookIs
  <2>2. \A j \in 1..n : /\ Described(j) /\ queueNum = Queues /\ ~Twin(j)
                        /\ \A k \in 1..n : table[j].regs = table[k].regs => j = k
    BY <1>0, <1>2, <2>1, CompleteIs
  <2>3. \A j \in 1..n : m[j] = table[j].regs /\ m[j] \in Nics
    BY <1>3, <2>2 DEF Described
  <2> QED BY <1>6, <2>2, <2>3
<1>7. LooksAt(p)'
  <2>2. UNCHANGED table
    BY <1>1
  <2> HIDE DEF n
  <2>3. calm'[p] => \A i \in 1..n : queueNum = Queues /\ m[i] \in Nics /\ table'[i].regs = m[i]
    BY <1>6, <2>2
  <2>4. n <= Len(table')
    BY <1>2, <2>2 DEF n
  <2> QED BY <1>5, <2>3, <2>4 DEF LooksAt
<1>8. calm'[p] => MapsAt(p)'
  BY <1>5, <1>6 DEF MapsAt
<1>9. ASSUME NEW k \in Procs \ {p}, calm'[p], Seen(k)
      PROVE  NumbersAt(p, k)' /\ NumbersAt(k, p)'
  <2>1. LooksAt(k) /\ calm[k] /\ proc[k].num \in Nat
    BY <1>0, <1>9, ProcIs DEF LooksInv, Seen
  <2>2. \A i \in 1..n : i <= proc[k].num => proc[k].macs[i] = m[i]
    <3> SUFFICES ASSUME NEW i \in 1..n, i <= proc[k].num
                 PROVE  proc[k].macs[i] = m[i]
      OBVIOUS
    <3>1. i \in 1..proc[k].num
      BY <1>2, <2>1
    <3>2. table[i].regs = proc[k].macs[i] \/ Twin(i)
      BY <2>1, <3>1 DEF LooksAt
    <3> QED BY <1>6, <1>9, <3>2
  <2>3. proc'[k] = proc[k]
    BY <1>5
  <2>4. NumbersAt(p, k)'
    BY <1>5, <2>2, <2>3 DEF NumbersAt
  <2>5. \A i \in 1..proc[k].num : i <= n => i \in 1..n /\ i <= proc[k].num
    BY <1>2, <2>1
  <2>6. NumbersAt(k, p)'
    BY <1>5, <2>2, <2>3, <2>5 DEF NumbersAt
  <2> QED BY <2>4, <2>6
<1> QED BY <1>1, <1>2, <1>3, <1>4, <1>7, <1>8, <1>9, ProcStep

(* A process that looks again has the numbers that it had. *)
LEMMA LookedAgain ==
  ASSUME AdaptersInv, NEW p \in Procs, proc[p].stage # "read", Look(p, proc[p].num),
         UNCHANGED <<table, queueNum, nic, faults>>,
         proc'[p].num = proc[p].num, proc'[p].queues = proc[p].queues, proc'[p].macs = proc[p].macs,
         \A k \in Procs : k # p => proc'[k] = proc[k]
  PROVE  /\ LooksAt(p)'
         /\ \A k \in Procs \ {p} : calm'[p] /\ Seen(k) => NumbersAt(p, k)' /\ NumbersAt(k, p)'
         /\ calm'[p] => /\ Complete /\ proc[p].num = Len(table) /\ Seen(p) /\ MapsAt(p)
                        /\ \A i \in 1..proc[p].num :
                             i \in DOMAIN table /\ table[i].regs = proc[p].macs[i] /\ proc[p].queues = Queues
<1>0. TypeOK /\ NicInv /\ EntryInv /\ LooksInv /\ MapsInv /\ NumbersInv
  BY DEF AdaptersInv
<1>1. calm'[p] => calm[p] /\ Complete /\ proc[p].num = Len(table)
  BY <1>0, LookIs
<1>2. LooksAt(p)
  BY <1>0 DEF LooksInv
<1>3. LooksAt(p)'
  <2>1. \A i : Twin(i)' <=> Twin(i)
    BY DEF Twin
  <2> QED BY <1>1, <1>2, <2>1 DEF LooksAt
<1>4. ASSUME NEW k \in Procs \ {p}, calm'[p], Seen(k)
      PROVE  NumbersAt(p, k)' /\ NumbersAt(k, p)'
  <2>1. NumbersAt(p, k) /\ NumbersAt(k, p)
    BY <1>0, <1>1, <1>4 DEF NumbersInv, Seen
  <2> QED BY <2>1 DEF NumbersAt
<1>5. ASSUME calm'[p]
      PROVE  /\ Complete /\ proc[p].num = Len(table) /\ Seen(p) /\ MapsAt(p)
             /\ \A i \in 1..proc[p].num :
                  i \in DOMAIN table /\ table[i].regs = proc[p].macs[i] /\ proc[p].queues = Queues
  <2>1. Complete /\ proc[p].num = Len(table) /\ Seen(p) /\ MapsAt(p)
    BY <1>0, <1>1, <1>5 DEF Seen, MapsInv
  <2>2. DOMAIN table = 1..Len(table)
    BY <1>0 DEF TypeOK
  <2>3. \A i \in 1..proc[p].num : ~Twin(i)
    BY <1>0, <2>1, <2>2, CompleteIs
  <2> QED BY <1>1, <1>2, <1>5, <2>1, <2>2, <2>3 DEF LooksAt
<1> QED BY <1>3, <1>4, <1>5

LEMMA MapRegsInv ==
  ASSUME AdaptersInv, NEW p \in Procs, MapRegs(p)
  PROVE  AdaptersInv'
<1> DEFINE area == Mmap(proc[p].num * RegsPages)
<1>0. TypeOK
  BY DEF AdaptersInv
<1>1. /\ proc[p].stage = "regs" /\ Look(p, proc[p].num) /\ UNCHANGED <<table, queueNum, nic, faults>>
      /\ proc' = [proc EXCEPT ![p].stage = "descs", ![p].regs = area]
  BY DEF MapRegs
<1>2. area \in AreaType
  <2>1. proc[p].num \in Nat /\ RegsPages \in Nat
    BY <1>0, ProcIs, AdaptersAssumption
  <2>2. proc[p].num * RegsPages \in Nat
    BY <2>1
  <2> QED BY <1>0, <2>2, MmapTyped
<1>a. calm'[p] /\ proc[p].num = Len(table) => (table # <<>> => area.of = [i \in DOMAIN table |-> table[i].regs])
  BY <1>0, MmapRegs
<1> HIDE DEF area
<1>3. /\ proc[p].num \in Nat /\ proc[p].queues \in {0, Queues} /\ proc[p].macs \in Seq(Some)
      /\ Len(proc[p].macs) = proc[p].num /\ proc[p].descs \in AreaType
  BY <1>0, ProcIs
<1>4. ProcGoes(p, "descs", proc[p].num, proc[p].queues, proc[p].macs, area, proc[p].descs)
  <2>1. proc' = [proc EXCEPT ![p] = SetRegs(SetStage(proc[p], "descs"), area)]
    BY <1>0, <1>1 DEF TypeOK, SetRegs, SetStage
  <2>2. SetRegs(SetStage(proc[p], "descs"), area) =
          Pr("descs", proc[p].num, proc[p].queues, proc[p].macs, area, proc[p].descs)
    BY <1>0, PrIs, PrWith
  <2> QED BY <2>1, <2>2 DEF ProcGoes
<1>5. /\ proc'[p].stage = "descs" /\ proc'[p].num = proc[p].num /\ proc'[p].queues = proc[p].queues
      /\ proc'[p].macs = proc[p].macs /\ proc'[p].regs = area
      /\ \A k \in Procs : k # p => proc'[k] = proc[k]
  BY <1>0, <1>4, ProcGone
<1>6. /\ LooksAt(p)'
      /\ \A k \in Procs \ {p} : calm'[p] /\ Seen(k) => NumbersAt(p, k)' /\ NumbersAt(k, p)'
      /\ calm'[p] => /\ proc[p].num = Len(table) /\ MapsAt(p)
                     /\ \A i \in 1..proc[p].num : i \in DOMAIN table /\ table[i].regs = proc[p].macs[i]
  BY <1>1, <1>5, LookedAgain
<1>7. ASSUME calm'[p] PROVE MapsAt(p)'
  <2>1. \A i \in 1..proc[p].num : RegsAt(p, i)' = proc[p].macs[i]
    <3> TAKE i \in 1..proc[p].num
    <3>1. i \in DOMAIN table /\ table[i].regs = proc[p].macs[i] /\ proc[p].num = Len(table)
      BY <1>6, <1>7
    <3>2. table # <<>>
      BY <3>1
    <3>3. area.of = [k \in DOMAIN table |-> table[k].regs]
      BY <1>7, <1>a, <3>1, <3>2
    <3> QED BY <1>5, <3>1, <3>3 DEF RegsAt
  <2>2. \A i, j \in 1..proc[p].num : proc[p].macs[i] = proc[p].macs[j] => i = j
    BY <1>6, <1>7 DEF MapsAt
  <2> QED BY <1>5, <2>1, <2>2 DEF MapsAt
<1> QED BY <1>1, <1>2, <1>3, <1>4, <1>6, <1>7, ProcStep

LEMMA Fits ==
  ASSUME NEW n \in Nat, NEW i \in 1..n, NEW q \in Nat
  PROVE  /\ (i - 1) * (2 * q) \in Nat /\ n * (2 * q) \in Nat
         /\ (i - 1) * (2 * q) + 2 * q <= n * (2 * q)
         /\ (i - 1) * 2 * q = (i - 1) * (2 * q)
<1>1. /\ i - 1 \in Nat /\ n - i \in Nat /\ 2 * q \in Nat
      /\ n = (i - 1) + ((n - i) + 1)
  OBVIOUS
<1>2. \A a, b, w \in Nat : /\ a * w \in Nat /\ b * w \in Nat /\ (a + (b + 1)) * w = a * w + (b * w + w)
  OBVIOUS
<1>3. \A a \in Nat : a * 2 * q = a * (2 * q)
  OBVIOUS
<1>4. /\ (i - 1) * (2 * q) \in Nat /\ (n - i) * (2 * q) \in Nat
      /\ n * (2 * q) = (i - 1) * (2 * q) + ((n - i) * (2 * q) + 2 * q)
  BY <1>1, <1>2
<1>5. (i - 1) * 2 * q = (i - 1) * (2 * q)
  BY <1>1, <1>3
<1> DEFINE x == (i - 1) * (2 * q)
           y == (n - i) * (2 * q)
           z == n * (2 * q)
<1>6. x \in Nat /\ y \in Nat /\ z = x + (y + 2 * q) /\ 2 * q \in Nat
  BY <1>1, <1>4
<1> HIDE DEF x, y, z
<1>7. x \in Nat /\ z \in Nat /\ x + 2 * q <= z
  BY <1>6
<1> QED BY <1>5, <1>7 DEF x, z

LEMMA MapDescsInv ==
  ASSUME AdaptersInv, NEW p \in Procs, MapDescs(p)
  PROVE  AdaptersInv'
<1> DEFINE area == Mmap(proc[p].num * proc[p].queues * 2)
<1>0. TypeOK /\ NicInv /\ EntryInv
  BY DEF AdaptersInv
<1>1. /\ proc[p].stage = "descs" /\ Look(p, proc[p].num) /\ UNCHANGED <<table, queueNum, nic, faults>>
      /\ proc' = [proc EXCEPT ![p].stage = "open", ![p].descs = area]
  BY DEF MapDescs
<1>3. /\ proc[p].num \in Nat /\ proc[p].queues \in {0, Queues} /\ proc[p].macs \in Seq(Some)
      /\ Len(proc[p].macs) = proc[p].num /\ proc[p].regs \in AreaType
  BY <1>0, ProcIs
<1>2. area \in AreaType
  <2>1. proc[p].queues \in Nat
    BY <1>3, AdaptersAssumption
  <2>2. proc[p].num * proc[p].queues * 2 \in Nat
    BY <1>3, <2>1
  <2> QED BY <1>0, <2>2, MmapTyped
<1> HIDE DEF area
<1>4. ProcGoes(p, "open", proc[p].num, proc[p].queues, proc[p].macs, proc[p].regs, area)
  <2>1. proc' = [proc EXCEPT ![p] = SetDescs(SetStage(proc[p], "open"), area)]
    BY <1>0, <1>1 DEF TypeOK, SetDescs, SetStage
  <2>2. SetDescs(SetStage(proc[p], "open"), area) =
          Pr("open", proc[p].num, proc[p].queues, proc[p].macs, proc[p].regs, area)
    BY <1>0, PrIs, PrWith
  <2> QED BY <2>1, <2>2 DEF ProcGoes
<1>5. /\ proc'[p].stage = "open" /\ proc'[p].num = proc[p].num /\ proc'[p].queues = proc[p].queues
      /\ proc'[p].macs = proc[p].macs /\ proc'[p].regs = proc[p].regs /\ proc'[p].descs = area
      /\ \A k \in Procs : k # p => proc'[k] = proc[k]
  BY <1>0, <1>4, ProcGone
<1>6. /\ LooksAt(p)'
      /\ \A k \in Procs \ {p} : calm'[p] /\ Seen(k) => NumbersAt(p, k)' /\ NumbersAt(k, p)'
      /\ calm'[p] => /\ Complete /\ proc[p].num = Len(table) /\ MapsAt(p)
                     /\ \A i \in 1..proc[p].num :
                          i \in DOMAIN table /\ table[i].regs = proc[p].macs[i] /\ proc[p].queues = Queues
  BY <1>1, <1>5, LookedAgain
<1>7. ASSUME calm'[p] PROVE MapsAt(p)'
  <2>1. \A i \in 1..proc[p].num : RegsAt(p, i)' = proc[p].macs[i]
    <3>1. \A i : RegsAt(p, i)' = RegsAt(p, i)
      BY <1>5 DEF RegsAt
    <3> QED BY <1>1, <1>6, <1>7, <3>1 DEF MapsAt
  <2>2. \A i, j \in 1..proc[p].num : proc[p].macs[i] = proc[p].macs[j] => i = j
    BY <1>6, <1>7 DEF MapsAt
  <2>3. ASSUME NEW i \in 1..proc[p].num, p < proc[p].queues, NEW d \in Dirs
        PROVE  \E g \in 1..(MaxFaults + 1) : RingAt(p, i, d)' = <<proc[p].macs[i], d, p, g>>
    <3> DEFINE at == (i - 1) * (2 * Queues)
               k == at + (IF d = "rx" THEN Queues ELSE 0) + p + 1
               size == Len(table) * (2 * Queues)
    <3>1. /\ Complete /\ proc[p].num = Len(table) /\ i \in DOMAIN table
          /\ table[i].regs = proc[p].macs[i] /\ proc[p].queues = Queues
          /\ Queues \in Nat \ {0} /\ p \in 0..(Queues - 1)
      BY <1>6, <1>7, <2>3, AdaptersAssumption DEF Procs
    <3>2. /\ Len(AllDescs) = size
          /\ \E g \in 1..(MaxFaults + 1) : AllDescs[at + (p + 1)] = <<table[i].regs, "tx", p, g>>
          /\ \E g \in 1..(MaxFaults + 1) : AllDescs[at + (Queues + p + 1)] = <<table[i].regs, "rx", p, g>>
      BY <1>0, <3>1, RingPlaces
    <3>3. Len(table) \in Nat /\ table # <<>> /\ 1 \in DOMAIN table /\ i \in 1..Len(table)
      BY <1>0, <3>1 DEF TypeOK
    <3>4. Len(table[1].rx) = Queues
      BY <1>0, <3>1, <3>3, RingPlaces
    <3>5. proc[p].num * proc[p].queues * 2 = Len(table) * Queues * 2 /\ Len(table) * Queues * 2 = size
      BY <3>1, <3>3
    <3>6. area.of = [j \in 1..size |-> IF j <= Len(AllDescs) THEN AllDescs[j] ELSE None]
      <4>1. Mmap(Len(table) * Queues * 2).of =
              [j \in 1..(Len(table) * Queues * 2) |-> IF j <= Len(AllDescs) THEN AllDescs[j] ELSE None]
        BY <1>0, <3>3, <3>4, MmapDescs
      <4> HIDE DEF size
      <4> QED BY <3>5, <4>1 DEF area
    <3>7. at \in Nat /\ size \in Nat /\ at + 2 * Queues <= size /\ (i - 1) * 2 * Queues = at
      BY <3>1, <3>3, Fits
    <3>8. RingAt(p, i, d)' = IF k \in DOMAIN area.of THEN area.of[k] ELSE None
      <4> HIDE DEF at
      <4> QED BY <1>5, <3>1, <3>7 DEF RingAt
    <3> HIDE DEF at, size
    <3>9. k \in 1..size
      <4>1. CASE d = "rx"
        <5>1. k = at + Queues + p + 1
          BY <4>1
        <5> QED BY <3>1, <3>7, <5>1
      <4>2. CASE d # "rx"
        <5>1. k = at + 0 + p + 1
          BY <4>2
        <5> QED BY <3>1, <3>7, <5>1
      <4> QED BY <4>1, <4>2
    <3>10. RingAt(p, i, d)' = AllDescs[k]
      BY <3>2, <3>6, <3>8, <3>9
    <3>11. CASE d = "tx"
      <4>1. k = at + (p + 1)
        BY <3>1, <3>7, <3>11
      <4> QED BY <3>1, <3>2, <3>10, <3>11, <4>1
    <3>12. CASE d = "rx"
      <4>1. k = at + (Queues + p + 1)
        BY <3>1, <3>7, <3>12
      <4> QED BY <3>1, <3>2, <3>10, <3>12, <4>1
    <3> QED BY <3>11, <3>12 DEF Dirs
  <2> QED BY <1>5, <2>1, <2>2, <2>3 DEF MapsAt
<1> QED BY <1>1, <1>2, <1>3, <1>4, <1>6, <1>7, ProcStep

-----------------------------------------------------------------------------
LEMMA AdaptersInitial == Init => AdaptersInv
<1> SUFFICES ASSUME Init PROVE AdaptersInv
  OBVIOUS
<1>1. /\ table = <<>> /\ queueNum = 0 /\ faults = 0
      /\ nic = [a \in Nics |-> NoNic] /\ proc = [p \in Procs |-> NoProc]
      /\ calm = [p \in Procs |-> TRUE]
  BY DEF Init
<1>2. NoNic = Nic("absent", None, 0, Fresh, Fresh)
  BY DEF NoNic, Nic, Fresh
<1>3. \A a \in Nics : /\ nic[a].state = "absent" /\ nic[a].addr = None /\ nic[a].n = 0
                      /\ nic[a].gen = Fresh /\ nic[a].done = Fresh
  BY <1>1, <1>2, NicFields
<1>4. MaxFaults \in Nat /\ Fresh \in [Dirs -> 0..(MaxFaults + 1)] /\ Fresh \in [Dirs -> 0..Queues]
      /\ \A d \in Dirs : Fresh[d] = 0
  BY FreshIs, AdaptersAssumption DEF Fresh
<1>5. Nic("absent", None, 0, Fresh, Fresh) \in NicType
  BY <1>4 DEF Nic, NicType
<1>6. \A p \in Procs : proc[p].stage = "read" /\ proc[p].num = 0 /\ Len(proc[p].macs) = 0
  BY <1>1 DEF NoProc
<1>7. NoProc \in ProcType
  <2>1. NoArea \in AreaType
    BY DEF NoArea, AreaType
  <2>2. <<>> \in Seq(Some)
    OBVIOUS
  <2> QED BY <2>1, <2>2 DEF NoProc, ProcType
<1>8. TypeOK
  <2>1. table \in Seq(EntryType)
    BY <1>1
  <2>2. nic \in [Nics -> NicType] /\ proc \in [Procs -> ProcType] /\ calm \in [Procs -> BOOLEAN]
    BY <1>1, <1>2, <1>5, <1>7
  <2>3. faults \in 0..MaxFaults /\ queueNum \in {0, Queues}
    BY <1>1, <1>4
  <2> QED BY <1>3, <1>4, <1>6, <2>1, <2>2, <2>3 DEF TypeOK
<1>9. NicInv
  BY <1>1, <1>3, <1>4 DEF NicInv, Opening
<1>10. EntryInv
  BY <1>1 DEF EntryInv
<1>11. LooksInv /\ MapsInv /\ NumbersInv
  BY <1>6 DEF LooksInv, MapsInv, NumbersInv, Seen
<1> QED BY <1>8, <1>9, <1>10, <1>11 DEF AdaptersInv

LEMMA AdaptersStep == AdaptersInv /\ [Next]_vars => AdaptersInv'
<1> SUFFICES ASSUME AdaptersInv, [Next]_vars PROVE AdaptersInv'
  OBVIOUS
<1>1. ASSUME NEW a \in Nics, ProbeStart(a) PROVE AdaptersInv'
  BY <1>1, ProbeStartInv
<1>2. ASSUME NEW a \in Nics, ProbeInit(a) PROVE AdaptersInv'
  BY <1>2, ProbeInitInv
<1>3. ASSUME NEW a \in Nics, ProbeMac(a) PROVE AdaptersInv'
  BY <1>3, ProbeMacInv
<1>4. ASSUME NEW a \in Nics, ProbeFail(a) PROVE AdaptersInv'
  BY <1>4, FreedInv DEF ProbeFail
<1>5. ASSUME NEW a \in Nics, Open(a) PROVE AdaptersInv'
  BY <1>5, OpenInv
<1>6. ASSUME NEW a \in Nics, SetupTx(a) \/ SetupRx(a) PROVE AdaptersInv'
  <2>1. "tx" \in Dirs /\ "rx" \in Dirs /\ (SetupRing(a, "tx") \/ SetupRing(a, "rx"))
    BY <1>6 DEF SetupTx, SetupRx, Dirs
  <2> QED BY <2>1, SetupRingInv
<1>7. ASSUME NEW a \in Nics, RequestIrq(a) PROVE AdaptersInv'
  BY <1>7, RequestIrqInv
<1>8. ASSUME NEW a \in Nics, Close(a) PROVE AdaptersInv'
  BY <1>8, CloseInv
<1>9. ASSUME NEW a \in Nics, Resize(a) PROVE AdaptersInv'
  BY <1>9, ResizeInv
<1>10. ASSUME NEW a \in Nics, IgbRemove(a) PROVE AdaptersInv'
  BY <1>10, FreedInv DEF IgbRemove
<1>11. ASSUME NEW p \in Procs, Read(p) PROVE AdaptersInv'
  BY <1>11, ReadInv
<1>12. ASSUME NEW p \in Procs, MapRegs(p) PROVE AdaptersInv'
  BY <1>12, MapRegsInv
<1>13. ASSUME NEW p \in Procs, MapDescs(p) PROVE AdaptersInv'
  BY <1>13, MapDescsInv
<1>14. CASE UNCHANGED vars
  <2>1. UNCHANGED <<table, queueNum, nic, proc, faults, calm>>
    BY <1>14 DEF vars
  <2>2. TypeOK' /\ NicInv' /\ EntryInv'
    BY <2>1 DEF AdaptersInv, TypeOK, NicInv, EntryInv, Foremost
  <2>3. LooksInv' /\ MapsInv' /\ NumbersInv'
    <3>1. Grows /\ \A i \in 1..Len(table) : table'[i].regs = table[i].regs
      BY <2>1, GrowsNot DEF AdaptersInv
    <3> QED BY <2>1, <3>1, SightsStay DEF AdaptersInv
  <2> QED BY <2>2, <2>3 DEF AdaptersInv
<1> QED BY <1>1, <1>2, <1>3, <1>4, <1>5, <1>6, <1>7, <1>8, <1>9, <1>10, <1>11, <1>12, <1>13, <1>14
        DEF Next

(* Whatever NICs come, go or fail while processes start, and however many  *)
(* there are: a process that has found the NICs up works on its own queue  *)
(* of every NIC, and with the registers and the MAC address of this NIC.   *)
THEOREM OwnRingsTaken == Spec => []RightRings
<1>1. AdaptersInv => RightRings
  <2> SUFFICES ASSUME AdaptersInv, NEW p \in Procs, Ready(p)
               PROVE  /\ \A i \in 1..proc[p].num :
                           /\ RegsAt(p, i) # None /\ proc[p].macs[i] = RegsAt(p, i)
                           /\ \A d \in Dirs : \E g \in 1..(MaxFaults + 1) :
                                RingAt(p, i, d) = <<RegsAt(p, i), d, p, g>>
                      /\ \A i, j \in 1..proc[p].num : RegsAt(p, i) = RegsAt(p, j) => i = j
    BY DEF RightRings
  <2>1. Seen(p) /\ proc[p].stage = "open" /\ p < proc[p].queues
    BY DEF Ready, Seen
  <2>2. MapsAt(p) /\ LooksAt(p) /\ calm[p]
    BY <2>1 DEF AdaptersInv, MapsInv, LooksInv, Seen
  <2>3. \A i \in 1..proc[p].num :
          /\ proc[p].macs[i] \in Nics /\ RegsAt(p, i) = proc[p].macs[i]
          /\ \A j \in 1..proc[p].num : proc[p].macs[i] = proc[p].macs[j] => i = j
          /\ \A d \in Dirs : \E g \in 1..(MaxFaults + 1) :
               RingAt(p, i, d) = <<proc[p].macs[i], d, p, g>>
    BY <2>1, <2>2 DEF MapsAt, LooksAt
  <2>4. None \notin Nics
    BY AdaptersAssumption
  <2> QED BY <2>3, <2>4
<1> QED BY <1>1, AdaptersInitial, AdaptersStep, PTL DEF Spec

(* Processes that started at different times, with NICs that came and went *)
(* in between, number the NICs alike, and no two of them share a ring.     *)
THEOREM RingsNotShared == Spec => []Agree
<1>1. AdaptersInv /\ RightRings => Agree
  <2> SUFFICES ASSUME AdaptersInv, RightRings, NEW p \in Procs, NEW q \in Procs, p # q, Ready(p), Ready(q),
                      NEW i \in 1..proc[p].num, i <= proc[q].num
               PROVE  /\ RegsAt(p, i) = RegsAt(q, i)
                      /\ \A j \in 1..proc[q].num, d, e \in Dirs : RingAt(p, i, d) # RingAt(q, j, e)
    BY DEF Agree
  <2>1. Seen(p) /\ Seen(q) /\ proc[p].num \in Nat /\ proc[q].num \in Nat
    BY ProcIs DEF Ready, Seen, AdaptersInv
  <2>2. NumbersAt(p, q)
    BY <2>1 DEF AdaptersInv, NumbersInv
  <2>3. proc[p].macs[i] = RegsAt(p, i) /\ proc[q].macs[i] = RegsAt(q, i)
    <3>1. i \in 1..proc[q].num
      BY <2>1
    <3> QED BY <3>1 DEF RightRings
  <2>4. proc[p].macs[i] = proc[q].macs[i]
    BY <2>2 DEF NumbersAt
  <2>5. ASSUME NEW j \in 1..proc[q].num, NEW d \in Dirs, NEW e \in Dirs
        PROVE  RingAt(p, i, d) # RingAt(q, j, e)
    <3>1. PICK g \in 1..(MaxFaults + 1) : RingAt(p, i, d) = <<RegsAt(p, i), d, p, g>>
      BY DEF RightRings
    <3>2. PICK h \in 1..(MaxFaults + 1) : RingAt(q, j, e) = <<RegsAt(q, j), e, q, h>>
      BY DEF RightRings
    <3> QED BY <3>1, <3>2
  <2> QED BY <2>3, <2>4, <2>5
<1> QED BY <1>1, OwnRingsTaken, AdaptersInitial, AdaptersStep, PTL DEF Spec
=============================================================================
