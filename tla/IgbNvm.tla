------------------------------- MODULE IgbNvm -------------------------------
(***************************************************************************)
(* The EEPROM of a NIC in modules/igb: e1000_nvm.c, the semaphores of      *)
(* e1000_mac.c and e1000_82575.c, and the users in igb_ethtool.c.          *)
(* The ports of a NIC are devices of their own to the kernel and share one *)
(* EEPROM, so that nothing but the semaphores orders their calls; the      *)
(* firmware uses it too.  Words are read through EERD, without semaphore.  *)
(* They are written with SPI commands, page by page, and the checksum      *)
(* afterwards by a write of its own.                                       *)
(*                                                                         *)
(* `chip' is the EEPROM as its data sheet has it: a command counts when    *)
(* the chip is deselected; a write wraps in its page and takes a while.    *)
(* Shifting a word bit by bit through EECD is one operator.                *)
(*                                                                         *)
(* Bounds: words are of two bytes below Radix, and a call of ethtool has   *)
(* its place from Requests and writes Radix - 1 everywhere.                *)
(***************************************************************************)
EXTENDS Integers, FiniteSets, SequencesExt

CONSTANTS
  Ports,         \* the ports that share the EEPROM
  WordSize,      \* nvm->word_size
  PageWords,     \* nvm->page_size in words
  AddressWords,  \* the words that nvm->address_bits can tell apart
  ChecksumReg,   \* NVM_CHECKSUM_REG
  NvmSum,        \* NVM_SUM
  Radix,         \* the values of a byte
  Garbage,       \* bound: what kmalloc'ed memory may hold
  Requests       \* bound: pairs of eeprom->offset and eeprom->len

Mod == Radix * Radix
Words == 0..(Mod - 1)
Addresses == 0..(WordSize - 1)

\* The stack refuses calls beyond the end.  A page is not cut by the end, nor by the
\* end of what can be addressed.
ASSUME NvmAssumption ==
  /\ WordSize \in Nat /\ PageWords \in Nat \ {0} /\ AddressWords \in Nat \ {0}
  /\ WordSize % PageWords = 0 /\ AddressWords % PageWords = 0
  /\ WordSize <= 2 * AddressWords
  /\ ChecksumReg \in Addresses /\ NvmSum \in Words /\ Radix \in Nat \ {0, 1}
  /\ Garbage \subseteq Words
  /\ Requests \subseteq Nat \X (Nat \ {0})
  /\ \A r \in Requests : r[1] + r[2] <= 2 * WordSize

VARIABLES
  chip,   \* the EEPROM: mem, the command that is being shifted in, wel, busy
  swsm,   \* who has SMBI and SWESMBI
  marks,  \* SW_FW_SYNC: "sw", "fw"
  grant,  \* whom EECD.GNT is for
  call    \* what each port does

nvmVars == <<chip, swsm, marks, grant, call>>

No == [op |-> "none", at |-> 0, words |-> <<>>]
Idle == [pc |-> "idle", what |-> "none", req |-> <<0, 0>>, edges |-> <<>>, at |-> 0,
         words |-> <<>>, widx |-> 0, i |-> 0, sum |-> 0,
         ok |-> TRUE,      \* what the call returns
         was |-> <<>>,     \* history: the contents before it
         clean |-> TRUE]   \* history: nothing disturbed it, all reads worked

FirstWord(r) == r[1] \div 2
LastWord(r) == (r[1] + r[2] - 1) \div 2
Count(r) == LastWord(r) - FirstWord(r) + 1

NvmInit ==
  /\ \E mem \in {[a \in Addresses |-> IF a = ChecksumReg THEN NvmSum ELSE 0]} :
       chip = [mem |-> mem, cmd |-> No, wel |-> FALSE, busy |-> FALSE]
  /\ swsm = [smbi |-> {}, swesmbi |-> {}]
  /\ marks = {}
  /\ grant = {}
  /\ call = [p \in Ports |-> Idle]

(***************************************************************************)
(* The chip.                                                               *)
(***************************************************************************)
\* Deselected, the chip does what it was told; while it writes it hears nothing
Deselect(c) ==
  LET page == (c.cmd.at \div PageWords) * PageWords
      place(k) == page + ((c.cmd.at + k - 1) % PageWords)
      written == [a \in Addresses |->
        LET ks == {k \in DOMAIN c.cmd.words : place(k) = a} IN
        IF ks = {} THEN c.mem[a] ELSE c.cmd.words[CHOOSE k \in ks : \A l \in ks : l <= k]]
      d == [c EXCEPT !.cmd = No]
  IN IF c.busy THEN d
     ELSE IF c.cmd.op = "wren" THEN [d EXCEPT !.wel = TRUE]
     ELSE IF c.cmd.op = "write" /\ c.wel
     THEN [d EXCEPT !.mem = written, !.wel = FALSE, !.busy = TRUE]
     ELSE d

ShiftOutOpcode(c, op) == [c EXCEPT !.cmd.op = op]
ShiftOutAddress(c, at) == [c EXCEPT !.cmd.at = at]
ShiftOutWords(c, words) == [c EXCEPT !.cmd.words = @ \o words]
StandbyNvm(c) == Deselect(c)

ChipIsReady ==
  /\ chip.busy
  /\ chip' = [chip EXCEPT !.busy = FALSE]
  /\ UNCHANGED <<swsm, marks, grant, call>>

\* The firmware uses the EEPROM and marks it, under SWESMBI for a moment
FirmwareMarks ==
  /\ swsm.swesmbi = {}
  /\ \/ marks = {} /\ marks' = {"fw"}
     \/ marks = {"fw"} /\ marks' = {}
  /\ UNCHANGED <<chip, swsm, grant, call>>

(***************************************************************************)
(* Calls.                                                                  *)
(***************************************************************************)
At(p, pc) == call[p].pc = pc
Goes(p, pc) == call' = [call EXCEPT ![p].pc = pc]

\* What is remembered of a call that is over, or that somebody has disturbed
Ended(c) == IF c.ok /\ c.clean THEN [Idle EXCEPT !.what = c.what, !.req = c.req, !.was = c.was]
            ELSE Idle
Disturbed(c) == IF c.pc = "idle" THEN Idle ELSE [c EXCEPT !.clean = FALSE, !.was = <<>>]

\* The call of p goes on as c, and the others see the contents change
GoesAs(p, c) ==
  call' = [q \in Ports |->
    IF q = p THEN c ELSE IF chip'.mem = chip.mem THEN call[q] ELSE Disturbed(call[q])]

\* igb_set_eeprom: the words that are only partly written are read first
Edges(r) == (IF r[1] % 2 = 1 THEN <<1>> ELSE <<>>)
              \o (IF (r[1] + r[2]) % 2 = 1 THEN <<Count(r)>> ELSE <<>>)

\* An access of an 8-bit EEPROM across its middle: the eighth bit of the address, which
\* is in the opcode, is taken from where the access begins
Crosses(r) == FirstWord(r) < AddressWords /\ LastWord(r) >= AddressWords

SetEeprom(p, r) ==
  /\ At(p, "idle")
  /\ call' = [call EXCEPT ![p] =
       [Idle EXCEPT !.pc = "edges", !.what = "data", !.req = r, !.edges = Edges(r),
                    !.at = FirstWord(r), !.words = [k \in 1..Count(r) |-> 0],
                    !.was = chip.mem, !.clean = ~Crosses(r)]]
  /\ UNCHANGED <<chip, swsm, marks, grant>>

\* igb_read_nvm_eerd, of a word; the chip is not busy and not granted to anyone
Readable == ~chip.busy /\ grant = {}

\* When a word cannot be read, neither is the next, and what was in the memory is used
ReadEdge(p) ==
  LET c == call[p] IN
  /\ At(p, "edges") /\ c.edges # <<>>
  /\ \/ /\ Readable
        /\ call' = [call EXCEPT ![p].edges = Tail(@),
                                ![p].words[Head(c.edges)] = chip.mem[c.at + Head(c.edges) - 1]]
     \/ \E word \in Garbage :
          call' = [call EXCEPT ![p] = [Disturbed(c) EXCEPT !.edges = <<>>,
            !.words = [k \in DOMAIN @ |-> IF k \in ToSet(c.edges) THEN word ELSE @[k]]]]
  /\ UNCHANGED <<chip, swsm, marks, grant>>

\* memcpy(ptr, bytes, eeprom->len), of word k of the buffer
Merge(r, k, word) ==
  LET in(b) == r[1] <= b /\ b < r[1] + r[2]
      byte == 2 * (FirstWord(r) + k - 1)
      low == IF in(byte) THEN Radix - 1 ELSE word % Radix
      high == IF in(byte + 1) THEN Radix - 1 ELSE word \div Radix
  IN high * Radix + low

FillBuffer(p) ==
  LET c == call[p] IN
  /\ At(p, "edges") /\ c.edges = <<>>
  /\ call' = [call EXCEPT ![p].pc = "mark",
                          ![p].words = [k \in DOMAIN @ |-> Merge(c.req, k, @[k])]]
  /\ UNCHANGED <<chip, swsm, marks, grant>>

(***************************************************************************)
(* igb_get_hw_semaphore(), igb_acquire_swfw_sync_82575() and, at "unmark", *)
(* igb_release_swfw_sync_82575(), which tries until it has the semaphore.  *)
(***************************************************************************)
Free == [smbi |-> {}, swesmbi |-> {}]
Wants(p) == call[p].pc \in {"mark", "unmark"}

\* The mark, or what is under it, is not to be had: an error of what is being written,
\* which nobody asks about if it is the checksum
Fails(c) == IF c.what = "data" THEN [c EXCEPT !.ok = FALSE] ELSE Disturbed(c)
GivesUp(p) == At(p, "mark") /\ call' = [call EXCEPT ![p] = Idle]

GetSmbi(p) ==
  /\ Wants(p) /\ swsm.smbi # {p}
  /\ \/ swsm.smbi = {} /\ swsm' = [swsm EXCEPT !.smbi = {p}] /\ UNCHANGED call
     \/ swsm.smbi # {} /\ GivesUp(p) /\ UNCHANGED swsm
  /\ UNCHANGED <<chip, marks, grant>>

\* When the firmware does not let go of it, both bits are cleared
GetSwesmbi(p) ==
  /\ Wants(p) /\ swsm.smbi = {p} /\ swsm.swesmbi = {}
  /\ \/ swsm' = [swsm EXCEPT !.swesmbi = {p}] /\ UNCHANGED call
     \/ swsm' = Free /\ (GivesUp(p) \/ (At(p, "unmark") /\ UNCHANGED call))
  /\ UNCHANGED <<chip, marks, grant>>

\* Mutant of Mark: only the mark of the firmware is looked at
MarkOverSw(p) ==
  /\ At(p, "mark") /\ swsm.swesmbi = {p}
  /\ \/ "fw" \notin marks /\ marks' = {"sw"} /\ Goes(p, "grant")
     \/ "fw" \in marks /\ (UNCHANGED call \/ GivesUp(p)) /\ UNCHANGED marks
  /\ swsm' = Free
  /\ UNCHANGED <<chip, grant>>

\* While somebody has marked it, it is tried again and again, and then given up
Mark(p) ==
  /\ At(p, "mark") /\ swsm.swesmbi = {p}
  /\ \/ marks = {} /\ marks' = {"sw"} /\ Goes(p, "grant")
     \/ marks # {} /\ (UNCHANGED call \/ GivesUp(p)) /\ UNCHANGED marks
  /\ swsm' = Free
  /\ UNCHANGED <<chip, grant>>

\* After a write that went well the checksum is next, if it covers what was written
Unmark(p) ==
  LET c == call[p] IN
  /\ At(p, "unmark") /\ swsm.swesmbi = {p}
  /\ marks' = marks \ {"sw"}
  /\ swsm' = Free
  /\ IF c.what = "data" /\ c.ok /\ FirstWord(c.req) <= ChecksumReg THEN Goes(p, "sum")
     ELSE call' = [call EXCEPT ![p] = Ended(c)]
  /\ UNCHANGED <<chip, grant>>

(***************************************************************************)
(* igb_write_nvm_spi()                                                     *)
(***************************************************************************)
\* Mutant of AcquireNvm: without a grant the mark is left
AcquireNvmMarked(p) ==
  /\ At(p, "grant")
  /\ \/ grant = {} /\ grant' = {p} /\ Goes(p, "write")
     \/ call' = [call EXCEPT ![p] = Idle] /\ UNCHANGED grant
  /\ UNCHANGED <<chip, swsm, marks>>

AcquireNvm(p) ==
  /\ At(p, "grant")
  /\ \/ grant = {} /\ grant' = {p} /\ Goes(p, "write")
     \/ call' = [call EXCEPT ![p] = [Fails(@) EXCEPT !.pc = "unmark"]] /\ UNCHANGED grant
  /\ UNCHANGED <<chip, swsm, marks>>

\* Where the chip puts word x of the EEPROM
Address(at, x) == (x % AddressWords) + (IF at >= AddressWords THEN AddressWords ELSE 0)

\* Mutant of Turn: words are shifted out beyond the end of the page
TurnToEnd(c) == Len(c.words) - c.widx

\* How many words one turn of the loop writes
Turn(c) ==
  LET left == Len(c.words) - c.widx
      room == PageWords - ((c.at + c.widx) % PageWords)
  IN IF left < room THEN left ELSE room

\* igb_ready_nvm_eeprom() has found the chip ready, or fails
WritePage(p) ==
  LET c == call[p]
      enabled == StandbyNvm(ShiftOutOpcode(StandbyNvm(chip), "wren"))
      to == ShiftOutAddress(ShiftOutOpcode(enabled, "write"), Address(c.at, c.at + c.widx))
      full == ShiftOutWords(to, SubSeq(c.words, c.widx + 1, c.widx + Turn(c)))
      widx == c.widx + Turn(c)
  IN /\ At(p, "write") /\ c.widx < Len(c.words)
     /\ \/ /\ ~chip.busy
           /\ chip' = IF (c.at + widx) % PageWords = 0 THEN StandbyNvm(full) ELSE full
           /\ GoesAs(p, [c EXCEPT !.widx = widx])
        \/ /\ chip.busy
           /\ call' = [call EXCEPT ![p] = [Fails(c) EXCEPT !.widx = Len(c.words)]]
           /\ UNCHANGED chip
     /\ UNCHANGED <<swsm, marks, grant>>

\* igb_release_nvm, with e1000_stop_nvm
ReleaseNvm(p) ==
  /\ At(p, "write") /\ call[p].widx = Len(call[p].words)
  /\ chip' = Deselect(chip)
  /\ grant' = {}
  /\ GoesAs(p, [call[p] EXCEPT !.pc = "unmark"])
  /\ UNCHANGED <<swsm, marks>>

(***************************************************************************)
(* igb_update_nvm_checksum(), igb_validate_nvm_checksum() and the self     *)
(* test, which add up word by word.                                        *)
(***************************************************************************)
CheckNvm(p) ==
  /\ At(p, "idle")
  /\ call' = [call EXCEPT ![p] = [Idle EXCEPT !.pc = "sum", !.what = "check"]]
  /\ UNCHANGED <<chip, swsm, marks, grant>>

LastToAdd(c) == IF c.what = "check" THEN ChecksumReg + 1 ELSE ChecksumReg

Add(p) ==
  LET c == call[p] IN
  /\ At(p, "sum") /\ c.i < LastToAdd(c)
  /\ \/ /\ Readable
        /\ call' = [call EXCEPT ![p].i = @ + 1, ![p].sum = (@ + chip.mem[c.i]) % Mod]
     \/ call' = [call EXCEPT ![p] = Idle]
  /\ UNCHANGED <<chip, swsm, marks, grant>>

Added(p) ==
  LET c == call[p] IN
  /\ At(p, "sum") /\ c.i = LastToAdd(c)
  /\ call' = [call EXCEPT ![p] =
       IF c.what = "check" THEN Ended([c EXCEPT !.ok = c.sum = NvmSum])
       ELSE [c EXCEPT !.pc = "mark", !.what = "checksum", !.at = ChecksumReg, !.widx = 0,
                      !.words = <<(NvmSum + Mod - c.sum) % Mod>>]]
  /\ UNCHANGED <<chip, swsm, marks, grant>>

-----------------------------------------------------------------------------
NvmNext ==
  \/ ChipIsReady \/ FirmwareMarks
  \/ \E p \in Ports :
       \/ \E r \in Requests : SetEeprom(p, r)
       \/ ReadEdge(p) \/ FillBuffer(p)
       \/ GetSmbi(p) \/ GetSwesmbi(p) \/ Mark(p) \/ Unmark(p)
       \/ AcquireNvm(p) \/ WritePage(p) \/ ReleaseNvm(p)
       \/ CheckNvm(p) \/ Add(p) \/ Added(p)

NvmSpec == NvmInit /\ [][NvmNext]_nvmVars

-----------------------------------------------------------------------------
Byte(mem, b) == IF b % 2 = 0 THEN mem[b \div 2] % Radix ELSE mem[b \div 2] \div Radix
SumTo(mem, n) ==
  LET sum[k \in 0..WordSize] == IF k = 0 THEN 0 ELSE (sum[k - 1] + mem[k - 1]) % Mod
  IN sum[n]
Valid(mem) == SumTo(mem, ChecksumReg + 1) = NvmSum

\* A call that returns success, that does not cross the middle of an 8-bit EEPROM, and
\* that neither another port nor a failed read has disturbed, has written the bytes that
\* were asked for and, but for the checksum, no others; and the checksum is right if it
\* covers any of them.
WriteLands ==
  \A p \in Ports : LET c == call[p] IN
    c.pc = "idle" /\ c.what \in {"data", "checksum"} =>
      /\ FirstWord(c.req) <= ChecksumReg => Valid(chip.mem)
      /\ \A b \in 0..(2 * WordSize - 1) :
           b \div 2 = ChecksumReg
             \/ Byte(chip.mem, b) = IF c.req[1] <= b /\ b < c.req[1] + c.req[2]
                                    THEN Radix - 1 ELSE Byte(c.was, b)

\* The contents change only for the port that has marked the EEPROM and was granted it,
\* one of them and never together with the firmware, whoever gave up or timed out before.
OneWriter ==
  [][chip'.mem # chip.mem => \E p \in Ports :
       /\ grant = {p} /\ marks = {"sw"}
       /\ \A q \in Ports : call[q].pc \in {"grant", "write", "unmark"} => q = p]_nvmVars

\* When no call is under way, the semaphore, the mark and the grant have been given back,
\* whatever has failed.
GivenBack ==
  (\A p \in Ports : At(p, "idle")) => swsm = Free /\ "sw" \notin marks /\ grant = {}
=============================================================================
