------------------------------ MODULE Checksum ------------------------------
(***************************************************************************)
(* The checksums of forwarded packets, checksum.c.  A packet is the sums   *)
(* of its 16-bit words, taken as they lie in memory:                       *)
(*   v4        whether it is an IPv4 packet                                *)
(*   addresses both addresses                                              *)
(*   protocol  that of the transport header                                *)
(*   saddr1    the second byte of the source address of an IPv6 packet     *)
(*   length    the length of what follows the ip header, in network order  *)
(*   data      the transport header, its checksum 0, and what follows it   *)
(* An IPv4 header has twenty bytes: the program knows no options.          *)
(***************************************************************************)
EXTENDS Integers

Word == 65536

Fold(sum) == (sum \div Word) + (sum % Word)

\* while(cksum >> 16): a sum of at most 32 bits is folded twice
Folded(sum) ==
  IF sum < Word THEN sum
  ELSE IF Fold(sum) < Word THEN Fold(sum)
  ELSE Fold(Fold(sum))

\* _checksum
Complement(sum) == (Word - 1) - Folded(sum)

Upto(n) == {k \in Nat : k <= n}

\* Sizes are less than 65536, so that sums have less than 32 bits
Packets ==
  [v4 : BOOLEAN, addresses : Upto(16 * (Word - 1)), protocol : Upto(255), saddr1 : Upto(255),
   length : Upto(Word - 1), data : Upto(32768 * (Word - 1))]

\* checksum_tcpudp: what it is given as the protocol is byte 9 of the ip header, whether
\* that is an IPv4 header or not
SumTcpUdp(pkt) ==
  pkt.addresses + (256 * (IF pkt.v4 THEN pkt.protocol ELSE pkt.saddr1)) + pkt.length + pkt.data

\* checksum_tcp and checksum_udp
Check(pkt) == Complement(SumTcpUdp(pkt))

\* checksum_ipv4 is over the twenty bytes of a header whose checksum is 0
CheckIpv4(header) == Complement(header)

\* What a receiver does: RFC 768 and 793
Accepts(pkt, check) ==
  Folded(pkt.addresses + (256 * pkt.protocol) + pkt.length + pkt.data + check) = Word - 1
=============================================================================
