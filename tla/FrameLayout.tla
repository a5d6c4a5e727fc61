----------------------------- MODULE FrameLayout -----------------------------
(***************************************************************************)
(* The layout of the frames that the front end parses and builds           *)
(* (zptl/ptl698_45.go, ptl1376_1.go, ptl_nw.go, safe_parse.go): where the  *)
(* address, the master's address and the kind of frame stand, for every    *)
(* size of a 698 address, and the answers built from them.                 *)
(*                                                                         *)
(* A frame is a sequence of bytes; B(f, i) is the byte the code calls      *)
(* buf[i].  A check sum over buf[i:j] is the term Cs(i, j), so that it is  *)
(* right only where it covers what the receiver checks.                    *)
(***************************************************************************)
EXTENDS Integers, Sequences

CONSTANTS
  AddrSize,  (* bound: the low four bits of a 698 address's first byte      *)
  AddrFlag,  (* bound: its high four bits                                   *)
  AddrBytes, (* bound: addresses, of which a frame has the first bytes      *)
  MasterAddr, (* bound: the master's address in a 698 frame                 *)
  ShortLen   (* bound: the lengths of frames without known content          *)

ASSUME LayoutAssumption ==
  /\ AddrSize \subseteq 0..15 /\ AddrFlag \subseteq 0..15
  /\ AddrBytes \subseteq [1..16 -> 0..255] /\ MasterAddr \subseteq 0..255
  /\ ShortLen \subseteq Nat

VARIABLES
  proto,     (* the protocol of the frame                                   *)
  heard,     (* what a terminal has sent                                    *)
  answer,    (* what the front end has answered, <<>> if nothing            *)
  packet,    (* what a bridge for that terminal sends, <<>> if nothing      *)
  reads      (* history: the places of heard that were read                 *)

layVars == <<proto, heard, answer, packet, reads>>

B(f, i)    == f[i + 1]
Cut(f, i, j) == SubSeq(f, i + 1, j)        \* f[i:j]
Zeros(k)   == [i \in 1..k |-> 0]
Cs(i, j)   == -(100 * i + j)
Marks(k, m) == [i \in 1..k |-> m + i]      \* k bytes to be told apart
Now        == Marks(10, 60)                \* getDataTime

-----------------------------------------------------------------------------
(* 698: 68, length (2), control, size and flags, SA, CA, head sum (2),     *)
(* data, sum (2), 16.                                                      *)
Size(f) == B(f, 4) % 16
Hcs(f)  == 7 + Size(f)                     \* where the head sum stands

Ptl698_45GetDir(f) == B(f, 3) \div 128     \* 1: from a terminal
Ptl1376_1GetDir(f) == B(f, 6) \div 128
PtlNwGetDir(f)     == B(f, 6) \div 128

Ptl698_45MsaGet(f) == B(f, 6 + Size(f))
Ptl1376_1MsaGet(f) == B(f, 11)
PtlNwMsaGet(f)     == B(f, 13)

(* The address; in 698, after its size, and without the extended logical   *)
(* address where there is one.  An address that is nothing else has no     *)
(* byte left: its size wraps round to 255.                                 *)
Ptl698_45AddrGet(f) ==
  IF B(f, 4) \div 16 = 2 THEN <<(Size(f) - 1) % 256>> \o Cut(f, 6, 6 + Size(f))
                        ELSE <<Size(f)>> \o Cut(f, 5, 6 + Size(f))
Ptl1376_1AddrGet(f) == Cut(f, 7, 11)
PtlNwAddrGet(f)     == Cut(f, 7, 13)

(* The kind of frame; the byte of a 698 link frame that tells it may be    *)
(* beyond the end.                                                         *)
Ptl698_45GetFrameType(f) ==
  LET idx == 11 + Size(f)
  IN  IF B(f, 3) % 8 = 1 /\ idx < Len(f) /\ B(f, idx) \in 0..2
      THEN <<"login", "heartbeat", "exit">>[B(f, idx) + 1] ELSE "other"

Ptl1376_1GetFrameType(f) ==
  IF Len(f) < 20 THEN "other"
  ELSE IF B(f, 12) = 2
  THEN CASE Cut(f, 14, 18) = <<0, 0, 1, 0>> -> "login"
         [] Cut(f, 14, 18) = <<0, 0, 2, 0>> -> "exit"
         [] Cut(f, 14, 18) = <<0, 0, 4, 0>> -> "heartbeat"
         [] OTHER -> "other"
  ELSE IF /\ B(f, 12) = 254 /\ Cut(f, 1, 3) = <<66, 0>>
          /\ Cut(f, 7, 11) = Zeros(4) /\ Cut(f, 14, 18) = Zeros(4)
  THEN "online" ELSE "other"

PtlNwGetFrameType(f) ==
  IF Len(f) < 23 \/ B(f, 14) # 2 THEN "other"
  ELSE CASE Cut(f, 18, 22) = <<0, 16, 0, 224>> -> "login"
         [] Cut(f, 18, 22) = <<2, 16, 0, 224>> -> "exit"
         [] Cut(f, 18, 22) = <<1, 16, 0, 224>> -> "heartbeat"
         [] OTHER -> "other"

(* The profile of a protocol (initPtlProfiles).                            *)
Pick(p, a, b, c) == CASE p = "698" -> a [] p = "1376" -> b [] p = "nw" -> c

GetDir(p, f)  == Pick(p, Ptl698_45GetDir(f), Ptl1376_1GetDir(f), PtlNwGetDir(f))
MsaGet(p, f)  == Pick(p, Ptl698_45MsaGet(f), Ptl1376_1MsaGet(f), PtlNwMsaGet(f))
AddrGet(p, f) == Pick(p, Ptl698_45AddrGet(f), Ptl1376_1AddrGet(f), PtlNwAddrGet(f))
GetFrameType(p, f) ==
  Pick(p, Ptl698_45GetFrameType(f), Ptl1376_1GetFrameType(f), PtlNwGetFrameType(f))

(* The last places these read before the kind of frame is known.           *)
PlacesRead(p, f) == Pick(p, {3, 5 + Size(f), 6 + Size(f)}, {6, 10, 11}, {6, 12, 13})

(* The bridge takes it for the answer to a link frame. *)
packetType(f) == IF B(f, 3) = 1 THEN 1 ELSE 0

IsReport(f) == 10 + Size(f) < Len(f) /\ B(f, 9 + Size(f)) = 136 /\ B(f, 10 + Size(f)) = 2

(* Mutant: one less for 698. *)
HandlerParseLenShort(p, f) ==
  Len(f) >= CASE p = "698" -> 21 [] p = "1376" -> 20 [] p = "nw" -> 23

(* Shorter frames are dropped before anything above is used.               *)
HandlerParseLenOK(p, f) ==
  Len(f) >= CASE p = "698" -> 22 [] p = "1376" -> 20 [] p = "nw" -> 23

-----------------------------------------------------------------------------
(* What is built *)

(* Mutant: the control byte of the request goes into the reply. *)
BuildReplySameControl(f) ==
  LET n == Size(f)  h == Cs(1, 7 + n)  c == Cs(1, 42 + n)
  IN  <<104, 43 + n, 0, B(f, 3)>> \o Cut(f, 4, 7 + n) \o <<h, h, 129, 0, 128>>
      \o Cut(f, 14 + n, 24 + n) \o Now \o Now \o <<c, c, 22>>

(* The reply to a login, a heartbeat or an exit. *)
Ptl698_45BuildReplyPacket(f) ==
  LET n == Size(f)  h == Cs(1, 7 + n)  c == Cs(1, 42 + n)
  IN  <<104, 43 + n, 0, 1>> \o Cut(f, 4, 7 + n) \o <<h, h, 129, 0, 128>>
      \o Cut(f, 14 + n, 24 + n) \o Now \o Now \o <<c, c, 22>>

Ptl1376_1BuildReplyPacket(f) ==
  LET L == 72 + (B(f, 1) % 4)
  IN  <<104, L, 0, L, 0, 104, 11>> \o Cut(f, 7, 11)
      \o <<2, 0, 96 + (B(f, 13) % 16), 0, 0, 4, 0, 2>> \o Cut(f, 14, 18)
      \o <<0, Cs(6, 24), 22>>

PtlNwBuildReplyPacket(f) ==
  <<104, 17, 0, 17, 0, 104, 11>> \o Cut(f, 7, 13)
  \o <<0, 0, 96 + (B(f, 15) % 16), 0, 0, 0, 0, 0, 224, 0, Cs(6, 23), 22>>

BuildReplyPacket(p, f) ==
  CASE p = "698"  -> Ptl698_45BuildReplyPacket(f)
    [] p = "1376" -> Ptl1376_1BuildReplyPacket(f)
    [] p = "nw"   -> PtlNwBuildReplyPacket(f)

(* The acknowledgement of a 698 report, for reports of records only.       *)
BuildReportAckPacket(f) ==
  LET n == Size(f)  h == Cs(1, 7 + n)  c == Cs(1, 18 + n)
  IN  <<104, 19 + n, 0, 3>> \o Cut(f, 4, 7 + n) \o <<h, h, 8, B(f, 10 + n), B(f, 11 + n), 1>>
      \o Cut(f, 13 + n, 17 + n) \o <<0, c, c, 22>>

(* Mutant: the size is the number of address bytes, not one less. *)
BuildPacketFullSize(tp, tsa) ==
  LET n == Len(tsa) % 16  h == Cs(1, 7 + n)  c == Cs(1, 23 + Len(tsa))
  IN  <<104, 24 + Len(tsa), 0, 129, Len(tsa)>> \o tsa \o <<0, h, h, 1, 0, tp, 1, 44>>
      \o Now \o <<c, c, 22>>

(* For no address at all, with a size that is wrapped as well, the head    *)
(* sum is put where it would stand behind 16 bytes: on the end of the      *)
(* time, and on a byte that the sum of the frame then takes.               *)
PacketNoAddr(tp) ==
  LET h == Cs(1, 22)  c == Cs(1, 23)
  IN  <<104, 24, 0, 129, 255>> \o <<0, 210, 182, 1, 0, tp, 1, 44>>
      \o Cut(Now, 0, 9) \o <<h, c, c, 22>>

(* What a bridge sends as the terminal tsa: 0 login, 1 heartbeat, 2 exit.  *)
BuildPacket(tp, tsa) ==
  LET n == (Len(tsa) - 1) % 16  h == Cs(1, 7 + n)  c == Cs(1, 23 + Len(tsa))
  IN  IF tsa = <<>> THEN PacketNoAddr(tp)
      ELSE <<104, 24 + Len(tsa), 0, 129, Len(tsa) - 1>> \o tsa \o <<0, h, h, 1, 0, tp, 1, 44>>
           \o Now \o <<c, c, 22>>

-----------------------------------------------------------------------------
(* What is heard: link frames, with their date, and reports and other      *)
(* frames of terminals; and frames of any length and direction, with the   *)
(* head and the first bytes of a login or a report and nothing behind.     *)
Af == {z + 16 * g : z \in AddrSize, g \in AddrFlag}

Plain698(af, a, ca, ctrl, d) ==
  LET n == (af % 16)  h == Cs(1, 7 + n)  c == Cs(1, 9 + n + Len(d))
  IN  <<104, 10 + n + Len(d), 0, ctrl, af>> \o Cut(a, 0, n + 1) \o <<ca, h, h>> \o d \o <<c, c, 22>>

Uplinks698 ==
  {Plain698(af, a, ca, 129, <<1, 0, tp, 1, 44>> \o Marks(10, 30)) :
     af \in Af, a \in AddrBytes, ca \in MasterAddr, tp \in 0..2}
  \cup {Plain698(af, a, ca, 131, d) : af \in Af, a \in AddrBytes, ca \in MasterAddr,
          d \in {<<136, 2, 31, 1, 96, 18, 3, 0, 9, 9, 0, 0>>, <<133, 1, 5, 64, 1, 2, 0, 0>>}}

Link1376(l, a, dt) ==
  <<104, l, 0, l, 0, 104, 201>> \o Cut(a, 0, 4) \o <<0, 2, 116>> \o dt \o <<Cs(6, 18), 22>>

LinkNw(a, tp) ==
  <<104, 18, 0, 18, 0, 104, 201>> \o Cut(a, 0, 6) \o <<0, 2, 113, 0, 0>>
    \o <<tp, 16, 0, 224>> \o <<0, 1, Cs(6, 24), 22>>

Uplinks1376 ==
  {Link1376(l, a, dt) : l \in {49, 50}, a \in AddrBytes,
     dt \in {<<0, 0, 1, 0>>, <<0, 0, 2, 0>>, <<0, 0, 4, 0>>, <<0, 0, 8, 0>>}}

UplinksNw == {LinkNw(a, tp) : a \in AddrBytes, tp \in 0..3}

Uplinks(p) == Pick(p, Uplinks698, Uplinks1376, UplinksNw)

Stub(l, ctrl, af, k) ==
  [i \in 1..l |-> CASE i \in {4, 7} -> ctrl
                    [] i = 5 -> af
                    [] i = 10 + (af % 16) -> k
                    [] i = 11 + (af % 16) -> 2
                    [] OTHER -> 0]

Short(p) == {Stub(l, ctrl, af, k) :
               l \in ShortLen, ctrl \in {1, 129, 131},
               af \in IF p = "698" THEN Af ELSE {0}, k \in {0, 136}}

LayInit ==
  /\ proto \in {"698", "1376", "nw"}
  /\ heard \in Uplinks(proto) \cup Short(proto)
  /\ answer = <<>> /\ packet = <<>> /\ reads = {}

IsLink(p, f) == GetDir(p, f) = 1 /\ GetFrameType(p, f) \in {"login", "exit", "heartbeat"}

(* The frames of terminals that call for an answer.                        *)
Calls(p, f) == IsLink(p, f) \/ (p = "698" /\ GetDir(p, f) = 1 /\ IsReport(f))

(* The places that the answer copies.  In 1376 and nw the length check     *)
(* covers them; that the date of a 698 link frame, or the descriptor of a  *)
(* report, is there is checked nowhere.                                    *)
Copies(p, f) ==
  LET n == Size(f)
  IN  Pick(p, (4..(6 + n)) \cup (IF IsLink(p, f) THEN (14 + n)..(23 + n)
                                ELSE {10 + n, 11 + n} \cup ((13 + n)..(16 + n))),
              {1, 13} \cup (7..10) \cup (14..17),
              {15} \cup (7..12))

(* The answer to a link frame or a report; <<>> to any other frame, and    *)
(* where a place to be copied is past the end: the index panics.           *)
AnswerTo(p, f) ==
  IF ~Calls(p, f) \/ \E i \in Copies(p, f) : i >= Len(f) THEN <<>>
  ELSE IF IsLink(p, f) THEN BuildReplyPacket(p, f) ELSE BuildReportAckPacket(f)

(* Handle, as far as it reads the frame and builds an answer to it.        *)
LayHandle ==
  /\ reads = {} /\ HandlerParseLenOK(proto, heard)
  /\ reads' = PlacesRead(proto, heard)
               \cup (IF Calls(proto, heard) THEN Copies(proto, heard) ELSE {})
  /\ answer' = AnswerTo(proto, heard)
  /\ UNCHANGED <<proto, heard, packet>>

(* A bridge that a login has started, before its reply was built           *)
(* (tryStartBridge698).                                                    *)
BridgeSends(tp) ==
  /\ proto = "698" /\ reads # {}
  /\ IsLink(proto, heard) /\ GetFrameType(proto, heard) = "login"
  /\ packet' = BuildPacket(tp, Tail(AddrGet(proto, heard)))
  /\ UNCHANGED <<proto, heard, answer, reads>>

LayNext == LayHandle \/ \E tp \in 0..2 : BridgeSends(tp)
LaySpec == LayInit /\ [][LayNext]_layVars

-----------------------------------------------------------------------------
(* Properties *)

(* What the validators demand of a frame whose bytes are all there.        *)
Whole(p, f) ==
  IF p = "698"
  THEN LET L == B(f, 1) + 256 * B(f, 2)
       IN  /\ Len(f) = L + 2 /\ L >= 7 /\ B(f, 0) = 104 /\ B(f, L + 1) = 22
           /\ Hcs(f) + 2 <= L
           /\ \A i \in {0, 1} : /\ B(f, Hcs(f) + i) = Cs(1, Hcs(f))
                              /\ B(f, L - 1 + i) = Cs(1, L - 1)
  ELSE LET L == (B(f, 1) + 256 * B(f, 2)) \div (IF p = "1376" THEN 4 ELSE 1)
       IN  /\ Len(f) = L + 8 /\ L >= 8 /\ B(f, 0) = 104 /\ B(f, 5) = 104
           /\ Cut(f, 1, 3) = Cut(f, 3, 5) /\ B(f, L + 6) = Cs(6, L + 6) /\ B(f, L + 7) = 22

(* A frame that passes the length check has every byte that is read of it, *)
(* whatever the size of its address, up to the first two bytes of its      *)
(* content (safe_parse.go:3-6); what a 698 answer copies from behind them  *)
(* may be past the end (ptl698_45.go:144, 299).                            *)
ReadsInside ==
  \A i \in reads : i < Len(heard) \/ (proto = "698" /\ i > 10 + Size(heard))

(* For every size of address, an answer, where one is built, is a frame    *)
(* that the validators accept, its length and both sums where they look    *)
(* for them; it goes down to the same address and master, calls for no     *)
(* answer in turn, and a bridge (packetType) takes it for a link answer    *)
(* exactly if it answers a link frame (BuildReplyPacket,                   *)
(* BuildReportAckPacket).  None is built for a 698 frame that lacks what   *)
(* the answer copies.                                                      *)
AnswerToSender ==
  answer # <<>> =>
    /\ Whole(proto, answer)
    /\ GetDir(proto, answer) = 0
    /\ AddrGet(proto, answer) = AddrGet(proto, heard)
    /\ GetFrameType(proto, answer) = "other"
    /\ proto = "698" => /\ MsaGet(proto, answer) = MsaGet(proto, heard)
                        /\ ~IsReport(answer)
                        /\ packetType(answer) = 1 <=> GetFrameType(proto, heard) # "other"

(* The address has a byte besides its extended logical address: the first  *)
(* byte of the frame's address is not 0x20.                                *)
HasAddr(f) == Tail(Ptl698_45AddrGet(f)) # <<>>

(* What a bridge sends is a whole link frame of its kind, and the front    *)
(* end above takes it for one of the terminal whose login started the      *)
(* bridge, if the terminal's address has a byte that is left (AddrGet,     *)
(* BuildPacket); without one the packet is broken (PacketNoAddr).          *)
BridgeKeepsAddr ==
  packet # <<>> /\ HasAddr(heard) =>
                   /\ Whole(proto, packet) /\ GetDir(proto, packet) = 1
                   /\ GetFrameType(proto, packet) # "other"
                   /\ AddrGet(proto, packet) = AddrGet(proto, heard)
===============================================================================
