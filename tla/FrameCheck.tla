------------------------------ MODULE FrameCheck ------------------------------
(***************************************************************************)
(* The frame check (zptl/ptlchk.go, ptl.go and the three validators that   *)
(* connections use): a connection's reader feeds it whatever each Read     *)
(* returns, and it cuts the byte stream into frames of three protocols.    *)
(*                                                                         *)
(* Frames are scaled down, with their fields in order: a byte is a number, *)
(* one byte of length or of sum stands for two (and a sum for a CRC), and  *)
(* the fixed fields between them are left out.                             *)
(***************************************************************************)
EXTENDS Integers, Sequences

CONSTANTS
  Start, End,    (* 0x68 and 0x16                                           *)
  Base,          (* sums are taken modulo Base                              *)
  AddrSpace,     (* 16: the address size is four bits of its byte           *)
  MaxTwin,       (* PmaxPtlFrameLen - 8: longest user data, NW and 1376.1   *)
  Max698,        (* Pmax698PtlFrameLen - 2: largest length field, 698       *)
  PType,         (* the protocols looked for                                *)
  Streams,       (* bound: the byte streams a peer sends                    *)
  MaxLate        (* bound: reads that come after the timeout                *)

ASSUME CheckAssumption ==
  /\ Base \in Nat \ {0} /\ AddrSpace \in Nat \ {0} /\ MaxTwin \in Nat /\ Max698 \in Nat /\ MaxLate \in Nat
  /\ PType \subseteq {"698", "nw", "1376"}
  /\ Streams \subseteq Seq(Nat)

VARIABLES
  line,      (* bytes on their way                                          *)
  got,       (* history: all bytes read so far                              *)
  buf,       (* Chkfrm.buf                                                  *)
  scanning,  (* inside the loop of Chkfrm                                   *)
  out,       (* frames handed to the callback: protocol, place and length   *)
  slips      (* history: places of the bytes that timeouts removed          *)

chkVars == <<line, got, buf, scanning, out, slips>>

CheckInit ==
  /\ line \in Streams
  /\ got = <<>> /\ buf = <<>> /\ scanning = FALSE /\ out = <<>> /\ slips = <<>>

-----------------------------------------------------------------------------
(* Validators: a frame's length, 0 if more bytes are needed to tell, -1 if *)
(* the bytes cannot begin a frame.                                         *)

Total(c) ==
  LET s[k \in 0..Len(c)] == IF k = 0 THEN 0 ELSE s[k - 1] + c[k]
  IN  s[Len(c)] % Base

Sum(b, i, j) == Total(SubSeq(b, i, j))

(* Mutant: any length is believed. *)
ptl698_45AnyLength(b) ==
  LET L    == b[2]
      head == 4 + (b[3] % AddrSpace)
      seen == Len(b) >= 3 /\ Len(b) >= head
      bad  == \/ Len(b) >= 1 /\ b[1] # Start
              \/ Len(b) >= 2 /\ L < 3
              \/ seen /\ b[head] # Sum(b, 2, head - 1)
              \/ seen /\ Len(b) >= L + 1 /\ b[L + 1] # Sum(b, 2, L)
              \/ seen /\ Len(b) >= L + 2 /\ b[L + 2] # End
  IN  IF bad THEN -1 ELSE IF seen /\ Len(b) >= L + 2 THEN L + 2 ELSE 0

(* start, length L, address size, address, header sum, data, sum, end.     *)
(* The sum stands at L + 1, wherever the header ends.                      *)
ptl698_45IsValid(b) ==
  LET L    == b[2]
      head == 4 + (b[3] % AddrSpace)
      seen == Len(b) >= 3 /\ Len(b) >= head
      bad  == \/ Len(b) >= 1 /\ b[1] # Start
              \/ Len(b) >= 2 /\ (L > Max698 \/ L < 3)
              \/ seen /\ b[head] # Sum(b, 2, head - 1)
              \/ seen /\ Len(b) >= L + 1 /\ b[L + 1] # Sum(b, 2, L)
              \/ seen /\ Len(b) >= L + 2 /\ b[L + 2] # End
  IN  IF bad THEN -1 ELSE IF seen /\ Len(b) >= L + 2 THEN L + 2 ELSE 0

(* start, length twice, start, user data, sum, end; unit is what a count   *)
(* of one in the length field stands for.                                  *)
twinIsValid(b, unit) ==
  LET L   == b[2] \div unit
      bad == \/ Len(b) >= 1 /\ b[1] # Start
             \/ Len(b) >= 4 /\ b[4] # Start
             \/ Len(b) >= 5 /\ (b[2] # b[3] \/ L > MaxTwin \/ L < 1)
             \/ Len(b) >= 5 /\ Len(b) >= L + 5 /\ b[L + 5] # Sum(b, 5, L + 4)
             \/ Len(b) >= 5 /\ Len(b) >= L + 6 /\ b[L + 6] # End
  IN  IF bad THEN -1 ELSE IF Len(b) >= 5 /\ Len(b) >= L + 6 THEN L + 6 ELSE 0

ptlNwIsValid(b)     == twinIsValid(b, 1)
ptl1376_1IsValid(b) == twinIsValid(b, 2)

Verdict(p, b) == CASE p = "698"  -> ptl698_45IsValid(b)
                   [] p = "nw"   -> ptlNwIsValid(b)
                   [] p = "1376" -> ptl1376_1IsValid(b)

PtlChkTab == <<"698", "nw", "1376">>

(* Mutant: the first verdict of a protocol that does not say "invalid". *)
IsValidFirst(b) ==
  LET v    == [i \in 1..3 |-> IF PtlChkTab[i] \in PType THEN Verdict(PtlChkTab[i], b)
                                                         ELSE -1]
      open == {i \in 1..3 : v[i] >= 0}
  IN  IF open = {} THEN [len |-> -1, ptype |-> "unknown"]
      ELSE LET i == CHOOSE i \in open : \A j \in open : i <= j
           IN  [len |-> v[i], ptype |-> PtlChkTab[i]]

(* IsValid: the first protocol of the table that has a whole frame; if     *)
(* none has, 0 as soon as one of them needs more bytes.                    *)
IsValid(b) ==
  LET v    == [i \in 1..3 |-> IF PtlChkTab[i] \in PType THEN Verdict(PtlChkTab[i], b)
                                                         ELSE -1]
      hits == {i \in 1..3 : v[i] > 0}
  IN  IF hits # {}
      THEN LET i == CHOOSE i \in hits : \A j \in hits : i <= j
           IN  [len |-> v[i], ptype |-> PtlChkTab[i]]
      ELSE [len |-> IF \E i \in 1..3 : v[i] = 0 THEN 0 ELSE -1, ptype |-> "unknown"]

findFirstByte(b) ==
  IF \E i \in DOMAIN b : b[i] = Start
  THEN CHOOSE i \in DOMAIN b : b[i] = Start /\ \A j \in 1..(i - 1) : b[j] # Start
  ELSE 0

From(b, i) == SubSeq(b, i, Len(b))

-----------------------------------------------------------------------------
base == Len(got) - Len(buf)     \* how many bytes have left the buffer

(* A Read returns n bytes.  If it comes later than the timeout after the   *)
(* last one, the first byte of what is left over is removed.               *)
Receive(n, isLate) ==
  LET slip == isLate /\ buf # <<>>
  IN  /\ ~scanning
      /\ slip => Len(slips) < MaxLate
      /\ buf' = (IF slip THEN Tail(buf) ELSE buf) \o SubSeq(line, 1, n)
      /\ slips' = IF slip THEN Append(slips, base + 1) ELSE slips
      /\ got' = got \o SubSeq(line, 1, n)
      /\ line' = From(line, n + 1)
      /\ scanning' = TRUE
      /\ UNCHANGED out

(* The loop: everything before a start byte goes; a frame is handed over,  *)
(* an impossible one loses its start byte, an unfinished one waits.        *)
Garbage ==
  /\ scanning /\ findFirstByte(buf) = 0
  /\ buf' = <<>> /\ scanning' = FALSE
  /\ UNCHANGED <<line, got, out, slips>>

Scan ==
  LET o    == findFirstByte(buf)
      rest == From(buf, o)
      v    == IsValid(rest)
  IN  /\ scanning /\ o > 0
      /\ \/ /\ v.len > 0
            /\ out' = Append(out, [at |-> base + o, len |-> v.len, ptype |-> v.ptype])
            /\ buf' = From(rest, v.len + 1)
            /\ UNCHANGED scanning
         \/ /\ v.len = 0
            /\ buf' = rest /\ scanning' = FALSE
            /\ UNCHANGED out
         \/ /\ v.len < 0
            /\ buf' = Tail(rest)
            /\ UNCHANGED <<scanning, out>>
      /\ UNCHANGED <<line, got, slips>>

CheckNext == \/ \E n \in DOMAIN line, isLate \in BOOLEAN : Receive(n, isLate)
             \/ Garbage \/ Scan

CheckSpec == CheckInit /\ [][CheckNext]_chkVars

-----------------------------------------------------------------------------
(* The bytes of the buffer are the last ones received, and frames are cut  *)
(* from consecutive bytes, one after the other: nothing is handed over     *)
(* twice or glued together across a gap.                                   *)
Contiguous ==
  /\ base >= 0 /\ buf = From(got, base + 1)
  /\ \A k \in DOMAIN out :
        /\ out[k].len > 0
        /\ out[k].at + out[k].len <= (IF k = Len(out) THEN base ELSE out[k + 1].at - 1) + 1

(* A frame in the stream that no other candidate overlaps.                 *)
HitsAt(i)  == {p \in PType : Verdict(p, From(got, i)) > 0}
LenAt(i)   == Verdict(CHOOSE p \in HitsAt(i) : TRUE, From(got, i))
Clear(i)   == /\ \E p \in PType : HitsAt(i) = {p}
              /\ \A j \in DOMAIN got \ {i} : \A q \in HitsAt(j) :
                    j >= i + LenAt(i) \/ i >= j + Verdict(q, From(got, j))

(* However the stream is cut into reads, whatever garbage, broken or       *)
(* unfinished frames surround it, and also when a timeout has removed a    *)
(* byte elsewhere: a frame is handed over, or waits behind another one     *)
(* that is unfinished; it is not held back itself, and nothing is handed   *)
(* over twice or in pieces (Chkfrm, IsValid).                              *)
FramesKept ==
  /\ Contiguous
  /\ ~scanning => \A i \in DOMAIN got :
       /\ Clear(i)
       /\ \A k \in DOMAIN slips : slips[k] \notin i..(i + LenAt(i) - 1)
       => i > base + 1 \/ \E k \in DOMAIN out : out[k].at = i /\ out[k].len = LenAt(i)

(* What waits is shorter than the longest frame: a wrong length field can  *)
(* hold back what follows for that many bytes and no longer.               *)
BacklogBounded ==
  ~scanning => \/ Len(buf) < Max698 + 2
               \/ Len(buf) < MaxTwin + 6
               \/ Len(buf) < 3 + AddrSpace
===============================================================================
