---------------------------- MODULE ConsoleTables ----------------------------
(***************************************************************************)
(* What the console shows of the connections (fep/snapshot_web.go,         *)
(* traffic_history.go, the list handlers of web/http.go): a reader copies  *)
(* one registry after another, each under its own lock, then looks up the  *)
(* details of each connection it has found, while connections come, log    *)
(* in, carry frames and go.                                                *)
(***************************************************************************)
EXTENDS Integers, Sequences, FiniteSets

CONSTANTS
  ConnID,        (* numbers of connections                                 *)
  Proto,         (* the protocols, in the order their registries are read  *)
  TermAddr, NoAddr,
  PageSize,      (* 10 to 1000: the rows of a page                         *)
  TrafficMinBuckets, (* 15: the minutes shown                              *)
  WordSize,      (* 2^64: counts of bytes wrap there                       *)
  MasterConn,    (* bound: which connections may be masters'              *)
  MaxClock, MaxBytes, MaxMinutes  (* bounds: login times, frames of a      *)
                 (* connection, minutes                                    *)

ASSUME TablesAssumption ==
  /\ ConnID \subseteq Nat /\ Proto \in Seq(STRING) /\ NoAddr \notin TermAddr
  /\ PageSize \subseteq Nat \ {0} /\ TrafficMinBuckets \in Nat \ {0} /\ WordSize \in Nat \ {0}
  /\ MaxClock \in Nat /\ MaxBytes \in Nat /\ MaxMinutes \in Nat

VARIABLES
  reg,     (* reg[r][p]: connections in the registry of role r             *)
  open,    (* the connection manager                                       *)
  det,     (* det[c]: its address, login time (0: none) and bytes          *)
  rd,      (* the reader: what for, how far, what it has still to look up, *)
           (* and the bytes it has summed up                               *)
  rows,    (* the rows it has made                                         *)
  stayed,  (* history: what was registered since the reader began          *)
  prev, ring,  (* the last total, and the bars, of terminals' traffic      *)
  bars     (* history: all bars, and whether each is within the total it   *)
           (* was made from                                                *)

tabVars == <<reg, open, det, rd, rows, stayed, prev, ring, bars>>
connState == <<reg, open, det>>

ConnRole == {"tmn", "app"}
Protos == {Proto[i] : i \in DOMAIN Proto}
NoDetails == [addr |-> NoAddr, login |-> 0, bytes |-> 0]
NoRead == [for |-> "none", next |-> 1, todo |-> {}, sum |-> 0]

TabInit ==
  /\ reg = [r \in ConnRole |-> [p \in Protos |-> {}]]
  /\ open = ConnID
  /\ det = [c \in ConnID |-> NoDetails]
  /\ rd = NoRead /\ rows = {} /\ stayed = {}
  /\ prev = -1 /\ ring = <<>> /\ bars = <<>>

-----------------------------------------------------------------------------
(* Connections: as the registries and the sessions let them.               *)
In(c) == {x \in ConnRole \X Protos : c \in reg[x[1]][x[2]]}

Enter(c, r, p) ==
  /\ c \in open /\ In(c) = {}
  /\ r = "app" => c \in MasterConn
  /\ reg' = [reg EXCEPT ![r][p] = @ \cup {c}]
  /\ UNCHANGED <<open, det, rd, rows, stayed, prev, ring, bars>>

(* setLtime and setRoutingAddr follow the answer.                          *)
LoggedIn(c, a, t) ==
  /\ c \in open /\ In(c) # {}
  /\ det' = [det EXCEPT ![c].addr = a, ![c].login = t]
  /\ UNCHANGED <<reg, open, rd, rows, stayed, prev, ring, bars>>

Carry(c) ==
  /\ c \in open /\ det[c].bytes < MaxBytes
  /\ det' = [det EXCEPT ![c].bytes = @ + 1]
  /\ UNCHANGED <<reg, open, rd, rows, stayed, prev, ring, bars>>

Exit(c) ==
  /\ reg' = [r \in ConnRole |-> [p \in Protos |-> reg[r][p] \ {c}]]
  /\ stayed' = {x \in stayed : x[2] # c}
  /\ UNCHANGED <<open, det, rd, rows, prev, ring, bars>>

(* Eviction, or the first half of Stop.                                    *)
Unregister(c) == In(c) # {} /\ Exit(c)

isTerminalRegistryConn(c) == \E p \in Protos : <<"tmn", p>> \in In(c)

(* fepWebKickTerminal: only what a terminals' registry holds is stopped.   *)
Kick(c) == c \in open /\ isTerminalRegistryConn(c) /\ Exit(c)

Gone(c) ==
  /\ c \in open /\ In(c) = {}
  /\ open' = open \ {c} /\ det' = [det EXCEPT ![c] = NoDetails]
  /\ UNCHANGED <<reg, rd, rows, stayed, prev, ring, bars>>

-----------------------------------------------------------------------------
(* The reader: for the list of terminals or of masters, or for the minute  *)
(* (the masters' traffic is counted in the same way).  Lists and minutes   *)
(* share nothing; as a bound, lists are read before the first minute.      *)
ReadRole == IF rd.for = "apps" THEN "app" ELSE "tmn"

ReadBegins(why) ==
  /\ rd.for = "none"
  /\ IF why = "minute" THEN Len(bars) < MaxMinutes ELSE prev = -1
  /\ rd' = [NoRead EXCEPT !.for = why] /\ rows' = {}
  /\ LET r == IF why = "apps" THEN "app" ELSE "tmn"
     IN  stayed' = IF why = "minute" THEN {}
                   ELSE {x \in Protos \X ConnID : x[2] \in reg[r][x[1]]}
  /\ UNCHANGED <<connState, prev, ring, bars>>

(* Mutant: the next registry's copy takes the place of the last one's. *)
SnapshotOver ==
  /\ rd.for # "none" /\ rd.next <= Len(Proto)
  /\ rd' = [rd EXCEPT !.next = @ + 1,
                      !.todo = {Proto[rd.next]} \X reg[ReadRole][Proto[rd.next]]]
  /\ UNCHANGED <<connState, rows, stayed, prev, ring, bars>>

Snapshot ==
  /\ rd.for # "none" /\ rd.next <= Len(Proto)
  /\ rd' = [rd EXCEPT !.next = @ + 1,
                      !.todo = @ \cup ({Proto[rd.next]} \X reg[ReadRole][Proto[rd.next]])]
  /\ UNCHANGED <<connState, rows, stayed, prev, ring, bars>>

connDetailsOrEmpty(c) == IF c \in open THEN {det[c]} ELSE {}

RowOf(p, c, d) == [proto |-> p, id |-> c, addr |-> d.addr, login |-> d.login]

(* What sumTerminalConnBytes adds to its word for a connection.            *)
connBytes(found) == IF found = {} THEN {0} ELSE {d.bytes : d \in found}

(* A connection no longer in the manager has no row and does not count.    *)
Detail(p, c) ==
  LET found == connDetailsOrEmpty(c)
  IN  /\ rd.next > Len(Proto) /\ <<p, c>> \in rd.todo
      /\ IF rd.for = "minute"
         THEN /\ \E n \in connBytes(found) :
                   rd' = [rd EXCEPT !.todo = @ \ {<<p, c>>}, !.sum = (@ + n) % WordSize]
              /\ UNCHANGED rows
         ELSE /\ rd' = [rd EXCEPT !.todo = @ \ {<<p, c>>}]
              /\ rows' = rows \cup {RowOf(p, c, d) : d \in found}
      /\ UNCHANGED <<connState, stayed, prev, ring, bars>>

ReadDone == rd.for # "none" /\ rd.next > Len(Proto) /\ rd.todo = {}

(* Mutant: a difference below zero wraps. *)
u64subWraps(a, b) == (a - b) % WordSize

u64sub(a, b) == IF a >= b THEN a - b ELSE 0

pushRing15(s, v) ==
  LET t == Append(s, v)
  IN  IF Len(t) > TrafficMinBuckets THEN SubSeq(t, Len(t) - TrafficMinBuckets + 1, Len(t)) ELSE t

pad15Ring(s) == [i \in 1..(TrafficMinBuckets - Len(s)) |-> 0] \o s

(* trafficHistoryTick: the first total makes no bar.                       *)
MinuteEnds ==
  /\ ReadDone /\ rd.for = "minute"
  /\ LET total == rd.sum
         bar   == u64sub(total, prev)
     IN  /\ ring' = IF prev = -1 THEN ring ELSE pushRing15(ring, bar)
         /\ bars' = IF prev = -1 THEN bars ELSE Append(bars, [bar |-> bar, fits |-> bar <= total])
         /\ prev' = total
  /\ rd' = NoRead /\ rows' = {} /\ stayed' = {}
  /\ UNCHANGED connState

ListShown ==
  /\ ReadDone /\ rd.for # "minute"
  /\ rd' = NoRead /\ rows' = {} /\ stayed' = {}
  /\ UNCHANGED <<connState, prev, ring, bars>>

TabNext ==
  \/ Snapshot \/ MinuteEnds \/ ListShown
  \/ \E why \in {"terminals", "apps", "minute"} : ReadBegins(why)
  \/ \E c \in ConnID :
       \/ Carry(c) \/ Unregister(c) \/ Kick(c) \/ Gone(c)
       \/ \E a \in TermAddr, t \in 1..MaxClock : LoggedIn(c, a, t)
       \/ \E p \in Protos : Detail(p, c) \/ \E r \in ConnRole : Enter(c, r, p)

TabSpec == TabInit /\ [][TabNext]_tabVars

-----------------------------------------------------------------------------
(* What becomes of the rows (fepWebTerminalRows, handleTerminals)          *)

SameTerminal(x, y) == x.proto = y.proto /\ x.addr = y.addr

(* A row takes the place of another of the same terminal: one that has     *)
(* logged in goes before one that has not, ...                             *)
Better(x, y) == x.login > y.login \/ (x.login = y.login /\ x.id > y.id)

Collapsed(rs, expand) ==
  IF expand THEN rs ELSE {x \in rs : \A y \in rs : SameTerminal(x, y) => ~Better(y, x)}

(* sortTerminalRows, by address (with an order of addresses that is given) *)
(* or by login time, and then by number: the orders in which the rows may  *)
(* be left, as they come in any.                                           *)
Before(rank, desc, x, y) ==
  IF rank[x] # rank[y] THEN desc <=> rank[x] > rank[y] ELSE x.id < y.id

sortTerminalRows(rs, rank, desc) ==
  {s \in [1..Cardinality(rs) -> rs] :
     \A i, j \in DOMAIN s : i < j => s[i] # s[j] /\ ~Before(rank, desc, s[j], s[i])}

(* The page asked for, or the last one.                                    *)
maxPage(all, size) == IF Len(all) > 0 THEN (Len(all) + size - 1) \div size ELSE 1

pageOf(all, page, size) ==
  LET last  == maxPage(all, size)
      start == ((IF page > last THEN last ELSE page) - 1) * size
      end   == start + size
  IN  SubSeq(all, start + 1, IF end > Len(all) THEN Len(all) ELSE end)

-----------------------------------------------------------------------------
(* Properties *)

(* Read page by page, the rows come once each and in their order: a row    *)
(* has its place on its page, and pages have no more than their rows.  A   *)
(* page beyond the last is the last.                                       *)
PagedWhole(all, size) ==
  LET last == maxPage(all, size)
  IN  /\ \A k \in DOMAIN all :
           LET n == (k - 1) \div size + 1
           IN  n \in 1..last /\ pageOf(all, n, size)[((k - 1) % size) + 1] = all[k]
      /\ \A n \in 1..last :
           Len(pageOf(all, n, size)) = IF n < last THEN size ELSE Len(all) - (last - 1) * size
      /\ pageOf(all, last + 1, size) = pageOf(all, last, size)

(* A connection that was registered from the first to the last moment of   *)
(* the reading has a row; if each terminal is shown once, its terminal has *)
(* one with a login as late (fepWebTerminalRows, fepWebAppRows, which copy *)
(* one registry after another).                                            *)
StayedShown ==
  \A s \in stayed : \E x \in rows :
    /\ x.proto = s[1] /\ x.id = s[2]
    /\ \E y \in Collapsed(rows, FALSE) : SameTerminal(x, y) /\ y.login >= x.login

(* What stays is in the list of terminals, and of masters; the rows of a  *)
(* list can be put in order, and then each of them is on one page          *)
(* (handleTerminals, sortTerminalRows).                                    *)
ListComplete ==
  ReadDone /\ rd.for \in {"terminals", "apps"} =>
    /\ StayedShown
    /\ rd.for = "terminals" =>
         \A expand \in BOOLEAN, desc \in BOOLEAN :
           LET rs     == Collapsed(rows, expand)
               orders == sortTerminalRows(rs, [x \in rs |-> x.login], desc)
           IN  /\ orders # {}
               /\ \A all \in orders :
                    /\ \A x \in rs : \E k \in DOMAIN all : all[k] = x
                    /\ \A size \in PageSize : PagedWhole(all, size)

(* The bars shown are the last ones, and none is more than was counted at  *)
(* its end, though connections that go take their counts with them         *)
(* (trafficHistoryTick, u64sub, pushRing15).                               *)
BarsRight ==
  /\ \A i \in DOMAIN bars : bars[i].fits
  /\ \A i \in 1..TrafficMinBuckets :
       LET k == Len(bars) - TrafficMinBuckets + i
       IN  pad15Ring(ring)[i] = IF k >= 1 THEN bars[k].bar ELSE 0
===============================================================================
