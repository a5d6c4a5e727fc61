------------------------------- MODULE Session -------------------------------
(***************************************************************************)
(* The front end's sessions (fep): what the workers do with login, data    *)
(* and logout frames of terminals and with frames of master stations, what *)
(* the OnConnStop hook does when a connection ends, and the state both     *)
(* touch: the connection's properties, the two registries, the connection  *)
(* manager and the 698 bridges.                                            *)
(*                                                                         *)
(* Frames of one connection are handled one after another by one worker,   *)
(* so a handler is in progress per connection at most; the handler, the    *)
(* handlers of other connections and the goroutine running Stop interleave *)
(* between any two lock-protected accesses.                                *)
(***************************************************************************)
EXTENDS Naturals, ConnIndex

CONSTANTS
  Addr, Msa,        (* terminal addresses and MSAs, the two kinds of Key   *)
  SupportComm, SupportCasLink,
  Bridging,         (* profile 698 with BridgeHost698 set                  *)
  NoBridge,
  MaxBridge         (* bound: bridges started for one connection           *)

ASSUME SessionAssumption ==
  /\ Key = Addr \cup Msa /\ Addr \cap Msa = {}
  /\ SupportComm \in BOOLEAN /\ SupportCasLink \in BOOLEAN
  /\ Bridging \in BOOLEAN
  /\ MaxBridge \in Nat
  /\ NoBridge \notin Conn \X Nat

Bridge == Conn \X (1..MaxBridge)

Frame == [kind : {"login", "heart"}, key : Addr]
           \cup [kind : {"data", "exit"}, key : {NoKey}]
           \cup [kind : {"request"}, key : Msa]

NoFrame == [kind |-> "none", key |-> NoKey]

(* The direction bit: which role a frame's sender claims. *)
Side(f) == IF f.kind = "request" THEN "app" ELSE "tmn"

VARIABLES
  inMgr,      (* the connections in ConnManager                            *)
  opened,     (* opened[c]: the connection was accepted and started        *)
  needStop,   (* needStop[c]                                               *)
  role,       (* role[c]: the status property: idle, tmn or app            *)
  addr,       (* addr[c]: the addr property                                *)
  refused,    (* refused[c]: history: a reply was refused since c last     *)
              (* registered an address                                     *)
  bridge,     (* bridge[c]: the bridge property                            *)
  running,    (* the bridges that were started and not stopped             *)
  made,       (* made[c]: how many bridges were started for c              *)
  tmn, app,   (* the two registries                                        *)
  at,         (* at[c]: where the handler of c's current frame is          *)
  frame,      (* frame[c]: that frame                                      *)
  todo,       (* todo[c]: connections whose bridge it has still to stop    *)
  victim,     (* victim[c]: the one whose bridge property it removes next  *)
  stopAt,     (* stopAt[c]: where the Stop of c is                         *)
  stopRole,   (* stopRole[c]: the status the hook read                     *)
  overlapped  (* overlapped[c]: history: c was stopped inside a handler    *)

connVars == <<inMgr, opened, needStop, role, addr, refused>>
brgVars  == <<bridge, running, made>>
jobVars  == <<at, frame, todo, victim>>
stopVars == <<stopAt, stopRole, overlapped>>
vars     == <<connVars, brgVars, tmn, app, jobVars, stopVars>>

stopped(c) == stopAt[c] # "none"

Init ==
  /\ inMgr = {}
  /\ opened = [c \in Conn |-> FALSE]
  /\ needStop = [c \in Conn |-> FALSE]
  /\ role = [c \in Conn |-> "idle"]
  /\ addr = [c \in Conn |-> NoKey]
  /\ refused = [c \in Conn |-> FALSE]
  /\ bridge = [c \in Conn |-> NoBridge]
  /\ running = {}
  /\ made = [c \in Conn |-> 0]
  /\ tmn = EmptyIndex
  /\ app = EmptyIndex
  /\ at = [c \in Conn |-> "idle"]
  /\ frame = [c \in Conn |-> NoFrame]
  /\ todo = [c \in Conn |-> {}]
  /\ victim = [c \in Conn |-> c]
  /\ stopAt = [c \in Conn |-> "none"]
  /\ stopRole = [c \in Conn |-> "idle"]
  /\ overlapped = [c \in Conn |-> FALSE]

(* The handler of c goes on, or returns. *)
Goto(c, l) == at' = [at EXCEPT ![c] = l] /\ UNCHANGED frame
Done(c)    == at' = [at EXCEPT ![c] = "idle"] /\ frame' = [frame EXCEPT ![c] = NoFrame]

-----------------------------------------------------------------------------
(* A connection is accepted; DoConnectionBegin makes it idle. *)
Open(c) ==
  /\ ~opened[c]
  /\ opened' = [opened EXCEPT ![c] = TRUE]
  /\ inMgr' = inMgr \cup {c}
  /\ UNCHANGED <<needStop, role, addr, refused, brgVars, tmn, app, jobVars, stopVars>>

(* Handle: IsStop is tested before anything else. *)
Begin(c, f) ==
  /\ opened[c] /\ at[c] = "idle"
  /\ ~needStop[c] /\ ~stopped(c)
  /\ at' = [at EXCEPT ![c] = "route"]
  /\ frame' = [frame EXCEPT ![c] = f]
  /\ UNCHANGED <<connVars, brgVars, tmn, app, todo, victim, stopVars>>

(* Mutant: the role of the connection is not tested. *)
RouteAnyRole(c) ==
  LET f == frame[c]
  IN  /\ at[c] = "route"
      /\ role' = [role EXCEPT ![c] = Side(f)]
      /\ IF f.kind \in {"login", "request"} THEN Goto(c, f.kind) ELSE Done(c)
      /\ UNCHANGED <<inMgr, opened, needStop, addr, refused, brgVars, tmn, app, todo,
                     victim, stopVars>>

(* The first half of both handlers: a sender that changes sides is told to *)
(* stop; the role is written; a heartbeat or a logout decides here whether *)
(* the connection is to stop.                                              *)
Route(c) ==
  LET f     == frame[c]
      wrong == role[c] \notin {"idle", Side(f)}
      ends  == \/ wrong
               \/ f.kind = "exit"
               \/ f.kind = "heart" /\ (role[c] = "idle" \/ addr[c] # f.key)
  IN  /\ at[c] = "route"
      /\ role' = [role EXCEPT ![c] = IF wrong THEN @ ELSE Side(f)]
      /\ needStop' = [needStop EXCEPT ![c] = @ \/ ends]
      /\ IF ~wrong /\ f.kind \in {"login", "request"} THEN Goto(c, f.kind) ELSE Done(c)
      /\ UNCHANGED <<inMgr, opened, addr, refused, brgVars, tmn, app, todo, victim,
                     stopVars>>

-----------------------------------------------------------------------------
(* Frames of master stations *)

(* registerOrUpdate, and the MSA as the address property if it is new. *)
Register(c) ==
  LET res == RegisterOrUpdate(app, c, frame[c].key)
  IN  /\ at[c] = "request"
      /\ app' = res.reg
      /\ addr' = [addr EXCEPT ![c] = IF res.isNew THEN frame[c].key ELSE @]
      /\ Done(c)
      /\ UNCHANGED <<inMgr, opened, needStop, role, refused, brgVars, tmn, todo,
                     victim, stopVars>>

-----------------------------------------------------------------------------
(* Login of a terminal *)

(* The address is on the blacklist (whose content is not modelled here). *)
RejectLogin(c) ==
  /\ at[c] = "login"
  /\ needStop' = [needStop EXCEPT ![c] = TRUE]
  /\ Done(c)
  /\ UNCHANGED <<inMgr, opened, role, addr, refused, brgVars, tmn, app, todo, victim,
                 stopVars>>

(* Mutant: any address that was set is taken for the one logging in. *)
LoginAgainAny(c) ==
  /\ at[c] = "login" /\ addr[c] # NoKey
  /\ Goto(c, "reply")
  /\ UNCHANGED <<connVars, brgVars, tmn, app, todo, victim, stopVars>>

(* The connection has this address already: only the reply is left. *)
LoginAgain(c) ==
  /\ at[c] = "login" /\ addr[c] = frame[c].key
  /\ Goto(c, "reply")
  /\ UNCHANGED <<connVars, brgVars, tmn, app, todo, victim, stopVars>>

(* Another address: tmnRegistry.Login.  With a bridge to manage, those of  *)
(* the evicted connections, or its own after an address change, are next.  *)
LoginNew(c) ==
  LET res == LoginResult(tmn, c, frame[c].key, SupportComm, SupportCasLink)
  IN  /\ at[c] = "login" /\ addr[c] # frame[c].key
      /\ tmn' = res.reg
      /\ todo' = [todo EXCEPT ![c] = IF ~Bridging THEN {}
                                     ELSE res.evicted \cup IF res.reset THEN {c} ELSE {}]
      /\ Goto(c, IF Bridging /\ res.isNew THEN "evictThenBridge"
                 ELSE IF Bridging THEN "evict" ELSE "reply")
      /\ refused' = [refused EXCEPT ![c] = FALSE]
      /\ UNCHANGED <<inMgr, opened, needStop, role, addr, brgVars, app, victim, stopVars>>

Evicting == {"evict", "evictThenBridge"}

(* stopBridgeForConnID(v), first half: nothing if v has left the manager   *)
(* or has no bridge, otherwise stop the bridge found.                      *)
EvictStop(c, v) ==
  LET found == v \in inMgr /\ bridge[v] # NoBridge
  IN  /\ at[c] \in Evicting /\ victim[c] = c /\ v \in todo[c]
      /\ todo' = [todo EXCEPT ![c] = @ \ {v}]
      /\ IF found
         THEN /\ running' = running \ {bridge[v]}
              /\ Goto(c, IF at[c] = "evict" THEN "drop" ELSE "dropThenBridge")
         ELSE UNCHANGED <<running, at, frame>>
      /\ victim' = [victim EXCEPT ![c] = IF found THEN v ELSE @]
      /\ UNCHANGED <<connVars, bridge, made, tmn, app, stopVars>>

(* Second half: RemoveProperty("bridge"), whatever it holds by now. *)
EvictDrop(c) ==
  /\ at[c] \in {"drop", "dropThenBridge"}
  /\ bridge' = [bridge EXCEPT ![victim[c]] = NoBridge]
  /\ victim' = [victim EXCEPT ![c] = c]
  /\ Goto(c, IF at[c] = "drop" THEN "evict" ELSE "evictThenBridge")
  /\ UNCHANGED <<connVars, running, made, tmn, app, todo, stopVars>>

(* Mutant: a login that moved the connection ends once the bridge is stopped. *)
EvictDoneNoBridge(c) ==
  /\ at[c] \in Evicting /\ todo[c] = {}
  /\ Goto(c, "reply")
  /\ UNCHANGED <<connVars, brgVars, tmn, app, todo, victim, stopVars>>

EvictDone(c) ==
  /\ at[c] \in Evicting /\ todo[c] = {}
  /\ Goto(c, IF at[c] = "evict" THEN "reply" ELSE "stopOld")
  /\ UNCHANGED <<connVars, brgVars, tmn, app, todo, victim, stopVars>>

(* tryStartBridge698: stop the bridge the connection has ...               *)
StopOldBridge(c) ==
  /\ at[c] = "stopOld"
  /\ running' = running \ {bridge[c]}
  /\ Goto(c, "newBridge")
  /\ UNCHANGED <<connVars, bridge, made, tmn, app, todo, victim, stopVars>>

(* ... then start a new one and make it the bridge property. *)
NewBridge(c) ==
  LET b == <<c, made[c] + 1>>
  IN  /\ at[c] = "newBridge" /\ made[c] < MaxBridge
      /\ made' = [made EXCEPT ![c] = @ + 1]
      /\ running' = running \cup {b}
      /\ bridge' = [bridge EXCEPT ![c] = b]
      /\ Goto(c, "reply")
      /\ UNCHANGED <<connVars, tmn, app, todo, victim, stopVars>>

(* SendBuffMsg of the reply, which a full or a closed buffer refuses: the  *)
(* address property follows if it worked.                                  *)
Reply(c, sent) ==
  /\ at[c] = "reply"
  /\ refused' = [refused EXCEPT ![c] = @ \/ ~sent]
  /\ addr' = [addr EXCEPT ![c] = IF sent THEN frame[c].key ELSE @]
  /\ Done(c)
  /\ UNCHANGED <<inMgr, opened, needStop, role, brgVars, tmn, app, todo,
                 victim, stopVars>>

-----------------------------------------------------------------------------
(* Stop and its hook DoConnectionLost *)

(* The reader's error, the sweep or the console: Stop begins. *)
StopBegin(c) ==
  /\ opened[c] /\ ~stopped(c)
  /\ stopAt' = [stopAt EXCEPT ![c] = "status"]
  /\ overlapped' = [overlapped EXCEPT ![c] = at[c] # "idle"]
  /\ UNCHANGED <<connVars, brgVars, tmn, app, jobVars, stopRole>>

StopStatus(c) ==
  /\ stopAt[c] = "status"
  /\ stopRole' = [stopRole EXCEPT ![c] = role[c]]
  /\ stopAt' = [stopAt EXCEPT ![c] = CASE role[c] = "tmn"  -> "bridge"
                                       [] role[c] = "app"  -> "unregister"
                                       [] role[c] = "idle" -> "remove"]
  /\ UNCHANGED <<connVars, brgVars, tmn, app, jobVars, overlapped>>

(* Mutant: the property is removed and the bridge is not stopped. *)
StopBridgeForgets(c) ==
  /\ stopAt[c] = "bridge"
  /\ stopAt' = [stopAt EXCEPT ![c] = IF bridge[c] = NoBridge THEN "unregister"
                                     ELSE "drop"]
  /\ UNCHANGED <<connVars, brgVars, tmn, app, jobVars, stopRole, overlapped>>

StopBridge(c) ==
  /\ stopAt[c] = "bridge"
  /\ running' = running \ {bridge[c]}
  /\ stopAt' = [stopAt EXCEPT ![c] = IF bridge[c] = NoBridge THEN "unregister"
                                     ELSE "drop"]
  /\ UNCHANGED <<connVars, bridge, made, tmn, app, jobVars, stopRole, overlapped>>

StopDrop(c) ==
  /\ stopAt[c] = "drop"
  /\ bridge' = [bridge EXCEPT ![c] = NoBridge]
  /\ stopAt' = [stopAt EXCEPT ![c] = "unregister"]
  /\ UNCHANGED <<connVars, running, made, tmn, app, jobVars, stopRole, overlapped>>

(* Mutant: only the terminals' registry is cleared. *)
StopUnregisterTmn(c) ==
  /\ stopAt[c] = "unregister"
  /\ tmn' = RemoveConn(tmn, c)
  /\ stopAt' = [stopAt EXCEPT ![c] = "remove"]
  /\ UNCHANGED <<connVars, brgVars, app, jobVars, stopRole, overlapped>>

(* removeConn of the one registry the status names. *)
StopUnregister(c) ==
  /\ stopAt[c] = "unregister"
  /\ tmn' = IF stopRole[c] = "tmn" THEN RemoveConn(tmn, c) ELSE tmn
  /\ app' = IF stopRole[c] = "app" THEN RemoveConn(app, c) ELSE app
  /\ stopAt' = [stopAt EXCEPT ![c] = "remove"]
  /\ UNCHANGED <<connVars, brgVars, jobVars, stopRole, overlapped>>

StopRemove(c) ==
  /\ stopAt[c] = "remove"
  /\ inMgr' = inMgr \ {c}
  /\ stopAt' = [stopAt EXCEPT ![c] = "done"]
  /\ UNCHANGED <<opened, needStop, role, addr, refused, brgVars, tmn, app, jobVars, stopRole,
                 overlapped>>

-----------------------------------------------------------------------------
LoginNext(c) == \/ RejectLogin(c) \/ LoginAgain(c) \/ LoginNew(c)
                \/ \E v \in Conn : EvictStop(c, v)
                \/ EvictDrop(c) \/ EvictDone(c)
                \/ StopOldBridge(c) \/ NewBridge(c)
                \/ \E sent \in BOOLEAN : Reply(c, sent)
StopNext(c)  == \/ StopBegin(c) \/ StopStatus(c) \/ StopBridge(c) \/ StopDrop(c)
                \/ StopUnregister(c) \/ StopRemove(c)

Next == \E c \in Conn : \/ Open(c)
                        \/ \E f \in Frame : Begin(c, f)
                        \/ Route(c) \/ Register(c)
                        \/ LoginNext(c) \/ StopNext(c)

Spec == Init /\ [][Next]_vars

-----------------------------------------------------------------------------
(* Types. *)
TypeOK ==
  /\ inMgr \subseteq Conn
  /\ opened \in [Conn -> BOOLEAN]
  /\ needStop \in [Conn -> BOOLEAN]
  /\ role \in [Conn -> {"idle", "tmn", "app"}]
  /\ addr \in [Conn -> Key \cup {NoKey}] /\ refused \in [Conn -> BOOLEAN]
  /\ bridge \in [Conn -> Bridge \cup {NoBridge}]
  /\ running \subseteq Bridge
  /\ made \in [Conn -> 0..MaxBridge]
  /\ tmn \in Index /\ app \in Index
  /\ at \in [Conn -> {"idle", "route", "login", "request", "reply", "stopOld",
                     "newBridge", "drop", "dropThenBridge"} \cup Evicting]
  /\ frame \in [Conn -> Frame \cup {NoFrame}]
  /\ todo \in [Conn -> SUBSET Conn]
  /\ victim \in [Conn -> Conn]
  /\ stopAt \in [Conn -> {"none", "status", "bridge", "drop", "unregister",
                         "remove", "done"}]
  /\ stopRole \in [Conn -> {"idle", "tmn", "app"}]
  /\ overlapped \in [Conn -> BOOLEAN]

Registered(c)  == tmn.byConn[c] # NoKey \/ app.byConn[c] # NoKey
BridgesOf(c)   == {b \in running : b[1] = c}
Settled(c)     == opened[c] /\ at[c] = "idle" /\ ~stopped(c)

(* The hook clears one registry, the one the status names, so a connection *)
(* may only ever be registered on the side its status says (app.go:90-113). *)
RegisteredAsRole ==
  \A c \in Conn : /\ tmn.byConn[c] # NoKey => role[c] = "tmn"
                  /\ app.byConn[c] # NoKey => role[c] = "app"

(* A connection stopped between two frames leaves both registries.         *)
StopUnregisters ==
  \A c \in Conn : stopAt[c] = "done" /\ ~overlapped[c] => ~Registered(c)

(* ... and leaves no bridge running that nobody can reach any more.        *)
StopEndsBridges ==
  \A c \in Conn : stopAt[c] = "done" /\ ~overlapped[c] => BridgesOf(c) = {}

(* A registered terminal has exactly one bridge, the one its property      *)
(* names, whatever addresses it logged in with before.                     *)
OneBridgeEach ==
  \A c \in Conn : Bridging /\ Settled(c) /\ tmn.byConn[c] # NoKey
                   => BridgesOf(c) = {bridge[c]}

(* The address property is the registered address (connutil.go:98), unless *)
(* a reply was refused since that was registered: a login that finds its   *)
(* address there is answered without registering it.                       *)
AddrIsRegistered ==
  \A c \in Conn : Settled(c) /\ addr[c] # NoKey /\ ~refused[c]
                   => addr[c] = IF role[c] = "app" THEN app.byConn[c] ELSE tmn.byConn[c]

(* When a connection has gone its bridge and its registration are gone     *)
(* (README.md:25), also if it was stopped while a frame was handled.       *)
CleanStop ==
  \A c \in Conn : stopAt[c] = "done" /\ at[c] = "idle"
                   => ~Registered(c) /\ BridgesOf(c) = {}
=============================================================================
