---------------------------- MODULE SessionProofs ----------------------------
(***************************************************************************)
(* For every set of connections, addresses and MSAs and every setting: a   *)
(* connection is only ever registered on the side its status names, and a  *)
(* connection stopped between two frames leaves both registries.  Where    *)
(* connections may share an address, also: a registered terminal has one   *)
(* bridge, its address property is the registered address, and a Stop      *)
(* between two frames leaves no bridge running.                            *)
(***************************************************************************)
EXTENDS MCSession, ConnIndexProofs

(* Where a handler is while it works on a terminal's login. *)
TmnWork == {"login", "reply", "stopOld", "newBridge", "drop", "dropThenBridge"}
             \cup Evicting

(* A handler that will register its connection has written the status: the *)
(* half of a handler before the registry and the half after it agree.      *)
HandlerRole ==
  \A c \in Conn : /\ at[c] = "route" => frame[c] \in Frame
                  /\ at[c] \in TmnWork => role[c] = "tmn" /\ frame[c].key \in Addr
                  /\ at[c] = "request" => role[c] = "app" /\ frame[c].key \in Msa

(* The progress of a Stop that met no handler: the status the hook read is *)
(* still the connection's, so the registry it clears is the right one.     *)
StopOrder ==
  \A c \in Conn : stopped(c) /\ ~overlapped[c] =>
    /\ at[c] = "idle"
    /\ stopAt[c] # "status" => stopRole[c] = role[c]
    /\ stopAt[c] \in {"remove", "done"} => ~Registered(c)

(* The inductive invariant. *)
Inv == /\ TypeOK
       /\ Sound(tmn) /\ Sound(app)
       /\ RegisteredAsRole
       /\ HandlerRole
       /\ StopOrder

LEMMA InitInv == Init => Inv
<1> SUFFICES ASSUME Init PROVE Inv
  OBVIOUS
<1>1. Sound(tmn) /\ Sound(app)
  BY EmptySound DEF Init
<1>2. tmn.byConn = [c \in Conn |-> NoKey] /\ app.byConn = [c \in Conn |-> NoKey]
  BY DEF Init, EmptyIndex
<1>3. TypeOK
  BY <1>1, SessionAssumption DEF Init, TypeOK, Sound
<1>4. RegisteredAsRole
  BY <1>2 DEF RegisteredAsRole
<1>5. HandlerRole
  BY DEF Init, HandlerRole, TmnWork, Evicting
<1>6. StopOrder
  BY DEF Init, StopOrder, stopped
<1>7. QED
  BY <1>1, <1>3, <1>4, <1>5, <1>6 DEF Inv

(* Every step of a handler and of a Stop keeps the types. *)
LEMMA NextTypes ==
  ASSUME TypeOK, HandlerRole, Next, tmn' \in Index, app' \in Index
  PROVE  TypeOK'
<1> USE SessionAssumption DEF TypeOK, connVars, brgVars, jobVars, stopVars
<1>1. PICK c \in Conn : \/ Open(c) \/ (\E f \in Frame : Begin(c, f))
                       \/ Route(c) \/ Register(c)
                       \/ LoginNext(c) \/ StopNext(c)
  BY DEF Next
<1>2. ASSUME Open(c)
      PROVE  TypeOK'
  BY <1>2 DEF Open, Goto, Done, Evicting, Frame, NoFrame, Bridge
<1>3. ASSUME NEW f \in Frame, Begin(c, f)
      PROVE  TypeOK'
  BY <1>3 DEF Begin, Goto, Done, Evicting, Frame, NoFrame, Bridge
<1>4. ASSUME Route(c)
      PROVE  TypeOK'
  <2> DEFINE f     == frame[c]
             wrong == role[c] \notin {"idle", Side(f)}
             ends  == \/ wrong
                      \/ f.kind = "exit"
                      \/ f.kind = "heart" /\ (role[c] = "idle" \/ addr[c] # f.key)
  <2>1. needStop' \in [Conn -> BOOLEAN]
    <3>1. needStop' = [needStop EXCEPT ![c] = needStop[c] \/ ends]
      BY <1>4 DEF Route
    <3>2. (needStop[c] \/ ends) \in BOOLEAN
      OBVIOUS
    <3> HIDE DEF ends
    <3>3. QED
      BY <3>1, <3>2
  <2>2. role' \in [Conn -> {"idle", "tmn", "app"}]
    BY <1>4 DEF Route, Side
  <2>3. /\ at' \in [Conn -> {"idle", "route", "login", "request", "reply", "stopOld",
                            "newBridge", "drop", "dropThenBridge"} \cup Evicting]
        /\ frame' \in [Conn -> Frame \cup {NoFrame}]
    BY <1>4 DEF Route, Goto, Done
  <2>4. UNCHANGED <<inMgr, opened, addr, refused, brgVars, tmn, app, todo, victim, stopVars>>
    BY <1>4 DEF Route
  <2>5. QED
    BY <2>1, <2>2, <2>3, <2>4
<1>5. ASSUME Register(c)
      PROVE  TypeOK'
  <2>1. frame[c].key \in Key \cup {NoKey}
    BY DEF Frame, NoFrame
  <2>2. QED
    BY <1>5, <2>1 DEF Register, Done
<1>6. ASSUME RejectLogin(c)
      PROVE  TypeOK'
  BY <1>6 DEF RejectLogin, Goto, Done, Evicting, Frame, NoFrame, Bridge
<1>7. ASSUME LoginAgain(c)
      PROVE  TypeOK'
  BY <1>7 DEF LoginAgain, Goto, Done, Evicting, Frame, NoFrame, Bridge
<1>8. ASSUME LoginNew(c)
      PROVE  TypeOK'
  <2> DEFINE res == LoginResult(tmn, c, frame[c].key, SupportComm, SupportCasLink)
  <2>1. res.evicted \subseteq Conn
    <3>1. frame[c].key \in Key
      BY <1>8 DEF HandlerRole, TmnWork, LoginNew
    <3>2. Members(tmn.byKey, frame[c].key) \subseteq Conn
      BY <3>1 DEF Members, Index
    <3>3. QED
      BY <3>2 DEF LoginResult
  <2>2. todo' \in [Conn -> SUBSET Conn]
    <3> HIDE DEF res
    <3>1. QED
      BY <1>8, <2>1 DEF LoginNew, res
  <2>3. at' \in [Conn -> {"idle", "route", "login", "request", "reply", "stopOld",
                         "newBridge", "drop", "dropThenBridge"} \cup Evicting]
    BY <1>8 DEF LoginNew, Goto, Evicting
  <2>4. /\ UNCHANGED <<inMgr, opened, needStop, role, addr, brgVars, frame, victim, stopVars>>
        /\ refused' \in [Conn -> BOOLEAN]
    BY <1>8 DEF LoginNew, Goto
  <2>5. tmn' \in Index /\ app' \in Index
    BY <1>8 DEF LoginNew
  <2>6. QED
    BY <2>2, <2>3, <2>4, <2>5
<1>9. ASSUME NEW v \in Conn, EvictStop(c, v)
      PROVE  TypeOK'
  BY <1>9 DEF EvictStop, Goto, Done, Evicting, Frame, NoFrame, Bridge
<1>10. ASSUME EvictDrop(c)
      PROVE  TypeOK'
  BY <1>10 DEF EvictDrop, Goto, Done, Evicting, Frame, NoFrame, Bridge
<1>11. ASSUME EvictDone(c)
      PROVE  TypeOK'
  BY <1>11 DEF EvictDone, Goto, Done, Evicting, Frame, NoFrame, Bridge
<1>12. ASSUME StopOldBridge(c)
      PROVE  TypeOK'
  BY <1>12 DEF StopOldBridge, Goto, Done, Evicting, Frame, NoFrame, Bridge
<1>13. ASSUME NewBridge(c)
      PROVE  TypeOK'
  BY <1>13 DEF NewBridge, Goto, Done, Evicting, Frame, NoFrame, Bridge
<1>14. ASSUME NEW sent \in BOOLEAN, Reply(c, sent)
      PROVE  TypeOK'
  BY <1>14 DEF Reply, Goto, Done, Evicting, Frame, NoFrame, Bridge
<1>15. ASSUME StopBegin(c)
      PROVE  TypeOK'
  BY <1>15 DEF StopBegin, Goto, Done, Evicting, Frame, NoFrame, Bridge
<1>16. ASSUME StopStatus(c)
      PROVE  TypeOK'
  BY <1>16 DEF StopStatus, Goto, Done, Evicting, Frame, NoFrame, Bridge
<1>17. ASSUME StopBridge(c)
      PROVE  TypeOK'
  BY <1>17 DEF StopBridge, Goto, Done, Evicting, Frame, NoFrame, Bridge
<1>18. ASSUME StopDrop(c)
      PROVE  TypeOK'
  BY <1>18 DEF StopDrop, Goto, Done, Evicting, Frame, NoFrame, Bridge
<1>19. ASSUME StopUnregister(c)
      PROVE  TypeOK'
  BY <1>19 DEF StopUnregister, Goto, Done, Evicting, Frame, NoFrame, Bridge
<1>20. ASSUME StopRemove(c)
      PROVE  TypeOK'
  BY <1>20 DEF StopRemove, Goto, Done, Evicting, Frame, NoFrame, Bridge
<1>21. QED
  BY <1>1, <1>2, <1>3, <1>4, <1>5, <1>6, <1>7, <1>8, <1>9, <1>10, <1>11, <1>12, <1>13, <1>14, <1>15, <1>16, <1>17, <1>18, <1>19, <1>20 DEF LoginNext, StopNext

(* The login of a frame means what LoginMeaning says. *)
LEMMA LoginStep ==
  ASSUME Inv, NEW c \in Conn, LoginNew(c)
  PROVE  LoginMeans(tmn, c, frame[c].key, SupportComm, SupportCasLink,
                    LoginResult(tmn, c, frame[c].key, SupportComm, SupportCasLink))
<1>1. frame[c].key \in Key
  BY SessionAssumption DEF Inv, HandlerRole, TmnWork, LoginNew
<1>2. Sound(tmn)
  BY DEF Inv
<1>3. QED
  BY <1>1, <1>2, LoginMeaning, SessionAssumption

(* What a step may do to the registries: only a handler that has a login   *)
(* or a request adds its own connection, any step may remove connections.  *)
LEMMA NextRegistries ==
  ASSUME Inv, Next
  PROVE  /\ Sound(tmn') /\ Sound(app')
         /\ \A d \in Conn :
              /\ tmn'.byConn[d] # NoKey => tmn.byConn[d] # NoKey \/ at[d] = "login"
              /\ app'.byConn[d] # NoKey => app.byConn[d] # NoKey \/ at[d] = "request"
<1> USE DEF connVars, brgVars, jobVars, stopVars
<1>0. /\ Sound(tmn) /\ Sound(app)
      /\ tmn.byConn \in [Conn -> Key \cup {NoKey}]
      /\ app.byConn \in [Conn -> Key \cup {NoKey}]
  BY DEF Inv, Sound, Index
<1>1. ASSUME NEW c \in Conn, Register(c)
      PROVE  /\ Sound(app') /\ UNCHANGED tmn
             /\ \A d \in Conn : app'.byConn[d] # NoKey
                                => app.byConn[d] # NoKey \/ at[d] = "request"
  <2>1. frame[c].key \in Key /\ at[c] = "request"
    BY <1>1, SessionAssumption DEF Inv, HandlerRole, Register
  <2>2. /\ Sound(app')
        /\ app'.byConn = [app.byConn EXCEPT ![c] = frame[c].key]
    BY <1>0, <1>1, <2>1, RegisterMeaning DEF Register
  <2>3. QED
    BY <1>0, <1>1, <2>1, <2>2 DEF Register
<1>2. ASSUME NEW c \in Conn, LoginNew(c)
      PROVE  /\ Sound(tmn') /\ UNCHANGED app
             /\ \A d \in Conn : tmn'.byConn[d] # NoKey
                                => tmn.byConn[d] # NoKey \/ at[d] = "login"
  <2> DEFINE res == LoginResult(tmn, c, frame[c].key, SupportComm, SupportCasLink)
  <2>1. at[c] = "login"
    BY <1>2 DEF LoginNew
  <2>2. LoginMeans(tmn, c, frame[c].key, SupportComm, SupportCasLink, res)
    BY <1>2, LoginStep
  <2>3. tmn' = res.reg /\ UNCHANGED app
    BY <1>2 DEF LoginNew
  <2> HIDE DEF res
  <2>4. QED
    BY <2>1, <2>2, <2>3 DEF LoginMeans
<1>3. ASSUME NEW c \in Conn, StopUnregister(c)
      PROVE  /\ Sound(tmn') /\ Sound(app')
             /\ \A d \in Conn :
                  /\ tmn'.byConn[d] # NoKey => tmn.byConn[d] # NoKey \/ at[d] = "login"
                  /\ app'.byConn[d] # NoKey => app.byConn[d] # NoKey \/ at[d] = "request"
  <2>1. /\ Sound(RemoveConns(tmn, {c})) /\ Sound(RemoveConns(app, {c}))
        /\ RemoveConns(tmn, {c}).byConn
             = [d \in Conn |-> IF d \in {c} THEN NoKey ELSE tmn.byConn[d]]
        /\ RemoveConns(app, {c}).byConn
             = [d \in Conn |-> IF d \in {c} THEN NoKey ELSE app.byConn[d]]
    BY <1>0, RemoveConnsSound
  <2>2. QED
    BY <1>0, <1>3, <2>1 DEF StopUnregister, RemoveConn
<1>4. ASSUME NEW c \in Conn,
             \/ Open(c) \/ (\E f \in Frame : Begin(c, f)) \/ Route(c)
             \/ RejectLogin(c) \/ LoginAgain(c)
             \/ (\E v \in Conn : EvictStop(c, v)) \/ EvictDrop(c) \/ EvictDone(c)
             \/ StopOldBridge(c) \/ NewBridge(c)
             \/ (\E sent \in BOOLEAN : Reply(c, sent))
             \/ StopBegin(c) \/ StopStatus(c) \/ StopBridge(c) \/ StopDrop(c)
             \/ StopRemove(c)
      PROVE  UNCHANGED <<tmn, app>>
  BY <1>4 DEF Open, Begin, Route, RejectLogin, LoginAgain, EvictStop, EvictDrop,
     EvictDone, StopOldBridge, NewBridge, Reply, StopBegin, StopStatus, StopBridge,
     StopDrop, StopRemove
<1>5. PICK c \in Conn : \/ Open(c) \/ (\E f \in Frame : Begin(c, f))
                       \/ Route(c) \/ Register(c)
                       \/ LoginNext(c) \/ StopNext(c)
  BY DEF Next
<1>6. CASE Register(c)
  BY <1>0, <1>1, <1>6
<1>7. CASE LoginNew(c)
  BY <1>0, <1>2, <1>7
<1>8. CASE StopUnregister(c)
  BY <1>3, <1>8, Zenon
<1>9. CASE UNCHANGED <<tmn, app>>
  BY <1>0, <1>9
<1>10. Register(c) \/ LoginNew(c) \/ StopUnregister(c) \/ UNCHANGED <<tmn, app>>
  BY <1>4, <1>5, Zenon DEF LoginNext, StopNext
<1>11. QED
  BY <1>6, <1>7, <1>8, <1>9, <1>10

(* A handler leaves alone the Stops and what other handlers work on.       *)
HandlerNext(c) == Route(c) \/ Register(c) \/ LoginNext(c)

LEMMA HandlerFrame ==
  ASSUME TypeOK, NEW c \in Conn, HandlerNext(c)
  PROVE  /\ at[c] # "idle" /\ UNCHANGED stopVars
         /\ \A d \in Conn \ {c} : /\ at'[d] = at[d] /\ frame'[d] = frame[d]
                                   /\ role'[d] = role[d]
BY DEF TypeOK, HandlerNext, LoginNext, Route, Register, RejectLogin, LoginAgain, LoginNew,
   EvictStop, EvictDrop, EvictDone, StopOldBridge, NewBridge, Reply, Goto, Done, Evicting,
   connVars, stopVars

(* A Stop leaves alone the handlers. *)
LEMMA StopFrame ==
  ASSUME NEW c \in Conn, StopNext(c)
  PROVE  UNCHANGED <<at, frame, role>>
BY DEF StopNext, StopBegin, StopStatus, StopBridge, StopDrop, StopUnregister, StopRemove,
   connVars, jobVars

(* Only a handler that found no status yet writes another one. *)
LEMMA RoleOnce ==
  ASSUME TypeOK, Next, NEW d \in Conn
  PROVE  role'[d] # role[d] => at[d] = "route" /\ role[d] = "idle"
<1>1. ASSUME NEW c \in Conn, Route(c)
      PROVE  role'[d] # role[d] => at[d] = "route" /\ role[d] = "idle"
  <2>1. at[c] = "route" /\ role \in [Conn -> {"idle", "tmn", "app"}]
    BY <1>1 DEF TypeOK, Route
  <2>2. role' = [role EXCEPT ![c] = IF role[c] \notin {"idle", Side(frame[c])} THEN role[c]
                                    ELSE Side(frame[c])]
    BY <1>1 DEF Route
  <2>3. QED
    BY <2>1, <2>2
<1>2. ASSUME NEW c \in Conn, \/ Open(c) \/ (\E f \in Frame : Begin(c, f))
                            \/ Register(c) \/ LoginNext(c) \/ StopNext(c)
      PROVE  UNCHANGED role
  BY <1>2, StopFrame DEF Open, Begin, Register, LoginNext, RejectLogin, LoginAgain, LoginNew,
     EvictStop, EvictDrop, EvictDone, StopOldBridge, NewBridge, Reply, connVars
<1>3. QED
  BY <1>1, <1>2 DEF Next

-----------------------------------------------------------------------------
(* Every step of a handler and of a Stop keeps the invariant. *)
LEMMA NextInv == Inv /\ [Next]_vars => Inv'
<1> SUFFICES ASSUME Inv, Next PROVE Inv'
  <2>1. CASE UNCHANGED vars
    BY <2>1 DEF Inv, TypeOK, RegisteredAsRole, HandlerRole, StopOrder, Registered, stopped,
       vars, connVars, brgVars, jobVars, stopVars
  <2>2. QED
    BY <2>1
<1>1. PICK c \in Conn : Open(c) \/ (\E f \in Frame : Begin(c, f)) \/ HandlerNext(c) \/ StopNext(c)
  BY DEF Next, HandlerNext
<1>2. /\ Sound(tmn') /\ Sound(app')
      /\ \A d \in Conn :
           /\ tmn'.byConn[d] # NoKey => tmn.byConn[d] # NoKey \/ at[d] = "login"
           /\ app'.byConn[d] # NoKey => app.byConn[d] # NoKey \/ at[d] = "request"
  BY NextRegistries
<1>3. TypeOK'
  BY <1>2, NextTypes DEF Inv, Sound
<1>4. RegisteredAsRole'
  <2> SUFFICES ASSUME NEW d \in Conn
               PROVE  /\ tmn'.byConn[d] # NoKey => role'[d] = "tmn"
                      /\ app'.byConn[d] # NoKey => role'[d] = "app"
    BY DEF RegisteredAsRole
  <2>1. role'[d] # role[d] => at[d] = "route" /\ role[d] = "idle"
    BY RoleOnce DEF Inv
  <2>2. QED
    BY <1>2, <2>1 DEF Inv, RegisteredAsRole, HandlerRole, TmnWork
<1>5. HandlerRole'
  <2>1. ASSUME NEW f \in Frame, Begin(c, f)
        PROVE  HandlerRole'
    BY <2>1 DEF Begin, Inv, TypeOK, HandlerRole, TmnWork, Evicting, connVars
  <2>2. CASE Open(c) \/ StopNext(c)
    BY <2>2, StopFrame DEF Open, Inv, HandlerRole, jobVars
  <2>3. CASE Route(c)
    BY <2>3, HandlerFrame
       DEF HandlerNext, Route, Side, Goto, Done, Frame, NoFrame, Inv, TypeOK, HandlerRole,
       TmnWork, Evicting
  <2>4. CASE Register(c)
    BY <2>4 DEF Register, Done, Inv, TypeOK, HandlerRole, TmnWork, Evicting
  <2>5. CASE LoginNext(c)
    BY <2>5
       DEF LoginNext, RejectLogin, LoginAgain, LoginNew, EvictStop, EvictDrop, EvictDone,
       StopOldBridge, NewBridge, Reply, Goto, Done, Inv, TypeOK, HandlerRole, TmnWork,
       Evicting, connVars
  <2>6. QED
    BY <1>1, <2>1, <2>2, <2>3, <2>4, <2>5 DEF HandlerNext
<1>6. StopOrder'
  <2> SUFFICES ASSUME NEW d \in Conn, stopAt'[d] # "none", ~overlapped'[d]
               PROVE  /\ at'[d] = "idle"
                      /\ stopAt'[d] # "status" => stopRole'[d] = role'[d]
                      /\ stopAt'[d] \in {"remove", "done"}
                           => tmn'.byConn[d] = NoKey /\ app'.byConn[d] = NoKey
    BY DEF StopOrder, stopped, Registered
  <2>1. stopAt[d] # "none" /\ ~overlapped[d] =>
          /\ at[d] = "idle"
          /\ stopAt[d] # "status" => stopRole[d] = role[d]
          /\ stopAt[d] \in {"remove", "done"}
               => tmn.byConn[d] = NoKey /\ app.byConn[d] = NoKey
    BY DEF Inv, StopOrder, stopped, Registered
  <2>2. CASE Open(c)
    BY <1>2, <2>1, <2>2 DEF Open, jobVars, stopVars
  <2>3. CASE \E f \in Frame : Begin(c, f)
    BY <1>2, <2>1, <2>3 DEF Begin, Inv, TypeOK, stopped, connVars, stopVars
  <2>4. CASE HandlerNext(c)
    <3>1. TypeOK
      BY DEF Inv
    <3>2. /\ at[c] # "idle" /\ UNCHANGED stopVars
          /\ \A e \in Conn \ {c} : at'[e] = at[e] /\ role'[e] = role[e]
      BY <2>4, <3>1, HandlerFrame
    <3>3. d # c
      BY <2>1, <3>2 DEF stopVars
    <3>4. QED
      BY <1>2, <2>1, <3>2, <3>3 DEF stopVars
  <2>5. CASE StopNext(c)
    <3>1. UNCHANGED <<at, frame, role>>
      BY <2>5, StopFrame
    <3>2. stopAt \in [Conn -> {"none", "status", "bridge", "drop", "unregister",
                             "remove", "done"}]
          /\ stopRole \in [Conn -> {"idle", "tmn", "app"}]
          /\ role \in [Conn -> {"idle", "tmn", "app"}]
          /\ overlapped \in [Conn -> BOOLEAN]
      BY DEF Inv, TypeOK
    <3>3. CASE StopBegin(c)
      BY <1>2, <2>1, <3>1, <3>2, <3>3 DEF StopBegin, stopped
    <3>4. CASE StopStatus(c)
      BY <1>2, <2>1, <3>1, <3>2, <3>4 DEF StopStatus, Inv, RegisteredAsRole
    <3>5. CASE StopBridge(c) \/ StopDrop(c) \/ StopRemove(c)
      BY <1>2, <2>1, <3>1, <3>2, <3>5 DEF StopBridge, StopDrop, StopRemove
    <3>6. CASE StopUnregister(c)
      <4>1. /\ RemoveConn(tmn, c).byConn
                 = [e \in Conn |-> IF e \in {c} THEN NoKey ELSE tmn.byConn[e]]
            /\ RemoveConn(app, c).byConn
                 = [e \in Conn |-> IF e \in {c} THEN NoKey ELSE app.byConn[e]]
        BY DEF RemoveConn, RemoveConns
      <4>2. CASE d = c
        <5>1. stopRole[c] = role[c] /\ role'[c] = role[c] /\ stopRole'[c] = stopRole[c]
          BY <2>1, <3>1, <3>6, <4>2 DEF StopUnregister
        <5>2. tmn'.byConn[c] = NoKey
          BY <3>6, <4>1, <5>1 DEF StopUnregister, Inv, RegisteredAsRole
        <5>3. app'.byConn[c] = NoKey
          BY <3>6, <4>1, <5>1 DEF StopUnregister, Inv, RegisteredAsRole
        <5>4. QED
          BY <2>1, <3>1, <3>6, <4>2, <5>1, <5>2, <5>3 DEF StopUnregister
      <4>3. CASE d # c
        BY <1>2, <2>1, <3>1, <3>2, <3>6, <4>3 DEF StopUnregister
      <4>4. QED
        BY <4>2, <4>3
    <3>7. QED
      BY <2>5, <3>3, <3>4, <3>5, <3>6 DEF StopNext
  <2>6. QED
    BY <1>1, <2>2, <2>3, <2>4, <2>5
<1>7. QED
  BY <1>2, <1>3, <1>4, <1>5, <1>6 DEF Inv

(* The invariant holds in every reachable state. *)
THEOREM Invariance == Spec => []Inv
BY InitInv, NextInv, PTL DEF Spec

(* The types of the sessions' state. *)
THEOREM SessionTypes == Spec => []TypeOK
<1>1. Inv => TypeOK
  BY DEF Inv
<1>2. QED
  BY <1>1, Invariance, PTL

(* A connection is registered only on the side its status names, however   *)
(* its frames, other connections' logins and Stops interleave (gfep_ptl.go *)
(* 139-175): the hook, which clears the side the status names, misses none.*)
THEOREM OnlyAsRole == Spec => []RegisteredAsRole
<1>1. Inv => RegisteredAsRole
  BY DEF Inv
<1>2. QED
  BY <1>1, Invariance, PTL

(* A connection whose Stop began while none of its frames was handled is   *)
(* in neither registry when the Stop has removed it (app.go:77-117).       *)
THEOREM StopLeavesNothing == Spec => []StopUnregisters
<1>1. Inv => StopUnregisters
  BY DEF Inv, StopOrder, StopUnregisters, stopped
<1>2. QED
  BY <1>1, Invariance, PTL

-----------------------------------------------------------------------------
(* Addresses that connections may share *)

(* Where a handler is once its connection's new address is registered, and *)
(* where it is between that and the bridge for it.                         *)
LoggedIn   == TmnWork \ {"login"}
NextBridge == {"evictThenBridge", "dropThenBridge", "stopOld", "newBridge"}

(* Nobody is evicted: a login stops its own connection's bridge at most.   *)
OwnWork ==
  \A c \in Conn : /\ todo[c] \subseteq {c} /\ victim[c] = c
                  /\ at[c] # "drop"
                  /\ at[c] = "evict" => todo[c] = {}
                  /\ bridge[c] # NoBridge => bridge[c][1] = c

(* The bridges of a connection that is not stopped, by the place of its    *)
(* handler: never another than its property names, none between the stop   *)
(* of the old and the start of the new, and one wherever it is registered  *)
(* and no new one is due.                                                  *)
BridgeNow ==
  \A c \in Conn : ~stopped(c) =>
    /\ BridgesOf(c) \subseteq {bridge[c]}
    /\ at[c] \in {"newBridge", "dropThenBridge"} => BridgesOf(c) = {}
    /\ Bridging /\ tmn.byConn[c] # NoKey /\ at[c] \notin NextBridge
         => BridgesOf(c) = {bridge[c]}

(* Its address property: the registered address, except from the           *)
(* registration of a new address to the reply, and if that is refused      *)
(* until the next registration.                                            *)
AddrNow ==
  \A c \in Conn : ~stopped(c) /\ ~refused[c] =>
    IF at[c] \in LoggedIn THEN tmn.byConn[c] = frame[c].key
    ELSE addr[c] # NoKey
           => addr[c] = IF role[c] = "app" THEN app.byConn[c] ELSE tmn.byConn[c]

(* The progress of a Stop that met no handler. *)
StopNow ==
  \A c \in Conn : stopped(c) /\ ~overlapped[c] =>
    /\ BridgesOf(c) \subseteq {bridge[c]}
    /\ stopAt[c] \notin {"status", "bridge"} => BridgesOf(c) = {}

(* Only a terminal's connection has a bridge, so a Stop that finds another *)
(* status may skip it.                                                     *)
RunningRole == \A b \in running : role[b[1]] = "tmn"

SharedInv == OwnWork /\ BridgeNow /\ StopNow /\ RunningRole /\ AddrNow

LEMMA InitShared == Init => SharedInv
<1> SUFFICES ASSUME Init PROVE SharedInv
  OBVIOUS
<1>1. tmn.byConn = [c \in Conn |-> NoKey] /\ running = {}
  BY DEF Init, EmptyIndex
<1>2. OwnWork
  BY DEF Init, OwnWork
<1>3. BridgeNow /\ StopNow /\ RunningRole
  BY <1>1 DEF Init, BridgeNow, StopNow, RunningRole, BridgesOf, stopped
<1>4. AddrNow
  BY DEF Init, AddrNow, LoggedIn, TmnWork, Evicting, stopped
<1>5. QED
  BY <1>2, <1>3, <1>4 DEF SharedInv

(* What a step does to the relations: with shared addresses a connection's *)
(* entries are written by its own handler and its own Stop.                *)
Step(c) == \/ Open(c) \/ (\E f \in Frame : Begin(c, f)) \/ HandlerNext(c) \/ StopNext(c)

LEMMA RegistryStep ==
  ASSUME Inv, SupportComm = TRUE, NEW c \in Conn, Step(c)
  PROVE  /\ \A d \in Conn \ {c} : /\ tmn'.byConn[d] = tmn.byConn[d]
                                   /\ app'.byConn[d] = app.byConn[d]
         /\ LoginNew(c) => tmn'.byConn[c] = frame[c].key /\ UNCHANGED app
         /\ Register(c) => app'.byConn[c] = frame[c].key /\ UNCHANGED tmn
         /\ ~LoginNew(c) /\ ~Register(c) /\ ~StopUnregister(c) => UNCHANGED <<tmn, app>>
<1> USE DEF connVars, brgVars, jobVars, stopVars
<1>0. /\ Sound(tmn) /\ Sound(app)
      /\ tmn.byConn \in [Conn -> Key \cup {NoKey}]
      /\ app.byConn \in [Conn -> Key \cup {NoKey}]
  BY DEF Inv, Sound, Index
<1>1. ASSUME Register(c)
      PROVE  UNCHANGED tmn /\ app'.byConn = [app.byConn EXCEPT ![c] = frame[c].key]
  <2>1. frame[c].key \in Key /\ at[c] = "request"
    BY <1>1, SessionAssumption DEF Inv, HandlerRole, Register
  <2>2. QED
    BY <1>0, <1>1, <2>1, RegisterMeaning DEF Register
<1>2. ASSUME LoginNew(c)
      PROVE  /\ UNCHANGED app
             /\ tmn'.byConn = [d \in Conn |-> IF d = c THEN frame[c].key ELSE tmn.byConn[d]]
  <2> DEFINE res == LoginResult(tmn, c, frame[c].key, SupportComm, SupportCasLink)
  <2>2. LoginMeans(tmn, c, frame[c].key, SupportComm, SupportCasLink, res)
    BY <1>2, LoginStep
  <2>3. tmn' = res.reg /\ UNCHANGED app
    BY <1>2 DEF LoginNew
  <2> HIDE DEF res
  <2>4. QED
    BY <2>2, <2>3 DEF LoginMeans
<1>3. ASSUME StopUnregister(c)
      PROVE  \A d \in Conn \ {c} : /\ tmn'.byConn[d] = tmn.byConn[d]
                                   /\ app'.byConn[d] = app.byConn[d]
  <2>1. /\ RemoveConn(tmn, c).byConn = [d \in Conn |-> IF d \in {c} THEN NoKey ELSE tmn.byConn[d]]
        /\ RemoveConn(app, c).byConn = [d \in Conn |-> IF d \in {c} THEN NoKey ELSE app.byConn[d]]
    BY DEF RemoveConn, RemoveConns
  <2>2. QED
    BY <1>3, <2>1 DEF StopUnregister
<1>4. ASSUME ~LoginNew(c), ~Register(c), ~StopUnregister(c)
      PROVE  UNCHANGED <<tmn, app>>
  BY <1>4 DEF Step, HandlerNext, LoginNext, StopNext, Open, Begin, Route, RejectLogin,
     LoginAgain, EvictStop, EvictDrop,
     EvictDone, StopOldBridge, NewBridge, Reply, StopBegin, StopStatus, StopBridge, StopDrop,
     StopRemove
<1>5. LoginNew(c) => ~Register(c) /\ ~StopUnregister(c)
  BY DEF LoginNew, Register, StopUnregister, Goto, Done, Inv, TypeOK
<1>6. QED
  BY <1>0, <1>1, <1>2, <1>3, <1>4

(* Nothing of another connection changes: not even its bridges, for a      *)
(* handler stops and removes its own connection's only.                    *)
LEMMA Elsewhere ==
  ASSUME Inv, OwnWork, NEW c \in Conn, Step(c), NEW d \in Conn \ {c}
  PROVE  /\ at'[d] = at[d] /\ frame'[d] = frame[d] /\ role'[d] = role[d]
         /\ addr'[d] = addr[d] /\ refused'[d] = refused[d] /\ bridge'[d] = bridge[d]
         /\ todo'[d] = todo[d] /\ victim'[d] = victim[d]
         /\ stopAt'[d] = stopAt[d] /\ overlapped'[d] = overlapped[d]
         /\ {b \in running' : b[1] = d} = {b \in running : b[1] = d}
<1> USE DEF connVars, brgVars, jobVars, stopVars
<1>1. TypeOK
  BY DEF Inv
<1>2. CASE Open(c) \/ (\E f \in Frame : Begin(c, f))
  BY <1>1, <1>2 DEF Open, Begin, TypeOK
<1>3. CASE Route(c) \/ Register(c)
  BY <1>1, <1>3 DEF Route, Register, Goto, Done, TypeOK
<1>4. CASE RejectLogin(c) \/ LoginAgain(c) \/ LoginNew(c) \/ EvictDone(c)
           \/ (\E sent \in BOOLEAN : Reply(c, sent))
  BY <1>1, <1>4
     DEF RejectLogin, LoginAgain, LoginNew, EvictDone, Reply, Goto, Done, TypeOK
<1>5. bridge[c] = NoBridge \/ bridge[c][1] = c
  BY DEF OwnWork
<1>6. {b \in running \ {bridge[c]} : b[1] = d} = {b \in running : b[1] = d}
  <2>1. NoBridge \notin running
    BY <1>1, SessionAssumption DEF TypeOK, Bridge
  <2>2. QED
    BY <1>5, <2>1
<1>7. CASE \E v \in Conn : EvictStop(c, v)
  <2>1. PICK v \in Conn : EvictStop(c, v)
    BY <1>7
  <2>2. v = c
    BY <2>1 DEF OwnWork, EvictStop
  <2>3. EvictStop(c, c)
    BY <2>1, <2>2
  <2>4. running' = running \/ running' = running \ {bridge[c]}
    BY <2>3 DEF EvictStop
  <2>5. /\ UNCHANGED <<frame, role, addr, refused, bridge, stopAt, overlapped>>
        /\ at'[d] = at[d] /\ todo'[d] = todo[d] /\ victim'[d] = victim[d]
    BY <1>1, <2>3 DEF EvictStop, Goto, TypeOK
  <2>6. QED
    BY <1>6, <2>4, <2>5
<1>8. CASE EvictDrop(c)
  BY <1>1, <1>8 DEF OwnWork, EvictDrop, Goto, TypeOK
<1>9. CASE StopOldBridge(c)
  BY <1>1, <1>6, <1>9 DEF StopOldBridge, Goto, TypeOK
<1>10. CASE NewBridge(c)
  BY <1>1, <1>10 DEF NewBridge, Goto, TypeOK
<1>11. CASE StopBridge(c)
  BY <1>1, <1>6, <1>11 DEF StopBridge, TypeOK
<1>12. CASE StopBegin(c) \/ StopStatus(c) \/ StopDrop(c) \/ StopUnregister(c) \/ StopRemove(c)
  BY <1>1, <1>12 DEF StopBegin, StopStatus, StopDrop, StopUnregister, StopRemove, TypeOK
<1>13. QED
  BY <1>2, <1>3, <1>4, <1>7, <1>8, <1>9, <1>10, <1>11, <1>12
     DEF Step, HandlerNext, LoginNext, StopNext

(* OwnWork is kept: a login with shared addresses evicts nobody, and it    *)
(* stops its own bridge only if the address is new.                        *)
LEMMA OwnWorkStep ==
  ASSUME Inv, OwnWork, SupportComm = TRUE, NEW c \in Conn, Step(c)
  PROVE  OwnWork'
<1> USE DEF connVars, brgVars, jobVars, stopVars
<1>1. TypeOK
  BY DEF Inv
<1>2. SUFFICES /\ todo'[c] \subseteq {c} /\ victim'[c] = c
               /\ at'[c] # "drop"
               /\ at'[c] = "evict" => todo'[c] = {}
               /\ bridge'[c] # NoBridge => bridge'[c][1] = c
  BY Elsewhere DEF OwnWork
<1>3. /\ todo[c] \subseteq {c} /\ victim[c] = c
      /\ at[c] # "drop"
      /\ at[c] = "evict" => todo[c] = {}
      /\ bridge[c] # NoBridge => bridge[c][1] = c
  BY DEF OwnWork
<1>4. CASE Open(c) \/ (\E f \in Frame : Begin(c, f))
  BY <1>1, <1>3, <1>4 DEF Open, Begin, TypeOK
<1>5. CASE Route(c)
  <2>1. UNCHANGED <<bridge, todo, victim>> /\ at'[c] \in {"login", "request", "idle"}
    BY <1>1, <1>5 DEF Route, Goto, Done, TypeOK
  <2>2. QED
    BY <1>3, <2>1
<1>6. CASE Register(c) \/ RejectLogin(c) \/ LoginAgain(c)
           \/ (\E sent \in BOOLEAN : Reply(c, sent))
  BY <1>1, <1>3, <1>6 DEF Register, RejectLogin, LoginAgain, Reply, Goto, Done, TypeOK
<1>7. CASE LoginNew(c)
  <2> DEFINE res == LoginResult(tmn, c, frame[c].key, SupportComm, SupportCasLink)
  <2>1. res.evicted = {} /\ (res.reset => res.isNew)
    BY <1>7, LoginStep DEF LoginMeans
  <2>2. /\ todo' = [todo EXCEPT ![c] = IF ~Bridging THEN {}
                                      ELSE res.evicted \cup IF res.reset THEN {c} ELSE {}]
        /\ at' = [at EXCEPT ![c] = IF Bridging /\ res.isNew THEN "evictThenBridge"
                                   ELSE IF Bridging THEN "evict" ELSE "reply"]
        /\ UNCHANGED <<bridge, victim>>
    BY <1>7 DEF LoginNew, Goto
  <2> HIDE DEF res
  <2>3. todo'[c] = IF ~Bridging THEN {} ELSE IF res.reset THEN {c} ELSE {}
    BY <1>1, <2>1, <2>2 DEF TypeOK
  <2>4. at'[c] = IF Bridging /\ res.isNew THEN "evictThenBridge"
                 ELSE IF Bridging THEN "evict" ELSE "reply"
    BY <1>1, <2>2 DEF TypeOK
  <2>5. QED
    BY <1>3, <2>1, <2>2, <2>3, <2>4
<1>8. CASE \E v \in Conn : EvictStop(c, v)
  <2>1. EvictStop(c, c)
    BY <1>3, <1>8 DEF EvictStop
  <2>2. at[c] = "evictThenBridge"
    BY <1>3, <2>1 DEF EvictStop, Evicting
  <2>3. QED
    BY <1>1, <1>3, <2>1, <2>2 DEF EvictStop, Goto, TypeOK
<1>9. CASE EvictDrop(c) \/ EvictDone(c) \/ StopOldBridge(c)
  BY <1>1, <1>3, <1>9 DEF EvictDrop, EvictDone, StopOldBridge, Goto, TypeOK
<1>10. CASE NewBridge(c)
  BY <1>1, <1>3, <1>10 DEF NewBridge, Goto, TypeOK
<1>11. CASE StopNext(c)
  BY <1>1, <1>3, <1>11
     DEF StopNext, StopBegin, StopStatus, StopBridge, StopDrop, StopUnregister, StopRemove, TypeOK
<1>12. QED
  BY <1>4, <1>5, <1>6, <1>7, <1>8, <1>9, <1>10, <1>11 DEF Step, HandlerNext, LoginNext

(* A bridge is started by a login, whose sender has the status of a        *)
(* terminal and keeps it.                                                  *)
LEMMA RunningRoleStep ==
  ASSUME Inv, RunningRole, NEW c \in Conn, Step(c)
  PROVE  RunningRole'
<1> USE DEF connVars, brgVars, jobVars, stopVars
<1>1. TypeOK /\ Next
  BY DEF Inv, Step, Next, HandlerNext
<1>2. ASSUME NEW d \in Conn, role[d] = "tmn"
      PROVE  role'[d] = "tmn"
  BY <1>1, <1>2, RoleOnce
<1>3. \A b \in running : b[1] \in Conn
  BY <1>1 DEF TypeOK, Bridge
<1>4. CASE NewBridge(c)
  <2>1. running' = running \cup {<<c, made[c] + 1>>} /\ role[c] = "tmn"
    BY <1>4 DEF NewBridge, Inv, HandlerRole, TmnWork
  <2>2. QED
    BY <1>2, <1>3, <2>1 DEF RunningRole
<1>5. CASE ~NewBridge(c)
  <2>1. running' \subseteq running
    BY <1>5 DEF Step, HandlerNext, LoginNext, StopNext, Open, Begin, Route, Register,
       RejectLogin, LoginAgain, LoginNew, EvictStop, EvictDrop, EvictDone, StopOldBridge,
       Reply, StopBegin, StopStatus, StopBridge, StopDrop, StopUnregister, StopRemove
  <2>2. QED
    BY <1>2, <1>3, <2>1 DEF RunningRole
<1>6. QED
  BY <1>4, <1>5

(* The bridges of a connection that is not stopped: only its handler works *)
(* on them.                                                                *)
LEMMA BridgeNowStep ==
  ASSUME Inv, OwnWork, BridgeNow, SupportComm = TRUE, NEW c \in Conn, Step(c)
  PROVE  BridgeNow'
<1> USE DEF connVars, brgVars, jobVars, stopVars
<1> DEFINE Mine  == {b \in running : b[1] = c}
           Mine1 == {b \in running' : b[1] = c}
<1>1. TypeOK
  BY DEF Inv
<1>2. SUFFICES ASSUME stopAt'[c] = "none"
               PROVE  /\ Mine1 \subseteq {bridge'[c]}
                      /\ at'[c] \in {"newBridge", "dropThenBridge"} => Mine1 = {}
                      /\ Bridging /\ tmn'.byConn[c] # NoKey /\ at'[c] \notin NextBridge
                           => Mine1 = {bridge'[c]}
  <2>1. ASSUME NEW d \in Conn \ {c}, stopAt'[d] = "none"
        PROVE  /\ {b \in running' : b[1] = d} \subseteq {bridge'[d]}
               /\ at'[d] \in {"newBridge", "dropThenBridge"}
                    => {b \in running' : b[1] = d} = {}
               /\ Bridging /\ tmn'.byConn[d] # NoKey /\ at'[d] \notin NextBridge
                    => {b \in running' : b[1] = d} = {bridge'[d]}
    <3>1. /\ at'[d] = at[d] /\ bridge'[d] = bridge[d] /\ stopAt[d] = "none"
          /\ {b \in running' : b[1] = d} = {b \in running : b[1] = d}
      BY <2>1, Elsewhere
    <3>2. tmn'.byConn[d] = tmn.byConn[d]
      BY <2>1, RegistryStep
    <3>3. QED
      BY <3>1, <3>2 DEF BridgeNow, stopped, BridgesOf
  <2>2. QED
    BY <1>2, <2>1 DEF BridgeNow, stopped, BridgesOf
<1>3. stopAt[c] = "none"
  <2>1. CASE StopNext(c)
    BY <1>1, <1>2, <2>1
       DEF StopNext, StopBegin, StopStatus, StopBridge, StopDrop, StopUnregister, StopRemove, TypeOK
  <2>2. CASE Open(c) \/ (\E f \in Frame : Begin(c, f))
    BY <1>2, <2>2 DEF Open, Begin
  <2>3. CASE HandlerNext(c)
    BY <1>1, <1>2, <2>3, HandlerFrame
  <2>4. QED
    BY <2>1, <2>2, <2>3 DEF Step
<1>4. /\ Mine \subseteq {bridge[c]}
      /\ at[c] \in {"newBridge", "dropThenBridge"} => Mine = {}
      /\ Bridging /\ tmn.byConn[c] # NoKey /\ at[c] \notin NextBridge => Mine = {bridge[c]}
  BY <1>3 DEF BridgeNow, stopped, BridgesOf
<1>5. ~LoginNew(c) => tmn'.byConn[c] = tmn.byConn[c]
  <2>1. ~StopUnregister(c)
    BY <1>3 DEF StopUnregister
  <2>2. QED
    BY <2>1, RegistryStep
<1>6. CASE Open(c) \/ (\E f \in Frame : Begin(c, f))
  BY <1>1, <1>4, <1>5, <1>6 DEF Open, Begin, LoginNew, NextBridge, TypeOK
<1>7. CASE Route(c)
  <2>1. UNCHANGED <<bridge, running, tmn>> /\ at[c] = "route"
        /\ at'[c] \in {"login", "request", "idle"}
    BY <1>1, <1>7 DEF Route, Goto, Done, TypeOK
  <2>2. QED
    BY <1>4, <2>1 DEF NextBridge
<1>8. CASE Register(c) \/ RejectLogin(c) \/ LoginAgain(c)
           \/ (\E sent \in BOOLEAN : Reply(c, sent))
  <2>1. UNCHANGED <<bridge, running, tmn>> /\ at[c] \in {"login", "request", "reply"}
        /\ at'[c] \in {"reply", "idle"}
    BY <1>1, <1>8 DEF Register, RejectLogin, LoginAgain, Reply, Goto, Done, TypeOK
  <2>2. QED
    BY <1>4, <2>1 DEF NextBridge
<1>9. CASE LoginNew(c)
  <2> DEFINE res == LoginResult(tmn, c, frame[c].key, SupportComm, SupportCasLink)
  <2>1. res.isNew = (tmn.byConn[c] # frame[c].key)
    BY <1>9, LoginStep DEF LoginMeans
  <2>2. /\ at' = [at EXCEPT ![c] = IF Bridging /\ res.isNew THEN "evictThenBridge"
                                   ELSE IF Bridging THEN "evict" ELSE "reply"]
        /\ UNCHANGED <<bridge, running>> /\ at[c] = "login"
    BY <1>9 DEF LoginNew, Goto
  <2>3. frame[c].key # NoKey
    BY <1>9, IndexAssumption, SessionAssumption DEF Inv, HandlerRole, TmnWork, LoginNew
  <2> HIDE DEF res
  <2>4. at'[c] = IF Bridging /\ res.isNew THEN "evictThenBridge"
                 ELSE IF Bridging THEN "evict" ELSE "reply"
    BY <1>1, <2>2 DEF TypeOK
  <2>5. CASE tmn.byConn[c] = frame[c].key
    BY <1>4, <2>2, <2>3, <2>4, <2>5 DEF NextBridge
  <2>6. CASE tmn.byConn[c] # frame[c].key
    <3>1. res.isNew
      BY <2>1, <2>6
    <3>2. Bridging => at'[c] = "evictThenBridge"
      BY <2>4, <3>1
    <3>3. at'[c] \notin {"newBridge", "dropThenBridge"}
      BY <2>4
    <3>4. QED
      BY <1>4, <2>2, <3>2, <3>3 DEF NextBridge
  <2>7. QED
    BY <2>5, <2>6
<1>10. CASE \E v \in Conn : EvictStop(c, v)
  <2>1. EvictStop(c, c) /\ at[c] = "evictThenBridge"
    <3> PICK v \in Conn : EvictStop(c, v)
      BY <1>10
    <3>1. v = c
      BY DEF OwnWork, EvictStop
    <3>2. QED
      BY <3>1 DEF OwnWork, EvictStop, Evicting
  <2>2. CASE c \in inMgr /\ bridge[c] # NoBridge
    <3>1. /\ running' = running \ {bridge[c]} /\ UNCHANGED bridge
          /\ at'[c] = "dropThenBridge"
      BY <1>1, <2>1, <2>2 DEF EvictStop, Goto, TypeOK
    <3>2. QED
      BY <1>4, <3>1 DEF NextBridge
  <2>3. CASE ~(c \in inMgr /\ bridge[c] # NoBridge)
    <3>1. UNCHANGED <<running, bridge, at>>
      BY <2>1, <2>3 DEF EvictStop
    <3>2. QED
      BY <1>4, <2>1, <3>1 DEF NextBridge
  <2>4. QED
    BY <2>2, <2>3
<1>11. CASE EvictDrop(c)
  <2>1. at[c] = "dropThenBridge" /\ at'[c] = "evictThenBridge" /\ UNCHANGED running
    BY <1>1, <1>11 DEF EvictDrop, OwnWork, Goto, TypeOK
  <2>2. QED
    BY <1>4, <2>1 DEF NextBridge
<1>12. CASE EvictDone(c)
  <2>1. /\ UNCHANGED <<running, bridge, tmn>>
        /\ \/ at[c] = "evict" /\ at'[c] = "reply"
           \/ at[c] = "evictThenBridge" /\ at'[c] = "stopOld"
    BY <1>1, <1>12 DEF EvictDone, Evicting, Goto, TypeOK
  <2>2. QED
    BY <1>4, <2>1 DEF NextBridge
<1>13. CASE StopOldBridge(c)
  <2>1. /\ running' = running \ {bridge[c]} /\ UNCHANGED bridge
        /\ at'[c] = "newBridge"
    BY <1>1, <1>13 DEF StopOldBridge, Goto, TypeOK
  <2>2. QED
    BY <1>4, <2>1 DEF NextBridge
<1>14. CASE NewBridge(c)
  <2>1. /\ running' = running \cup {<<c, made[c] + 1>>} /\ bridge'[c] = <<c, made[c] + 1>>
        /\ at[c] = "newBridge" /\ at'[c] = "reply"
    BY <1>1, <1>14 DEF NewBridge, Goto, TypeOK
  <2>2. Mine1 = {bridge'[c]}
    BY <1>4, <2>1
  <2>3. QED
    BY <2>1, <2>2 DEF NextBridge
<1>15. CASE StopNext(c)
  <2>1. StopBegin(c)
    BY <1>3, <1>15
       DEF StopNext, StopBegin, StopStatus, StopBridge, StopDrop, StopUnregister, StopRemove
  <2>2. QED
    BY <1>1, <1>2, <2>1 DEF StopBegin, TypeOK
<1>16. QED
  BY <1>6, <1>7, <1>8, <1>9, <1>10, <1>11, <1>12, <1>13, <1>14, <1>15
     DEF Step, HandlerNext, LoginNext

(* The bridges of a connection whose Stop met no handler: the Stop alone   *)
(* works on them.                                                          *)
LEMMA StopNowStep ==
  ASSUME Inv, OwnWork, BridgeNow, RunningRole, StopNow, NEW c \in Conn, Step(c)
  PROVE  StopNow'
<1> USE DEF connVars, brgVars, jobVars, stopVars
<1> DEFINE Mine  == {b \in running : b[1] = c}
           Mine1 == {b \in running' : b[1] = c}
<1>1. TypeOK
  BY DEF Inv
<1>2. SUFFICES ASSUME stopAt'[c] # "none", ~overlapped'[c]
               PROVE  /\ Mine1 \subseteq {bridge'[c]}
                      /\ stopAt'[c] \notin {"status", "bridge"} => Mine1 = {}
  <2>1. ASSUME NEW d \in Conn \ {c}, stopAt'[d] # "none", ~overlapped'[d]
        PROVE  /\ {b \in running' : b[1] = d} \subseteq {bridge'[d]}
               /\ stopAt'[d] \notin {"status", "bridge"} => {b \in running' : b[1] = d} = {}
    <3>1. /\ bridge'[d] = bridge[d] /\ stopAt'[d] = stopAt[d] /\ ~overlapped[d]
          /\ {b \in running' : b[1] = d} = {b \in running : b[1] = d}
      BY <2>1, Elsewhere
    <3>2. QED
      BY <2>1, <3>1 DEF StopNow, stopped, BridgesOf
  <2>2. QED
    BY <1>2, <2>1 DEF StopNow, stopped, BridgesOf
<1>3. stopAt[c] # "none" /\ ~overlapped[c] =>
        /\ Mine \subseteq {bridge[c]}
        /\ stopAt[c] \notin {"status", "bridge"} => Mine = {}
        /\ at[c] = "idle"
  BY DEF Inv, StopNow, StopOrder, stopped, BridgesOf
<1>4. CASE Open(c) \/ (\E f \in Frame : Begin(c, f))
  BY <1>2, <1>3, <1>4 DEF Open, Begin
<1>5. CASE HandlerNext(c)
  <2>1. at[c] # "idle" /\ UNCHANGED stopVars
    BY <1>1, <1>5, HandlerFrame
  <2>2. QED
    BY <1>2, <1>3, <2>1
<1>6. CASE StopBegin(c)
  <2>1. stopAt[c] = "none" /\ UNCHANGED <<running, bridge>> /\ stopAt'[c] = "status"
    BY <1>1, <1>6 DEF StopBegin, stopped, TypeOK
  <2>2. QED
    BY <2>1 DEF BridgeNow, stopped, BridgesOf
<1>7. CASE StopStatus(c)
  <2>1. /\ UNCHANGED <<running, bridge, overlapped>> /\ stopAt[c] = "status"
        /\ role[c] = "tmn" => stopAt'[c] = "bridge"
    BY <1>1, <1>7 DEF StopStatus, TypeOK
  <2>2. role[c] # "tmn" => Mine = {}
    BY DEF RunningRole
  <2>3. QED
    BY <1>2, <1>3, <2>1, <2>2
<1>8. CASE StopBridge(c)
  BY <1>2, <1>3, <1>8 DEF StopBridge
<1>9. CASE StopDrop(c)
  BY <1>1, <1>2, <1>3, <1>9 DEF StopDrop, TypeOK
<1>10. CASE StopUnregister(c) \/ StopRemove(c)
  BY <1>1, <1>2, <1>3, <1>10 DEF StopUnregister, StopRemove, TypeOK
<1>11. QED
  BY <1>4, <1>5, <1>6, <1>7, <1>8, <1>9, <1>10 DEF Step, StopNext

(* The address property of a connection that is not stopped follows the    *)
(* registry again at the reply.                                            *)
LEMMA AddrNowStep ==
  ASSUME Inv, OwnWork, AddrNow, SupportComm = TRUE, NEW c \in Conn, Step(c)
  PROVE  AddrNow'
<1> USE DEF connVars, brgVars, jobVars, stopVars
<1>1. TypeOK
  BY DEF Inv
<1>2. SUFFICES ASSUME stopAt'[c] = "none", ~refused'[c]
               PROVE  IF at'[c] \in LoggedIn THEN tmn'.byConn[c] = frame'[c].key
                      ELSE addr'[c] # NoKey
                             => addr'[c] = IF role'[c] = "app" THEN app'.byConn[c]
                                           ELSE tmn'.byConn[c]
  <2>1. ASSUME NEW d \in Conn \ {c}, stopAt'[d] = "none", ~refused'[d]
        PROVE  IF at'[d] \in LoggedIn THEN tmn'.byConn[d] = frame'[d].key
               ELSE addr'[d] # NoKey
                      => addr'[d] = IF role'[d] = "app" THEN app'.byConn[d]
                                    ELSE tmn'.byConn[d]
    <3>1. /\ at'[d] = at[d] /\ frame'[d] = frame[d] /\ role'[d] = role[d]
          /\ addr'[d] = addr[d] /\ stopAt[d] = "none" /\ ~refused[d]
      BY <2>1, Elsewhere
    <3>2. tmn'.byConn[d] = tmn.byConn[d] /\ app'.byConn[d] = app.byConn[d]
      BY <2>1, RegistryStep
    <3>3. QED
      BY <3>1, <3>2 DEF AddrNow, stopped
  <2>2. QED
    BY <1>2, <2>1 DEF AddrNow, stopped
<1>3. stopAt[c] = "none"
  <2>1. CASE StopNext(c)
    BY <1>1, <1>2, <2>1
       DEF StopNext, StopBegin, StopStatus, StopBridge, StopDrop, StopUnregister, StopRemove, TypeOK
  <2>2. CASE Open(c) \/ (\E f \in Frame : Begin(c, f))
    BY <1>2, <2>2 DEF Open, Begin
  <2>3. CASE HandlerNext(c)
    BY <1>1, <1>2, <2>3, HandlerFrame
  <2>4. QED
    BY <2>1, <2>2, <2>3 DEF Step
<1>4. ~refused[c] =>
        IF at[c] \in LoggedIn THEN tmn.byConn[c] = frame[c].key
        ELSE addr[c] # NoKey
               => addr[c] = IF role[c] = "app" THEN app.byConn[c] ELSE tmn.byConn[c]
  BY <1>3 DEF AddrNow, stopped
<1>5. ~LoginNew(c) /\ ~Register(c) => UNCHANGED <<tmn, app>>
  <2>1. ~StopUnregister(c)
    BY <1>3 DEF StopUnregister
  <2>2. QED
    BY <2>1, RegistryStep
<1> USE DEF LoggedIn, TmnWork, Evicting
<1>6. CASE Open(c) \/ (\E f \in Frame : Begin(c, f))
  BY <1>1, <1>2, <1>4, <1>6 DEF Open, Begin, TypeOK
<1>7. CASE Route(c)
  <2>1. /\ UNCHANGED <<addr, refused, tmn, app>> /\ at[c] = "route"
        /\ at'[c] \in {"login", "request", "idle"}
    BY <1>1, <1>7 DEF Route, Goto, Done, TypeOK
  <2>2. role'[c] = role[c] \/ role[c] = "idle"
    BY <1>1, <1>7 DEF Route, TypeOK
  <2>3. role[c] = "idle" => tmn.byConn[c] = NoKey
    BY DEF Inv, RegisteredAsRole
  <2>4. QED
    BY <1>2, <1>4, <2>1, <2>2, <2>3
<1>8. CASE Register(c)
  <2>1. /\ at[c] = "request" /\ at'[c] = "idle" /\ role[c] = "app"
        /\ UNCHANGED <<role, refused>>
        /\ addr' = [addr EXCEPT ![c] = IF app.byConn[c] # frame[c].key THEN frame[c].key
                                       ELSE addr[c]]
    BY <1>1, <1>8 DEF Register, RegisterOrUpdate, Done, Inv, HandlerRole, TypeOK
  <2>2. app'.byConn[c] = frame[c].key
    BY <1>8, RegistryStep
  <2>3. addr'[c] = IF app.byConn[c] # frame[c].key THEN frame[c].key ELSE addr[c]
    BY <1>1, <2>1 DEF TypeOK
  <2>4. QED
    BY <1>2, <1>4, <2>1, <2>2, <2>3
<1>9. CASE RejectLogin(c)
  BY <1>1, <1>2, <1>4, <1>9 DEF RejectLogin, Done, TypeOK
<1>10. CASE LoginAgain(c)
  <2>1. /\ at[c] = "login" /\ at'[c] = "reply" /\ addr[c] = frame[c].key
        /\ UNCHANGED <<frame, refused, tmn>> /\ role[c] = "tmn" /\ frame[c].key \in Addr
    BY <1>1, <1>10 DEF LoginAgain, Goto, Inv, HandlerRole, TypeOK
  <2>2. addr[c] # NoKey
    BY <2>1, IndexAssumption, SessionAssumption
  <2>3. QED
    BY <1>2, <1>4, <2>1, <2>2
<1>11. CASE LoginNew(c)
  <2>1. UNCHANGED frame /\ at'[c] \in {"evictThenBridge", "evict", "reply"}
    BY <1>1, <1>11 DEF LoginNew, Goto, TypeOK
  <2>2. tmn'.byConn[c] = frame[c].key
    BY <1>11, RegistryStep
  <2>3. QED
    BY <2>1, <2>2
<1>12. CASE \/ (\E v \in Conn : EvictStop(c, v)) \/ EvictDrop(c) \/ EvictDone(c)
            \/ StopOldBridge(c) \/ NewBridge(c)
  <2>1. at[c] \in LoggedIn /\ at'[c] \in LoggedIn /\ UNCHANGED <<frame, refused, tmn>>
    BY <1>1, <1>12 DEF EvictStop, EvictDrop, EvictDone, StopOldBridge, NewBridge, Goto, TypeOK
  <2>2. QED
    BY <1>2, <1>4, <2>1
<1>13. CASE \E sent \in BOOLEAN : Reply(c, sent)
  <2>1. PICK sent \in BOOLEAN : Reply(c, sent)
    BY <1>13
  <2>2. sent /\ ~refused[c]
    BY <1>1, <1>2, <2>1 DEF Reply, TypeOK
  <2>3. addr' = [addr EXCEPT ![c] = frame[c].key] /\ at[c] = "reply" /\ UNCHANGED <<role, tmn>>
    BY <2>1, <2>2 DEF Reply
  <2>4. addr'[c] = frame[c].key /\ at'[c] = "idle" /\ role[c] = "tmn"
    BY <1>1, <2>1, <2>3 DEF Reply, Done, Inv, HandlerRole, TypeOK
  <2>5. QED
    BY <1>4, <2>2, <2>3, <2>4
<1>14. CASE StopNext(c)
  <2>1. StopBegin(c)
    BY <1>3, <1>14
       DEF StopNext, StopBegin, StopStatus, StopBridge, StopDrop, StopUnregister, StopRemove
  <2>2. QED
    BY <1>1, <1>2, <2>1 DEF StopBegin, TypeOK
<1>15. QED
  BY <1>6, <1>7, <1>8, <1>9, <1>10, <1>11, <1>12, <1>13, <1>14
     DEF Step, HandlerNext, LoginNext

(* Every step keeps the invariant of shared addresses. *)
LEMMA NextShared ==
  ASSUME SupportComm = TRUE
  PROVE  Inv /\ SharedInv /\ [Next]_vars => SharedInv'
<1> SUFFICES ASSUME Inv, SharedInv, [Next]_vars PROVE SharedInv'
  OBVIOUS
<1>1. CASE UNCHANGED vars
  <2>1. OwnWork /\ BridgeNow /\ StopNow /\ RunningRole => (OwnWork /\ BridgeNow /\ StopNow /\ RunningRole)'
    BY <1>1 DEF OwnWork, BridgeNow, StopNow, RunningRole, BridgesOf, stopped,
       vars, connVars, brgVars, jobVars, stopVars
  <2>2. AddrNow => AddrNow'
    BY <1>1 DEF AddrNow, stopped, vars, connVars, brgVars, jobVars, stopVars
  <2>3. QED
    BY <2>1, <2>2 DEF SharedInv
<1>2. CASE Next
  <2>1. PICK c \in Conn : Step(c)
    BY <1>2 DEF Next, Step, HandlerNext
  <2>2. OwnWork' /\ BridgeNow' /\ RunningRole'
    BY <2>1, OwnWorkStep, BridgeNowStep, RunningRoleStep DEF SharedInv
  <2>3. StopNow'
    BY <2>1, StopNowStep DEF SharedInv
  <2>4. AddrNow'
    BY <2>1, AddrNowStep DEF SharedInv
  <2>5. QED
    BY <2>2, <2>3, <2>4 DEF SharedInv
<1>3. QED
  BY <1>1, <1>2

(* What the invariant says of settled and of stopped connections. *)
LEMMA SharedMeaning ==
  SharedInv => OneBridgeEach /\ StopEndsBridges /\ AddrIsRegistered
<1> SUFFICES ASSUME SharedInv
             PROVE  OneBridgeEach /\ StopEndsBridges /\ AddrIsRegistered
  OBVIOUS
<1>1. OneBridgeEach
  BY DEF SharedInv, BridgeNow, OneBridgeEach, Settled, NextBridge
<1>2. AddrIsRegistered
  BY DEF SharedInv, AddrNow, AddrIsRegistered, Settled, LoggedIn, TmnWork, Evicting
<1>3. StopEndsBridges
  BY DEF SharedInv, StopNow, StopEndsBridges, stopped
<1>4. QED
  BY <1>1, <1>2, <1>3

(* With shared addresses, in every state: a registered terminal has        *)
(* exactly the bridge its property names (gfep_ptl.go:310-335), a          *)
(* connection that was stopped between two frames leaves no bridge running *)
(* (app.go:95-102), and the address property is the registered address     *)
(* unless a reply was refused since that was registered (connutil.go:98).  *)
THEOREM SharedAddresses ==
  ASSUME SupportComm = TRUE
  PROVE  Spec => [](OneBridgeEach /\ StopEndsBridges /\ AddrIsRegistered)
<1>1. Inv /\ SharedInv /\ [Next]_vars => SharedInv'
  BY NextShared
<1>2. Spec => []SharedInv
  BY <1>1, InitShared, Invariance, PTL DEF Spec
<1>3. QED
  BY <1>2, SharedMeaning, PTL

-----------------------------------------------------------------------------
(* The same of the two settings that are model-checked together: the       *)
(* exclusive setting's steps keep the setting, the shared one's are Next.  *)
LEMMA SettingInv ==
  ASSUME SupportComm = TRUE
  PROVE  MCSpec => [](setting = "shared" => Inv /\ SharedInv)
<1> DEFINE I == setting = "shared" => Inv /\ SharedInv
<1>1. MCInit => I
  BY InitInv, InitShared DEF MCInit
<1>2. I /\ [MCNext]_<<vars, setting>> => I'
  <2> SUFFICES ASSUME I, [MCNext]_<<vars, setting>>, setting' = "shared"
               PROVE  Inv' /\ SharedInv'
    OBVIOUS
  <2>1. setting = "shared" /\ [Next]_vars
    BY DEF MCNext
  <2>2. Inv /\ SharedInv
    BY <2>1
  <2>3. QED
    BY <2>1, <2>2, NextInv, NextShared
<1>3. QED
  BY <1>1, <1>2, PTL DEF MCSpec

(* With shared addresses a registered terminal has exactly one bridge, the *)
(* one its property names, whatever addresses it logged in with before,    *)
(* however logins, heartbeats and Stops interleave, and also if the reply  *)
(* to a login is refused (gfep_ptl.go:310-335).                            *)
THEOREM OneBridge ==
  ASSUME SupportComm = TRUE
  PROVE  MCSpec => []OneBridgeEachShared
<1>1. (setting = "shared" => Inv /\ SharedInv) => OneBridgeEachShared
  BY SharedMeaning DEF OneBridgeEachShared
<1>2. QED
  BY <1>1, SettingInv, PTL

(* With shared addresses the address property of a settled connection is   *)
(* the registered address, so that the test in connutil.go:98 for a login  *)
(* with an unchanged address may skip the registry, unless a full buffer   *)
(* has refused the reply since that address was registered; the next       *)
(* registration brings the two together again.                             *)
THEOREM AddrRegistered ==
  ASSUME SupportComm = TRUE
  PROVE  MCSpec => []AddrIsRegisteredShared
<1>1. (setting = "shared" => Inv /\ SharedInv) => AddrIsRegisteredShared
  BY SharedMeaning DEF AddrIsRegisteredShared
<1>2. QED
  BY <1>1, SettingInv, PTL

(* With shared addresses a connection whose Stop began between two of its  *)
(* frames leaves no bridge running when the Stop is done (app.go:95-102).  *)
THEOREM StopLeavesNoBridge ==
  ASSUME SupportComm = TRUE
  PROVE  MCSpec => []StopEndsBridgesShared
<1>1. (setting = "shared" => Inv /\ SharedInv) => StopEndsBridgesShared
  BY SharedMeaning DEF StopEndsBridgesShared
<1>2. QED
  BY <1>1, SettingInv, PTL
==============================================================================
