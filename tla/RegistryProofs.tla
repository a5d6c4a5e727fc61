--------------------------- MODULE RegistryProofs ---------------------------
(***************************************************************************)
(* For every set of connections and keys and every configuration: the two  *)
(* maps of each registry agree, an address has one connection unless       *)
(* duplicate logins are allowed, and each registry implements the          *)
(* directory of ConnDirectory.                                             *)
(***************************************************************************)
EXTENDS TmnRegistry, AppRegistry, ConnIndexProofs

(* The terminals (tmnRegistry) *)

(* The inductive invariant.  Sound is needed by every part: an eviction    *)
(* finds the connections to remove through byAddr and removes them through *)
(* byConn, so it is complete only while the two agree.                     *)
Inv == /\ Sound(tmn)
       /\ ~SupportComm => Exclusive(tmn)

-----------------------------------------------------------------------------
LEMMA InitInv == Init => Inv
<1> SUFFICES ASSUME Init PROVE Inv
  OBVIOUS
<1>1. Sound(tmn)
  BY EmptySound DEF Init
<1>2. Exclusive(tmn)
  BY DEF Init, EmptyIndex, Exclusive
<1>3. QED
  BY <1>1, <1>2 DEF Init, Inv

(* Every method keeps the invariant. *)
LEMMA NextInv == Inv /\ [Next]_vars => Inv'
<1> SUFFICES ASSUME Inv, [Next]_vars PROVE Inv'
  OBVIOUS
<1>0. Sound(tmn) /\ tmn.byConn \in [Conn -> Key \cup {NoKey}]
  BY DEF Inv, Sound, Index
<1>1. ASSUME NEW c \in Conn, NEW k \in Key, Login(c, k)
      PROVE  Inv'
  <2> DEFINE res    == LoginResult(tmn, c, k, SupportComm, SupportCasLink)
             others == IF SupportComm THEN {}
                       ELSE {d \in Conn : tmn.byConn[d] = k} \ {c}
  <2>1. /\ Sound(res.reg)
        /\ res.reg.byConn = [d \in Conn |-> IF d = c THEN k
                               ELSE IF d \in others THEN NoKey ELSE tmn.byConn[d]]
    <3>1. LoginMeans(tmn, c, k, SupportComm, SupportCasLink, res)
      BY <1>0, LoginMeaning, ConfigAssumption
    <3>2. QED
      BY <3>1 DEF LoginMeans
  <2>2. tmn' = res.reg
    BY <1>1 DEF Login
  <2>3. ~SupportComm => Exclusive(tmn')
    <3> SUFFICES ASSUME ~SupportComm, NEW a \in Conn, NEW b \in Conn,
                        tmn'.byConn[a] = tmn'.byConn[b], tmn'.byConn[a] # NoKey
                 PROVE  a = b
      BY DEF Exclusive
    <3>1. tmn.byConn[a] = tmn.byConn[b] /\ tmn.byConn[a] # NoKey => a = b
      BY DEF Inv, Exclusive
    <3>2. tmn'.byConn = [d \in Conn |-> IF d = c THEN k
                           ELSE IF d \in others THEN NoKey ELSE tmn.byConn[d]]
      BY <2>1, <2>2
    <3>3. QED
      BY <3>1, <3>2
  <2>4. QED
    BY <2>1, <2>2, <2>3 DEF Inv
<1>2. ASSUME NEW c \in Conn, Remove(c)
      PROVE  Inv'
  <2>1. /\ Sound(RemoveConns(tmn, {c}))
        /\ RemoveConns(tmn, {c}).byConn
             = [d \in Conn |-> IF d \in {c} THEN NoKey ELSE tmn.byConn[d]]
    BY <1>0, RemoveConnsSound
  <2>2. tmn' = RemoveConns(tmn, {c})
    BY <1>2 DEF Remove, RemoveConn
  <2>3. ~SupportComm => Exclusive(tmn')
    BY <2>1, <2>2 DEF Inv, Exclusive
  <2>4. QED
    BY <2>1, <2>2, <2>3 DEF Inv
<1>3. ASSUME NEW k \in Key, NEW broadcast \in BOOLEAN, ForwardTargets(k, broadcast)
      PROVE  Inv'
  BY <1>3 DEF ForwardTargets, Inv
<1>4. CASE UNCHANGED vars
  BY <1>4 DEF Inv, vars
<1>5. QED
  BY <1>1, <1>2, <1>3, <1>4 DEF Next

(* The invariant holds in every reachable state. *)
THEOREM Invariance == Spec => []Inv
BY InitInv, NextInv, PTL DEF Spec

(* The two maps of the registry never disagree (registry.go:106-130). *)
THEOREM TmnIndexAgrees == Spec => []IndexAgrees
<1>1. Inv => IndexAgrees
  BY DEF Inv, Sound, IndexAgrees
<1>2. QED
  BY <1>1, Invariance, PTL

(* Without SupportCommTermianl no address has two connections, whatever    *)
(* the order of logins, address changes and disconnects.                   *)
THEOREM TmnOneConnPerAddr == Spec => []OneConnPerAddr
<1>1. Inv => OneConnPerAddr
  BY DEF Inv, OneConnPerAddr
<1>2. QED
  BY <1>1, Invariance, PTL

-----------------------------------------------------------------------------
(* The registry implements the directory: each method is the directory's   *)
(* operation on byConn, for the same connection and key and with the same  *)
(* return value (registry.go:132-206).                                     *)
THEOREM TmnImplementsDirectory == Spec => DirectorySpec
<1>1. Init => Directory!Init
  BY DEF Init, EmptyIndex, Call, Directory!Init, Directory!Call
<1>2. Inv /\ [Next]_vars => [Directory!Next]_<<tmn.byConn, ret>>
  <2> SUFFICES ASSUME Inv, [Next]_vars
               PROVE  [Directory!Next]_<<tmn.byConn, ret>>
    OBVIOUS
  <2>0. Sound(tmn) /\ tmn.byConn \in [Conn -> Key \cup {NoKey}]
    BY DEF Inv, Sound, Index
  <2>1. ASSUME NEW c \in Conn, NEW k \in Key, Login(c, k)
        PROVE  Directory!Bind(c, k)
    <3> DEFINE res    == LoginResult(tmn, c, k, SupportComm, SupportCasLink)
               others == IF SupportComm THEN {}
                         ELSE {d \in Conn : tmn.byConn[d] = k} \ {c}
    <3>1. /\ res.reg.byConn = [d \in Conn |-> IF d = c THEN k
                                 ELSE IF d \in others THEN NoKey ELSE tmn.byConn[d]]
          /\ res.evicted = others
          /\ res.isNew = (tmn.byConn[c] # k)
          /\ res.reset = /\ SupportComm /\ ~SupportCasLink
                         /\ tmn.byConn[c] # k /\ tmn.byConn[c] # NoKey
      <4>1. LoginMeans(tmn, c, k, SupportComm, SupportCasLink, res)
        BY <2>0, LoginMeaning, ConfigAssumption
      <4>2. QED
        BY <4>1 DEF LoginMeans
    <3>2. tmn' = res.reg
          /\ ret' = [call |-> Call("bind", k, FALSE), conns |-> res.evicted,
                     isNew |-> res.isNew, reset |-> res.reset]
      BY <2>1 DEF Login, Return
    <3>3. others = IF ~SupportComm THEN Directory!OwnersOf(k) \ {c} ELSE {}
      BY DEF Directory!OwnersOf
    <3>4. QED
      BY <3>1, <3>2, <3>3
         DEF Call, Directory!Bind, Directory!Return, Directory!Call
  <2>2. ASSUME NEW c \in Conn, Remove(c)
        PROVE  Directory!Unbind(c)
    <3>1. RemoveConns(tmn, {c}).byConn
            = [d \in Conn |-> IF d \in {c} THEN NoKey ELSE tmn.byConn[d]]
      BY <2>0, RemoveConnsSound
    <3>2. tmn'.byConn = [tmn.byConn EXCEPT ![c] = NoKey]
      BY <2>0, <2>2, <3>1 DEF Remove, RemoveConn
    <3>3. QED
      BY <2>2, <3>2 DEF Remove, Directory!Unbind
  <2>3. ASSUME NEW k \in Key, NEW broadcast \in BOOLEAN, ForwardTargets(k, broadcast)
        PROVE  Directory!Lookup(k, broadcast)
    <3>1. Targets(tmn, k, broadcast)
            = IF broadcast THEN Conn \ Directory!OwnersOf(NoKey)
              ELSE Directory!OwnersOf(k)
      BY <2>0, MembersAreOwners DEF Targets, Directory!OwnersOf
    <3>2. QED
      BY <2>3, <3>1
         DEF ForwardTargets, Return, Call, Directory!Lookup, Directory!Return,
             Directory!Call
  <2>4. CASE UNCHANGED vars
    BY <2>4 DEF vars
  <2>5. QED
    BY <2>1, <2>2, <2>3, <2>4 DEF Next, Directory!Next
<1>3. QED
  BY <1>1, <1>2, Invariance, PTL DEF Spec, DirectorySpec, Directory!Spec

-----------------------------------------------------------------------------
(* The masters (appRegistry) *)

(* The inductive invariant: the index is sound. *)
AppInv == Sound(app)

LEMMA AppInitInv == AppInit => AppInv
BY EmptySound DEF AppInit, AppInv

(* Every method keeps the invariant. *)
LEMMA AppNextInv == AppInv /\ [AppNext]_appVars => AppInv'
<1> SUFFICES ASSUME AppInv, [AppNext]_appVars PROVE AppInv'
  OBVIOUS
<1>1. ASSUME NEW c \in Conn, NEW k \in Key, AppRegister(c, k)
      PROVE  AppInv'
  BY <1>1, RegisterMeaning DEF AppRegister, AppInv
<1>2. ASSUME NEW c \in Conn, AppRemove(c)
      PROVE  AppInv'
  BY <1>2, RemoveConnsSound DEF AppRemove, RemoveConn, AppInv
<1>3. ASSUME NEW k \in Key, AppForwardTargets(k)
      PROVE  AppInv'
  BY <1>3 DEF AppForwardTargets, AppInv
<1>4. CASE UNCHANGED appVars
  BY <1>4 DEF AppInv, appVars
<1>5. QED
  BY <1>1, <1>2, <1>3, <1>4 DEF AppNext

(* The two maps of the registry never disagree (registry.go:26-58). *)
THEOREM AppMapsAgree == AppSpec => []AppIndexAgrees
<1>1. AppInv => AppIndexAgrees
  BY DEF AppInv, Sound, AppIndexAgrees
<1>2. QED
  BY <1>1, AppInitInv, AppNextInv, PTL DEF AppSpec

(* The registry implements the directory: a lookup of an MSA returns the   *)
(* master stations registered under that MSA, of MSA 0 all of them, at any *)
(* point of any sequence of calls (registry.go:60-80).                     *)
THEOREM AppImplementsDirectory == AppSpec => AppDirectorySpec
<1>1. AppInit => AppDirectory!Init
  BY DEF AppInit, EmptyIndex, AppCall, AppDirectory!Init, AppDirectory!Call
<1>2. AppInv /\ [AppNext]_appVars => [AppDirectory!Next]_<<app.byConn, appRet>>
  <2> SUFFICES ASSUME AppInv, [AppNext]_appVars
               PROVE  [AppDirectory!Next]_<<app.byConn, appRet>>
    OBVIOUS
  <2>0. Sound(app) /\ app.byConn \in [Conn -> Key \cup {NoKey}]
    BY DEF AppInv, Sound, Index
  <2>1. ASSUME NEW c \in Conn, NEW k \in Key, AppRegister(c, k)
        PROVE  AppDirectory!Bind(c, k)
    <3> DEFINE res == RegisterOrUpdate(app, c, k)
    <3>1. res.reg.byConn = [app.byConn EXCEPT ![c] = k]
      BY <2>0, RegisterMeaning
    <3>2. res.isNew = (app.byConn[c] # k)
      BY DEF RegisterOrUpdate
    <3>3. /\ app' = res.reg
          /\ appRet' = [call |-> AppCall("bind", k), conns |-> {},
                        isNew |-> res.isNew, reset |-> FALSE]
      BY <2>1 DEF AppRegister, AppReturn
    <3>4. app'.byConn = [d \in Conn |-> IF d = c THEN k ELSE app.byConn[d]]
      BY <2>0, <3>1, <3>3
    <3>5. QED
      BY <3>2, <3>3, <3>4
         DEF AppCall, AppDirectory!Bind, AppDirectory!Return, AppDirectory!Call
  <2>2. ASSUME NEW c \in Conn, AppRemove(c)
        PROVE  AppDirectory!Unbind(c)
    <3>1. RemoveConns(app, {c}).byConn
            = [d \in Conn |-> IF d \in {c} THEN NoKey ELSE app.byConn[d]]
      BY <2>0, RemoveConnsSound
    <3>2. app'.byConn = [app.byConn EXCEPT ![c] = NoKey]
      BY <2>0, <2>2, <3>1 DEF AppRemove, RemoveConn
    <3>3. QED
      BY <2>2, <3>2 DEF AppRemove, AppDirectory!Unbind
  <2>3. ASSUME NEW k \in Key, AppForwardTargets(k)
        PROVE  AppDirectory!Lookup(k, FALSE)
    <3>1. Targets(app, k, k = AllMsa)
            = IF k = AllMsa THEN Conn \ AppDirectory!OwnersOf(NoKey)
              ELSE AppDirectory!OwnersOf(k)
      BY <2>0, MembersAreOwners DEF Targets, AppDirectory!OwnersOf
    <3>2. QED
      BY <2>3, <3>1
         DEF AppForwardTargets, AppReturn, AppCall, AppDirectory!Lookup,
             AppDirectory!Return, AppDirectory!Call
  <2>4. CASE UNCHANGED appVars
    BY <2>4 DEF appVars
  <2>5. QED
    BY <2>1, <2>2, <2>3, <2>4 DEF AppNext, AppDirectory!Next
<1>3. QED
  BY <1>1, <1>2, AppInitInv, AppNextInv, PTL DEF AppSpec, AppDirectorySpec, AppDirectory!Spec
=============================================================================
