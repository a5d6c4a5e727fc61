----------------------------- MODULE AppRegistry -----------------------------
(***************************************************************************)
(* appRegistry of fep/registry.go: which master-station connection uses    *)
(* which MSA.  One action per method; each runs under a.mu.                *)
(***************************************************************************)
EXTENDS ConnIndex

CONSTANT AllMsa    (* the MSA "0", which addresses every master station    *)

ASSUME AllMsaAssumption == AllMsa \in Key

VARIABLES app,     (* the index: byConn and byMsa                          *)
          appRet   (* the last call (history) and its results              *)

appVars == <<app, appRet>>

AppCall(op, k) == [op |-> op, key |-> k, all |-> FALSE]
AppReturn(call, S, new) ==
  appRet' = [call |-> call, conns |-> S, isNew |-> new, reset |-> FALSE]

AppInit == /\ app = EmptyIndex
           /\ appRet = [call |-> AppCall("none", NoKey),
                        conns |-> {}, isNew |-> FALSE, reset |-> FALSE]

AppRegister(c, k) ==
  LET res == RegisterOrUpdate(app, c, k)
  IN  /\ app' = res.reg
      /\ AppReturn(AppCall("bind", k), {}, res.isNew)

AppRemove(c) == /\ app' = RemoveConn(app, c)
                /\ UNCHANGED appRet

(* Mutant: MSA 0 is looked up like any other. *)
AppTargetsOwn(k) ==
  /\ AppReturn(AppCall("lookup", k), Targets(app, k, FALSE), FALSE)
  /\ UNCHANGED app

AppForwardTargets(k) ==
  /\ AppReturn(AppCall("lookup", k), Targets(app, k, k = AllMsa), FALSE)
  /\ UNCHANGED app

AppNext == \/ \E c \in Conn, k \in Key : AppRegister(c, k)
           \/ \E c \in Conn : AppRemove(c)
           \/ \E k \in Key : AppForwardTargets(k)

AppSpec == AppInit /\ [][AppNext]_appVars

-----------------------------------------------------------------------------
(* byConn and byMsa never disagree and an MSA nobody uses keeps no set. *)
AppIndexAgrees == Agree(app)

(* The registry is a directory: a lookup of an MSA names exactly the       *)
(* connections whose last request used that MSA, one of MSA 0 all of them. *)
AppDirectory == INSTANCE ConnDirectory
                  WITH owner <- app.byConn, ret <- appRet, AllKeys <- {AllMsa},
                       OnePerKey <- FALSE, ReportsMove <- FALSE
AppDirectorySpec == AppDirectory!Spec
==============================================================================
