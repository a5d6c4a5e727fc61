----------------------------- MODULE TmnRegistry -----------------------------
(***************************************************************************)
(* tmnRegistry of fep/registry.go: which terminal connection holds which   *)
(* address.  One action per method; each runs under t.mu.                  *)
(***************************************************************************)
EXTENDS ConnIndex

CONSTANTS
  SupportComm,     (* config SupportCommTermianl: duplicate logins allowed *)
  SupportCasLink   (* config SupportCasLink: cascaded terminals            *)

ASSUME ConfigAssumption == SupportComm \in BOOLEAN /\ SupportCasLink \in BOOLEAN

VARIABLES tmn,     (* the index: byConn and byAddr                         *)
          ret      (* the last call (history) and its results              *)

vars == <<tmn, ret>>

Call(op, k, all) == [op |-> op, key |-> k, all |-> all]
Return(call, S, new, moved) ==
  ret' = [call |-> call, conns |-> S, isNew |-> new, reset |-> moved]

Init == /\ tmn = EmptyIndex
        /\ ret = [call |-> Call("none", NoKey, FALSE),
                  conns |-> {}, isNew |-> FALSE, reset |-> FALSE]

Login(c, k) ==
  LET res == LoginResult(tmn, c, k, SupportComm, SupportCasLink)
  IN  /\ tmn' = res.reg
      /\ Return(Call("bind", k, FALSE), res.evicted, res.isNew, res.reset)

Remove(c) == /\ tmn' = RemoveConn(tmn, c)
             /\ UNCHANGED ret

ForwardTargets(k, broadcast) ==
  /\ Return(Call("lookup", k, broadcast), Targets(tmn, k, broadcast), FALSE, FALSE)
  /\ UNCHANGED tmn

Next == \/ \E c \in Conn, k \in Key : Login(c, k)
        \/ \E c \in Conn : Remove(c)
        \/ \E k \in Key, broadcast \in BOOLEAN : ForwardTargets(k, broadcast)

Spec == Init /\ [][Next]_vars

-----------------------------------------------------------------------------
(* byConn and byAddr never disagree and an address nobody holds keeps no   *)
(* empty set (every path of Login and removeConn edits both maps).         *)
IndexAgrees == Agree(tmn)

(* Without SupportCommTermianl an address belongs to one connection: Login *)
(* evicts the others before it registers the new one.                      *)
OneConnPerAddr == ~SupportComm => Exclusive(tmn)

(* The registry is a directory: a frame for an address goes to exactly the *)
(* connections registered under that address, a broadcast to all, and a    *)
(* login names exactly those it has evicted.                               *)
Directory == INSTANCE ConnDirectory
               WITH owner       <- tmn.byConn,
                    AllKeys     <- {},
                    OnePerKey   <- ~SupportComm,
                    ReportsMove <- SupportComm /\ ~SupportCasLink
DirectorySpec == Directory!Spec
==============================================================================
