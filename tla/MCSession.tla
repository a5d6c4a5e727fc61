----------------------------- MODULE MCSession -----------------------------
(***************************************************************************)
(* Model checking Session in two settings: addresses that connections may  *)
(* share, and an exclusive address that evicts.                            *)
(***************************************************************************)
EXTENDS Session, TLC

VARIABLE setting

Symmetry == Permutations(Conn)

(* The exclusive setting: one address, and SupportCommTermianl off.        *)
AnyAddr == CHOOSE a \in Addr : TRUE
OneAddrFrame == {f \in Frame : f.key \in Msa \cup {AnyAddr, NoKey}}
OneHolder == INSTANCE Session WITH SupportComm <- FALSE

MCInit == Init /\ setting \in {"shared", "exclusive"}

OneHolderNext ==
  \E c \in Conn : \/ OneHolder!Open(c)
                  \/ \E f \in OneAddrFrame : OneHolder!Begin(c, f)
                  \/ OneHolder!Route(c) \/ OneHolder!Register(c)
                  \/ OneHolder!LoginNext(c) \/ OneHolder!StopNext(c)

MCNext == /\ UNCHANGED setting
          /\ \/ setting = "shared"    /\ Next
             \/ setting = "exclusive" /\ OneHolderNext

MCSpec == MCInit /\ [][MCNext]_<<vars, setting>>

-----------------------------------------------------------------------------
(* What evictions break (see the runs SessionEvicted and SessionOverlap)   *)
(* is asked of shared addresses only.                                      *)

(* gfep_ptl.go:310-335: with shared addresses a registered terminal has    *)
(* exactly the bridge its property names.                                  *)
OneBridgeEachShared == setting = "shared" => OneBridgeEach

(* connutil.go:98: with shared addresses the address property is the       *)
(* registered address, unless the reply to its login was refused.          *)
AddrIsRegisteredShared == setting = "shared" => AddrIsRegistered

(* app.go:95-102: with shared addresses a connection that was stopped      *)
(* between two frames leaves no bridge running.                            *)
StopEndsBridgesShared == setting = "shared" => StopEndsBridges
=============================================================================
