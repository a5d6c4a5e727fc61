------------------------------ MODULE ConnIndex ------------------------------
(***************************************************************************)
(* The two-way index behind both registries of fep/registry.go: a map from *)
(* a connection to its key (terminal address or master-station MSA) and a  *)
(* map from a key to the set of its connections.  Every operator takes the *)
(* index before a call and returns the index after it; a call holds the    *)
(* registry's mutex from its first to its last line, so it is one step.    *)
(*                                                                         *)
(* A Go map entry that is missing is NoKey on the connection side and      *)
(* Absent on the key side: a key that keeps an empty set is not the same   *)
(* as a key that is gone (the first leaks memory as addresses come and go).*)
(***************************************************************************)
EXTENDS FiniteSets

CONSTANTS
  Conn,            (* connection ids                                       *)
  Key,             (* terminal addresses, or MSAs                          *)
  NoKey,           (* byConn has no entry (Go's zero value "")             *)
  Absent           (* byAddr / byMsa has no entry                          *)

ASSUME IndexAssumption ==
  /\ NoKey \notin Key
  /\ \A S \in SUBSET Conn : Absent # S

Index == [byConn : [Conn -> Key \cup {NoKey}],
          byKey  : [Key -> {Absent} \cup SUBSET Conn]]

EmptyIndex == [byConn |-> [c \in Conn |-> NoKey],
               byKey  |-> [k \in Key |-> Absent]]

-----------------------------------------------------------------------------
(* Reading a nil Go map gives the empty set. *)
Members(m, k) == IF m[k] = Absent THEN {} ELSE m[k]

(* Mutant: the set is edited but the empty key stays. *)
WithoutKeepsEmpty(m, k, S) == [m EXCEPT ![k] = Members(m, k) \ S]

(* delete(m[k], c) for every c of S, then delete(m, k) if the set is empty. *)
Without(m, k, S) ==
  LET left == Members(m, k) \ S
  IN  [m EXCEPT ![k] = IF left = {} THEN Absent ELSE left]

(* Add c to the set of k, made first if it is missing. *)
With(m, k, c) == [m EXCEPT ![k] = Members(m, k) \cup {c}]

(* Remove the connections of S, each found through byConn: it leaves the  *)
(* set of the key it has there, and nothing happens if it has none.        *)
RemoveConns(r, S) ==
  LET gone(k) == {c \in S : r.byConn[c] = k}
  IN  [byConn |-> [c \in Conn |-> IF c \in S THEN NoKey ELSE r.byConn[c]],
       byKey  |-> [k \in Key |-> IF gone(k) = {} THEN r.byKey[k]
                                 ELSE Without(r.byKey, k, gone(k))[k]]]

RemoveConn(r, c) == RemoveConns(r, {c})

(* Mutant: c is added to the new key and stays in the set of the old one. *)
SetKeyStays(r, c, k) == [byConn |-> [r.byConn EXCEPT ![c] = k],
                         byKey  |-> With(r.byKey, k, c)]

(* Give c the key k, leaving the set of a different earlier key. *)
SetKey(r, c, k) ==
  LET old  == r.byConn[c]
      left == IF old \notin {NoKey, k} THEN Without(r.byKey, old, {c})
              ELSE r.byKey
  IN  [byConn |-> [r.byConn EXCEPT ![c] = k], byKey |-> With(left, k, c)]

(* The connections a frame for k goes to: all of them on a broadcast. *)
Targets(r, k, broadcast) ==
  IF broadcast THEN {c \in Conn : r.byConn[c] # NoKey} ELSE Members(r.byKey, k)

-----------------------------------------------------------------------------
(* appRegistry.registerOrUpdate: FALSE and no change for the same MSA. *)
RegisterOrUpdate(r, c, k) ==
  IF r.byConn[c] = k THEN [reg |-> r, isNew |-> FALSE]
  ELSE [reg |-> SetKey(r, c, k), isNew |-> TRUE]

(* Mutant: the test for an unchanged address comes before the eviction. *)
LoginChecksSameFirst(r, c, k, supportComm, supportCasLink) ==
  LET others == IF supportComm \/ r.byConn[c] = NoKey THEN {}
                ELSE Members(r.byKey, k) \ {c}
      same   == r.byConn[c] = k
  IN  [reg     |-> IF same THEN r ELSE SetKey(RemoveConns(r, others), c, k),
       evicted |-> others,
       isNew   |-> ~same,
       reset   |-> supportComm /\ ~supportCasLink /\ r.byConn[c] \notin {NoKey, k}]

(* tmnRegistry.Login with its three results; supportComm lets several     *)
(* connections log in with one address.                                    *)
LoginResult(r, c, k, supportComm, supportCasLink) ==
  LET others == IF supportComm THEN {} ELSE Members(r.byKey, k) \ {c}
      base   == RemoveConns(r, others)
      same   == base.byConn[c] = k
      reset  == /\ supportComm
                /\ ~supportCasLink
                /\ base.byConn[c] \notin {NoKey, k}
      from   == IF reset THEN RemoveConn(base, c) ELSE base
  IN  [reg     |-> IF same THEN base ELSE SetKey(from, c, k),
       evicted |-> others,
       isNew   |-> ~same,
       reset   |-> reset]

-----------------------------------------------------------------------------
(* The two maps describe the same relation and no key keeps an empty set. *)
Agree(r) ==
  \A k \in Key :
    LET owners == {c \in Conn : r.byConn[c] = k}
    IN  r.byKey[k] = IF owners = {} THEN Absent ELSE owners

(* At most one connection per key. *)
Exclusive(r) ==
  \A c, d \in Conn : r.byConn[c] = r.byConn[d] /\ r.byConn[c] # NoKey => c = d
==============================================================================
