---------------------------- MODULE ConnDirectory ----------------------------
(***************************************************************************)
(* What a registry promises its callers, without an index: each connection *)
(* owns at most one key, a lookup returns exactly the owners of the key at *)
(* that moment, and with OnePerKey a bind takes the key away from every    *)
(* other owner and names them.                                             *)
(***************************************************************************)
CONSTANTS Conn, Key, NoKey,
          AllKeys,          (* the keys that address every owner           *)
          OnePerKey,        (* a new owner of a key evicts the others      *)
          ReportsMove       (* a bind tells when it replaces another key   *)

VARIABLES owner,            (* owner[c]: the key c is registered under     *)
          ret               (* the last call and what it returned          *)

Call(op, k, all) == [op |-> op, key |-> k, all |-> all]
Return(call, S, new, moved) ==
  ret' = [call |-> call, conns |-> S, isNew |-> new, reset |-> moved]

OwnersOf(k) == {c \in Conn : owner[c] = k}

Init == /\ owner = [c \in Conn |-> NoKey]
        /\ ret = [call |-> Call("none", NoKey, FALSE),
                  conns |-> {}, isNew |-> FALSE, reset |-> FALSE]

Bind(c, k) ==
  LET others == IF OnePerKey THEN OwnersOf(k) \ {c} ELSE {}
  IN  /\ owner' = [d \in Conn |-> IF d = c THEN k
                                  ELSE IF d \in others THEN NoKey ELSE owner[d]]
      /\ Return(Call("bind", k, FALSE), others, owner[c] # k,
                ReportsMove /\ owner[c] # k /\ owner[c] # NoKey)

Unbind(c) == /\ owner' = [owner EXCEPT ![c] = NoKey]
             /\ UNCHANGED ret

(* Every owner if the caller asks for all or the key stands for all, else  *)
(* the owners of exactly this key.                                         *)
Lookup(k, all) ==
  /\ Return(Call("lookup", k, all),
            IF all \/ k \in AllKeys THEN Conn \ OwnersOf(NoKey) ELSE OwnersOf(k),
            FALSE, FALSE)
  /\ UNCHANGED owner

Next == \/ \E c \in Conn, k \in Key : Bind(c, k)
        \/ \E c \in Conn : Unbind(c)
        \/ \E k \in Key, all \in BOOLEAN : Lookup(k, all)

Spec == Init /\ [][Next]_<<owner, ret>>
==============================================================================
