---------------------------- MODULE LossyDelivery ----------------------------
(***************************************************************************)
(* What the forward pool promises to a handler that forwards a frame: the  *)
(* frame is taken or dropped at once; a frame that was taken is settled    *)
(* once, by giving it to one connection that carries the wanted id or by   *)
(* losing it; drops are counted; nothing is said about the order.          *)
(***************************************************************************)
EXTENDS Naturals, Sequences

CONSTANTS FrameNo,   (* the frames                                            *)
          ConnId,    (* the ids connections may carry                         *)
          NoConn

VARIABLES name,      (* name[k]: the id of the k-th connection accepted       *)
          drops,     (* how many frames were dropped                          *)
          fate       (* fate[n]: the state of frame n, the connection it is   *)
                     (* for and the one that got it                           *)

Init == /\ name = <<>> /\ drops = 0
        /\ fate = [n \in FrameNo |-> [is |-> "unsent", to |-> NoConn, by |-> NoConn]]

Accept == \E id \in ConnId : name' = Append(name, id) /\ UNCHANGED <<drops, fate>>

Send(n) ==
  /\ fate[n].is = "unsent"
  /\ \E k \in DOMAIN name, s \in {"waiting", "dropped"} :
       /\ fate' = [fate EXCEPT ![n] = [is |-> s, to |-> k, by |-> NoConn]]
       /\ drops' = IF s = "dropped" THEN drops + 1 ELSE drops
  /\ UNCHANGED name

Give(n) ==
  /\ fate[n].is = "waiting"
  /\ \E k \in DOMAIN name :
       /\ name[k] = name[fate[n].to]
       /\ fate' = [fate EXCEPT ![n].is = "given", ![n].by = k]
  /\ UNCHANGED <<name, drops>>

Lose(n) ==
  /\ fate[n].is = "waiting"
  /\ fate' = [fate EXCEPT ![n].is = "refused"]
  /\ UNCHANGED <<name, drops>>

Next == \/ Accept
        \/ \E n \in FrameNo : Send(n) \/ Give(n) \/ Lose(n)

Spec == Init /\ [][Next]_<<name, drops, fate>>
==============================================================================
