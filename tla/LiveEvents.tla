------------------------------ MODULE LiveEvents ------------------------------
(***************************************************************************)
(* The live broadcast (web/live.go and handleLiveStream in http.go): every *)
(* browser that watches has a bounded channel; whoever logs a packet       *)
(* copies the list of channels under the lock and then sends to each       *)
(* without waiting; a browser that leaves has its channel deleted under    *)
(* the lock and then closed.                                               *)
(***************************************************************************)
EXTENDS Naturals, Sequences, FiniteSets

CONSTANTS
  Stream,        (* handlers of /api/logs/stream, each with its channel    *)
  Publisher,     (* goroutines that log: workers and bridges               *)
  LiveBufSize, LiveMaxSub,
  MaxPublished   (* bound: events each publisher publishes                 *)

ASSUME LiveAssumption ==
  LiveBufSize \in Nat \ {0} /\ LiveMaxSub \in Nat /\ MaxPublished \in Nat

Event == Publisher \X (1..MaxPublished)

VARIABLES
  liveSubs,   (* the channels subscribed                                   *)
  stream,     (* stream[s]: none, open, leaving or closed                  *)
  chan,       (* chan[s]: what is in the channel                           *)
  shown,      (* shown[s]: what the browser got                            *)
  chans,      (* chans[p]: the copied channels p has still to send to      *)
  count,      (* count[p]: how many events p has published                 *)
  panicked    (* a send on a closed channel has ended the process          *)

liveVars == <<liveSubs, stream, chan, shown, chans, count, panicked>>

LiveInit ==
  /\ liveSubs = {}
  /\ stream = [s \in Stream |-> "none"]
  /\ chan = [s \in Stream |-> <<>>]
  /\ shown = [s \in Stream |-> <<>>]
  /\ chans = [p \in Publisher |-> {}]
  /\ count = [p \in Publisher |-> 0]
  /\ panicked = FALSE

-----------------------------------------------------------------------------
(* A browser begins to watch, unless too many do.                          *)
liveSubscribe(s) ==
  /\ ~panicked /\ stream[s] = "none" /\ Cardinality(liveSubs) < LiveMaxSub
  /\ liveSubs' = liveSubs \cup {s}
  /\ stream' = [stream EXCEPT ![s] = "open"]
  /\ UNCHANGED <<chan, shown, chans, count, panicked>>

(* handleLiveStream shows the next event.                                  *)
Show(s) ==
  /\ ~panicked /\ stream[s] = "open" /\ chan[s] # <<>>
  /\ shown' = [shown EXCEPT ![s] = Append(@, Head(chan[s]))]
  /\ chan' = [chan EXCEPT ![s] = Tail(@)]
  /\ UNCHANGED <<liveSubs, stream, chans, count, panicked>>

(* liveUnsubscribe: out of the list, under the lock ...                    *)
liveUnsubscribe(s) ==
  /\ ~panicked /\ stream[s] = "open"
  /\ liveSubs' = liveSubs \ {s}
  /\ stream' = [stream EXCEPT ![s] = "leaving"]
  /\ UNCHANGED <<chan, shown, chans, count, panicked>>

(* ... then the channel is closed.                                         *)
Close(s) ==
  /\ ~panicked /\ stream[s] = "leaving"
  /\ stream' = [stream EXCEPT ![s] = "closed"]
  /\ UNCHANGED <<liveSubs, chan, shown, chans, count, panicked>>

-----------------------------------------------------------------------------
(* PublishLive: the channels are copied under the lock ...                 *)
PublishLive(p) ==
  /\ ~panicked /\ chans[p] = {} /\ count[p] < MaxPublished
  /\ count' = [count EXCEPT ![p] = @ + 1]
  /\ chans' = [chans EXCEPT ![p] = liveSubs]
  /\ UNCHANGED <<liveSubs, stream, chan, shown, panicked>>

(* Mutant: a channel is sent to again. *)
SendStays(p, s) ==
  /\ ~panicked /\ s \in chans[p]
  /\ \/ chans' = [chans EXCEPT ![p] = @ \ {s}]
     \/ UNCHANGED chans
  /\ chan' = [chan EXCEPT ![s] = IF stream[s] = "closed" \/ Len(@) >= LiveBufSize THEN @
                                 ELSE Append(@, <<p, count[p]>>)]
  /\ panicked' = (stream[s] = "closed")
  /\ UNCHANGED <<liveSubs, stream, shown, count>>

(* ... and sent to in any order: a full channel loses the event, and a     *)
(* send to a closed one is a panic that nothing recovers.                  *)
Send(p, s) ==
  /\ ~panicked /\ s \in chans[p]
  /\ chans' = [chans EXCEPT ![p] = @ \ {s}]
  /\ chan' = [chan EXCEPT ![s] = IF stream[s] = "closed" \/ Len(@) >= LiveBufSize THEN @
                                 ELSE Append(@, <<p, count[p]>>)]
  /\ panicked' = (stream[s] = "closed")
  /\ UNCHANGED <<liveSubs, stream, shown, count>>

LiveNext ==
  \/ \E s \in Stream : liveSubscribe(s) \/ Show(s) \/ liveUnsubscribe(s) \/ Close(s)
  \/ \E p \in Publisher : PublishLive(p) \/ \E s \in Stream : Send(p, s)

LiveSpec == LiveInit /\ [][LiveNext]_liveVars

-----------------------------------------------------------------------------
(* Some events may be missing, but what a browser gets of one publisher is *)
(* in order and comes once, though sends happen outside the lock.          *)
ShownInOrder ==
  \A s \in Stream : LET all == shown[s] \o chan[s] IN
    \A i, j \in DOMAIN all : i < j /\ all[i][1] = all[j][1] => all[i][2] < all[j][2]

(* Whoever publishes is never harmed by the browsers (live.go:63: events   *)
(* are broadcast without waiting, slow clients lose them).                 *)
NeverPanics == ~panicked
===============================================================================
