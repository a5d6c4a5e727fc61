----------------------------- MODULE WebSessions -----------------------------
(***************************************************************************)
(* The sessions of the web console (web/auth.go and the handlers of        *)
(* http.go that use them): a login adds a session under a new token, a     *)
(* request that carries the token renews it, a logout deletes it, and a    *)
(* ticker deletes those that have expired, each under sessMu.  The browser *)
(* has the token in a cookie whose lifetime is set once, with the login;   *)
(* afterwards its requests carry no token.  The idle time may be loaded    *)
(* anew at any moment.                                                     *)
(***************************************************************************)
EXTENDS Naturals

CONSTANTS
  Token,      (* tokens, each drawn once                                   *)
  IdleTimes,  (* the values LogWebSessionIdleMin takes                     *)
  NoSession,
  MaxTime     (* bound: the clock                                          *)

ASSUME SessAssumption ==
  IdleTimes \subseteq Nat /\ NoSession \notin Nat /\ MaxTime \in Nat

VARIABLES
  time,      (* the clock                                                  *)
  idleMin,   (* sessionTTL                                                 *)
  sess,      (* sess[k]: when the session of token k expires               *)
  cookie,    (* cookie[k]: until when the browser of the login sends k     *)
  drawn,     (* history: the tokens of all logins                          *)
  ended,     (* history: the tokens that were logged out                   *)
  until,     (* history: until[k], the idle time after k's login           *)
  due        (* history: due[k], the idle time after k's last good request *)

sessVars == <<time, idleMin, sess, cookie, drawn, ended, until, due>>

SessInit ==
  /\ time = 0 /\ idleMin \in IdleTimes
  /\ sess = [k \in Token |-> NoSession] /\ cookie = [k \in Token |-> NoSession]
  /\ until = [k \in Token |-> 0] /\ due = [k \in Token |-> 0]
  /\ drawn = {} /\ ended = {}

Tick == /\ time < MaxTime /\ time' = time + 1
        /\ UNCHANGED <<idleMin, sess, cookie, drawn, ended, until, due>>

Reconfigure == /\ idleMin' \in IdleTimes
               /\ UNCHANGED <<time, sess, cookie, drawn, ended, until, due>>

Renewed(k) == /\ sess' = [sess EXCEPT ![k] = time + idleMin]
              /\ due' = [due EXCEPT ![k] = time + idleMin]

(* handleAuthLogin with a right password: sessionCreate, setSessionCookie. *)
LoginUser(k) ==
  /\ k \notin drawn
  /\ Renewed(k)
  /\ cookie' = [cookie EXCEPT ![k] = time + idleMin]
  /\ until' = [until EXCEPT ![k] = time + idleMin]
  /\ drawn' = drawn \cup {k}
  /\ UNCHANGED <<time, idleMin, ended>>

(* The browser's requests still carry k. *)
Sends(k) == cookie[k] # NoSession /\ time <= cookie[k]
ClearCookie(k) == cookie' = [cookie EXCEPT ![k] = NoSession]

Expired(k) == sess[k] # NoSession => time > sess[k]

(* requireAuth: sessionTouch renews the session of the request's token,    *)
(* and the cookie stays as it is ...                                       *)
TouchServes(k) ==
  /\ Sends(k) /\ ~Expired(k)
  /\ Renewed(k)
  /\ UNCHANGED <<time, idleMin, cookie, drawn, ended, until>>

(* ... or finds none, or one that has expired, and the request is refused. *)
TouchRefuses(k) ==
  /\ Sends(k) /\ Expired(k)
  /\ sess' = [sess EXCEPT ![k] = NoSession]
  /\ ClearCookie(k)
  /\ UNCHANGED <<time, idleMin, drawn, ended, until, due>>

(* A request without a token is refused; a session there may still be is   *)
(* not looked for.                                                         *)
RefusesBare(k) ==
  /\ k \in drawn /\ ~Sends(k)
  /\ ClearCookie(k)
  /\ UNCHANGED <<time, idleMin, sess, drawn, ended, until, due>>

(* handleAuthLogout: deletes the session of the token it is sent, if any.  *)
SessionDelete(k) ==
  /\ k \in drawn
  /\ IF Sends(k) THEN sess' = [sess EXCEPT ![k] = NoSession] ELSE UNCHANGED sess
  /\ ClearCookie(k)
  /\ ended' = ended \cup {k}
  /\ UNCHANGED <<time, idleMin, drawn, until, due>>

(* Mutant: a session goes in the minute in which it expires. *)
PruneEarly ==
  /\ sess' = [k \in Token |-> IF sess[k] # NoSession /\ time >= sess[k] THEN NoSession
                              ELSE sess[k]]
  /\ UNCHANGED <<time, idleMin, cookie, drawn, ended, until, due>>

PruneSessions ==
  /\ sess' = [k \in Token |-> IF Expired(k) THEN NoSession ELSE sess[k]]
  /\ UNCHANGED <<time, idleMin, cookie, drawn, ended, until, due>>

SessNext ==
  \/ Tick \/ Reconfigure \/ PruneSessions
  \/ \E k \in Token : \/ LoginUser(k) \/ TouchServes(k) \/ TouchRefuses(k)
                      \/ RefusesBare(k) \/ SessionDelete(k)

SessSpec == SessInit /\ [][SessNext]_sessVars

-----------------------------------------------------------------------------
(* Who logged in, and not out, and has sent a request within the idle time *)
(* of the last one, is served until the idle time set at the login has     *)
(* gone by since the login: neither the ticker, nor another user's login   *)
(* or logout, nor a change of the idle time in between ends the session.   *)
(* Nobody else is served, although the ticker comes later.  (That a user   *)
(* who never pauses must log in again is not what WEB_SPEC.md:249 says.)   *)
ActiveServed ==
  \A k \in drawn : Sends(k) /\ ~Expired(k) <=>
                     k \notin ended /\ time <= due[k] /\ time <= until[k]
==============================================================================
