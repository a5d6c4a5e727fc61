----------------------------- MODULE MCDataPath -----------------------------
(***************************************************************************)
(* Model checking the parts of the data path that share no state: the two  *)
(* registries, the forward pool, the frame check, the layout of frames and *)
(* the live events.  Each behaviour runs one of them, the focus, and       *)
(* leaves the others as they begin.                                        *)
(***************************************************************************)
EXTENDS TmnRegistry, AppRegistry, ForwardPool, FrameCheck, FrameLayout,
        LiveEvents

VARIABLE focus

tmnVars == vars

(* Frames of all three protocols, a frame whose sum is wrong, a header     *)
(* that asks for more than a frame may have, and noise.                    *)
Pieces == {<<6, 5, 0, 5, 6, 2, 1>>,
           <<6, 1, 1, 6, 2, 2, 1>>,
           <<6, 2, 2, 6, 3, 3, 1>>,
           <<6, 7, 7, 6, 2, 0, 2, 4, 1>>,
           <<6, 2, 2, 6, 3, 4, 1>>,
           <<6, 11, 0, 4>>,
           <<2, 6>>}
ThreePieces == {x \o y \o z : x, y, z \in Pieces}

(* An address of bytes that can be told apart, and one that looks like the *)
(* head of a frame.                                                        *)
TwoAddresses == {Marks(16, 160), [i \in 1..16 |-> IF i = 1 THEN 104 ELSE 2 * (i % 2)]}

MCInit ==
  /\ focus \in {"tmn", "app", "pool", "check", "layout", "live"}
  /\ IF focus = "check" THEN TRUE ELSE line = CHOOSE s \in Streams : TRUE
  /\ IF focus = "layout" THEN TRUE
     ELSE proto = "nw" /\ heard = CHOOSE f \in Uplinks("nw") : TRUE
  /\ Init /\ AppInit /\ PoolInit /\ CheckInit /\ LayInit /\ LiveInit

Only(f, A) == focus = f /\ A
Still(f, v) == focus # f => UNCHANGED v

MCNext ==
  /\ UNCHANGED focus
  /\ \/ Only("tmn", Next) \/ Only("app", AppNext) \/ Only("pool", PoolNext)
     \/ Only("check", CheckNext) \/ Only("layout", LayNext) \/ Only("live", LiveNext)
  /\ Still("tmn", tmnVars) /\ Still("app", appVars) /\ Still("pool", poolVars)
  /\ Still("check", chkVars) /\ Still("layout", layVars) /\ Still("live", liveVars)

MCSpec == MCInit /\ [][MCNext]_<<tmnVars, appVars, poolVars, chkVars, layVars, liveVars, focus>>

MCFairSpec == MCSpec /\ WorkerFairness
=============================================================================
