------------------------------ MODULE MCConsole ------------------------------
(***************************************************************************)
(* Model checking the parts of the console, and the log writer, which      *)
(* share no state: the accounts, the sessions, the blacklist, the          *)
(* settings, the tables and the packet logs.  Each behaviour runs one of   *)
(* them, the focus, and leaves the others as they begin.                   *)
(***************************************************************************)
EXTENDS WebUsers, WebSessions, Blacklist, LogRotation, ConfigFile, ConsoleTables, TLC

VARIABLE focus

Symmetry == Permutations(Putter)

Protocols == <<"376.1", "698.45">>

Debug(v)  == [k \in {"LogDebugClose"} |-> v]
SomePatches == {Debug(TRUE), Debug(FALSE),
                [k \in {"LogDebugClose", "TCPPort"} |-> TRUE],
                [k \in {"Timeout", "LogDebugClose"} |-> k = "Timeout"],
                [k \in {"Timeout"} |-> Wrong]}

MCInit ==
  /\ focus \in {"users", "sess", "black", "log", "conf", "tables"}
  /\ UsersInit /\ SessInit /\ BlackInit /\ LogInit /\ ConfInit /\ TabInit
  /\ focus # "users" => users = NoFile
  /\ focus # "sess" => idleMin = CHOOSE m \in IdleTimes : TRUE
  /\ focus # "black" => inode = <<>>
  /\ focus # "conf" => conf = Defaults

Only(f, A) == focus = f /\ A
Still(f, v) == focus # f => UNCHANGED v

MCNext ==
  /\ UNCHANGED focus
  /\ \/ Only("users", UsersNext) \/ Only("sess", SessNext) \/ Only("black", BlackNext)
     \/ Only("log", LogNext) \/ Only("conf", ConfNext) \/ Only("tables", TabNext)
  /\ Still("users", usersVars) /\ Still("sess", sessVars) /\ Still("black", blackVars)
  /\ Still("log", logVars) /\ Still("conf", confVars) /\ Still("tables", tabVars)

MCSpec == MCInit /\ [][MCNext]_<<usersVars, sessVars, blackVars, logVars, confVars, tabVars, focus>>
===============================================================================
