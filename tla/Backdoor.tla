------------------------------- MODULE Backdoor -------------------------------
(***************************************************************************)
(* The eventlet backdoor (eventlet_backdoor.py): the processes of a        *)
(* service, which start and die independently, each open one at the same   *)
(* range of ports, or at the same path of a Unix socket.                   *)
(***************************************************************************)
EXTENDS Integers

CONSTANTS
    BDProcess,
    BDRange,       \* the ranges to check: pairs of start and end
    BDReserved,    \* ports that another program holds
    BDEphemeral    \* ports that the kernel chooses from when it is asked for port 0

ASSUME BDRangeAssumption == BDRange \subseteq Nat \X Nat
ASSUME BDEphemeralAssumption == BDEphemeral \subseteq Nat \ {0}
ASSUME BDProcessAssumption == BDProcess \cap {"nothing", "stale"} = {}

VARIABLES
    bdConf,      \* the configuration: none, a path, or a range of ports
    bdPort,      \* the port at which each process listens, or -1
    bdPath,      \* the process whose socket the path names, or why there is none
    bdTry,       \* try_port
    bdPc         \* where each process is

bdVars == <<bdConf, bdPort, bdPath, bdTry, bdPc>>

BDNoPort == -1
BDOffConf == <<-1, -1>>
BDPathConf == <<-2, -2>>

BDInit ==
    /\ bdConf = BDOffConf
    /\ bdPort = [p \in BDProcess |-> BDNoPort]
    /\ bdPath = "nothing"
    /\ bdTry = [p \in BDProcess |-> BDNoPort]
    /\ bdPc = [p \in BDProcess |-> "new"]

\* The configuration is read; a file may be left at the path.
BDConfigure ==
    /\ bdConf = BDOffConf
    /\ bdConf' \in BDRange \cup {BDPathConf}
    /\ bdPath' \in {"nothing", "stale"}
    /\ UNCHANGED <<bdPort, bdTry, bdPc>>

BDMove(p, from, to) == bdPc[p] = from /\ bdPc' = [bdPc EXCEPT ![p] = to]

\* A greenthread serves the socket.
BDOpened(p, from) == BDMove(p, from, "open")

\* _parse_port_range: a range whose end comes first is an error.
BDBegin(p) ==
    /\ bdConf # BDOffConf
    /\ IF bdConf = BDPathConf
         THEN BDMove(p, "new", "listen") /\ bdTry' = bdTry
         ELSE /\ BDMove(p, "new", IF bdConf[2] < bdConf[1] THEN "failed" ELSE "port")
              /\ bdTry' = [bdTry EXCEPT ![p] = bdConf[1]]
    /\ UNCHANGED <<bdConf, bdPort, bdPath>>

\* What listen() at a port can open: port 0 is any port that is free.
BDFree(port) ==
    LET taken == BDReserved \cup {bdPort[p] : p \in BDProcess}
    IN  (IF port = 0 THEN BDEphemeral ELSE {port}) \ taken

BDListen(p) ==
    /\ BDOpened(p, "port")
    /\ \E port \in BDFree(bdTry[p]) : bdPort' = [bdPort EXCEPT ![p] = port]
    /\ UNCHANGED <<bdConf, bdPath, bdTry>>

\* Mutant: the end of the range is not looked at in time.
BDInUseLate(p) ==
    /\ BDFree(bdTry[p]) = {}
    /\ IF bdTry[p] > bdConf[2]
         THEN BDMove(p, "port", "failed") /\ bdTry' = bdTry
         ELSE bdPc[p] = "port" /\ bdPc' = bdPc /\ bdTry' = [bdTry EXCEPT ![p] = @ + 1]
    /\ UNCHANGED <<bdConf, bdPort, bdPath>>

BDInUse(p) ==
    /\ BDFree(bdTry[p]) = {}
    /\ IF bdTry[p] >= bdConf[2]
         THEN BDMove(p, "port", "failed") /\ bdTry' = bdTry
         ELSE bdPc[p] = "port" /\ bdPc' = bdPc /\ bdTry' = [bdTry EXCEPT ![p] = @ + 1]
    /\ UNCHANGED <<bdConf, bdPort, bdPath>>

\* eventlet.listen() at the path, first and after the unlink; any file is in use.
BDBind(p) ==
    /\ bdPath = "nothing"
    /\ BDOpened(p, "listen") \/ BDOpened(p, "again")
    /\ bdPath' = p
    /\ UNCHANGED <<bdConf, bdPort, bdTry>>

BDPathInUse(p) ==
    /\ bdPath # "nothing"
    /\ BDMove(p, "listen", "unlink") \/ BDMove(p, "again", "failed")
    /\ UNCHANGED <<bdConf, bdPort, bdPath, bdTry>>

\* Another process may have removed it already.
BDUnlink(p) ==
    /\ BDMove(p, "unlink", "again")
    /\ bdPath' = "nothing"
    /\ UNCHANGED <<bdConf, bdPort, bdTry>>

\* listen() or unlink() fails otherwise, before the file is gone or after.
BDRefused(p) ==
    /\ \/ \E l \in {"port", "listen", "unlink"} : BDMove(p, l, "failed")
       \/ BDMove(p, "again", "refused")
    /\ UNCHANGED <<bdConf, bdPort, bdPath, bdTry>>

\* The process ends; a socket's file stays.
BDExit(p) ==
    /\ bdPc[p] # "gone"
    /\ bdPc' = [bdPc EXCEPT ![p] = "gone"]
    /\ bdPort' = [bdPort EXCEPT ![p] = BDNoPort]
    /\ bdPath' = IF bdPath = p THEN "stale" ELSE bdPath
    /\ UNCHANGED <<bdConf, bdTry>>

BDNext ==
    \/ BDConfigure
    \/ \E p \in BDProcess :
         \/ BDBegin(p) \/ BDListen(p) \/ BDInUse(p)
         \/ BDBind(p) \/ BDPathInUse(p) \/ BDUnlink(p) \/ BDRefused(p)
         \/ BDExit(p)

BDSpec == BDInit /\ [][BDNext]_bdVars
-----------------------------------------------------------------------------
\* Ports: the processes listen at different ports, all inside the range, or chosen
\* by the kernel if the range begins with port 0.
\* Path: when processes have opened it and none died, or is about to bind it again
\* or was refused that, the path leads to one of them, although each unlinks what the
\* others have bound and may then find the path in use again (190-208).
BackdoorOpen ==
    /\ \A p, q \in BDProcess :
         bdPort[p] # BDNoPort =>
           /\ \/ bdConf[1] <= bdPort[p] /\ bdPort[p] <= bdConf[2]
              \/ bdConf[1] = 0 /\ bdPort[p] \in BDEphemeral
           /\ bdPort[p] = bdPort[q] => p = q
    /\ (\E p \in BDProcess : bdPc[p] = "open") /\ bdConf = BDPathConf
         /\ (\A p \in BDProcess : bdPc[p] \notin {"again", "refused", "gone"})
         => bdPath \in {p \in BDProcess : bdPc[p] = "open"}
=============================================================================
