---------------------------- MODULE BuildGates -----------------------------
(***************************************************************************)
(* What stands between an edit and a card: the TCP vector suite, the table *)
(* verifiers, the network.conf linter and the packager.  They share        *)
(* nothing, so a behaviour is about one of them.                           *)
(***************************************************************************)
EXTENDS TcpVectors, FsaTables, NetworkConf, Appliance

VARIABLE gate

gates == {"tcp", "tables", "conf", "appliance"}

vars == <<gate, tcpVars, tabVars, confVars, appVars>>

\* The gates a behaviour is not about start in one state only.
Init ==
    /\ gate \in gates
    /\ TcpInit
    /\ TabInit /\ (gate # "tables" => tool = "dhcp")
    /\ ConfInit /\ (gate # "conf" => quirks = {})
    /\ AppInit /\ (gate # "appliance" =>
                     /\ knobs.kernelRoutes = DefaultRoutes
                     /\ knobs.routes = DefaultRoutes
                     /\ knobs.kernelContent = Unset /\ knobs.content = Unset
                     /\ knobs.marks = 1 /\ knobs.missing = 0)

Next ==
    \/ gate = "tcp" /\ TcpNext /\ UNCHANGED <<gate, tabVars, confVars, appVars>>
    \/ gate = "tables" /\ TabNext /\ UNCHANGED <<gate, tcpVars, confVars, appVars>>
    \/ gate = "conf" /\ ConfNext /\ UNCHANGED <<gate, tcpVars, tabVars, appVars>>
    \/ gate = "appliance" /\ AppNext
          /\ UNCHANGED <<gate, tcpVars, tabVars, confVars>>

Spec == Init /\ [][Next]_vars
=============================================================================
