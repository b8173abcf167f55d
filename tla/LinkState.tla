----------------------------- MODULE LinkState ------------------------------
(***************************************************************************)
(* hw_test/link.py: what the hardware tests do to the laptop's network     *)
(* interface, and how they put it back.                                    *)
(*                                                                         *)
(* A test session opens blocks one after the other: temporary_link_speed   *)
(* restricts what the interface advertises, temporary_link_down takes it   *)
(* down; at the end the session finalizer restores what was saved first.   *)
(* The session may find the interface in any state: down, with             *)
(* autonegotiation off, or left restricted by an earlier session.          *)
(* Every command is an ethtool process or a netlink message that can be    *)
(* refused, or be carried out although its answer comes too late.          *)
(*                                                                         *)
(* The PHY works on its own: after a new advertisement it keeps the old    *)
(* link for a while ("old"), drops it ("dark", then "down": negotiation    *)
(* takes a second, so a poll sees it), may come up for a moment at any     *)
(* speed ("blip") and settles on the best common one ("settled").          *)
(***************************************************************************)
EXTENDS Integers, FiniteSets, FiniteSetsExt

CONSTANTS
  Speeds,        \* what both ends support, in Mb/s
  Requests,      \* the speeds tests ask temporary_link_speed for
  StableSamples, \* samples in a row that make a link stable (3 and 5)
  MaxPolls,      \* polls before a wait's deadline
  MaxBlocks,     \* blocks in a session
  MaxBlips,      \* moments the PHY comes up before it settles
  MaxErrors      \* commands that fail in a session

ASSUME LinkAssumption ==
  /\ Requests \subseteq Speeds /\ Speeds \subseteq Nat \ {0}
  /\ \E s \in Speeds : \A t \in Speeds : s >= t
  /\ StableSamples \in Nat \ {0} /\ MaxPolls \in Nat /\ MaxBlocks \in Nat

VARIABLES
  nic,       \* the interface: up, auto, adv (advertised speeds), mtu
  phy, speed,
  lasted,    \* polls the current blip has been seen for
  blips,
  nic0,      \* history: the interface as the session found it
  saved0,    \* what link_session_finalizer saved of it
  pc,        \* where the session is
  saved,     \* link_state at the entry of the block
  wait,      \* the running wait: what for, and where it leads
  run,       \* consecutive good samples
  polls,
  cread,     \* the carrier that wait_for_link_at has read in this poll
  erred,     \* history: a command or a wait of a block has raised
  lost,      \* history: the finalizer gave up
  blocks, errors

phyVars  == << phy, speed, lasted, blips >>
sessVars == << nic0, saved0 >>
waitVars == << wait, run, polls, cread >>
vars == << nic, phyVars, sessVars, pc, saved, waitVars, erred, lost, blocks, errors >>

\* Without autonegotiation adv is the speed that is forced.
Nics == { n \in [ up : BOOLEAN, auto : BOOLEAN, adv : {Speeds} \union { {m} : m \in Speeds },
                  mtu : {"default", "large"} ] : ~n.auto => \E m \in Speeds : n.adv = {m} }

Carrier == nic.up /\ phy \notin {"dark", "down"}

\* sysfs always answers, ethtool need not: autoneg and speed_mbps are None then.
link_state(answers) ==
  [ up    |-> nic.up,
    auto  |-> IF ~answers THEN "none" ELSE IF nic.auto THEN "on" ELSE "off",
    speed |-> IF answers /\ Carrier THEN speed ELSE 0 ]

Asked(answers) ==
  \/ answers /\ UNCHANGED errors
  \/ ~answers /\ errors < MaxErrors /\ errors' = errors + 1

NoState == [ up |-> FALSE, auto |-> "none", speed |-> 0 ]
NoWait == [ kind |-> "none", want |-> 0, then |-> "idle", else |-> "idle" ]

Init ==
  /\ nic \in Nics /\ nic0 = nic
  /\ phy \in {"down"} \union (IF nic.up THEN {"settled"} ELSE {})
  /\ speed = Max(nic.adv) /\ lasted = 0 /\ blips = 0
  /\ pc = "open" /\ saved0 = NoState /\ saved = NoState
  /\ wait = NoWait /\ run = 0 /\ polls = 0 /\ cread = FALSE
  /\ erred = FALSE /\ lost = FALSE /\ blocks = 0 /\ errors = 0

-----------------------------------------------------------------------------
(* The interface.                                                          *)

PhyDrop ==
  /\ \/ phy \in {"old", "blip"} /\ phy' = "dark"
     \/ phy = "dark" /\ pc # "wait" /\ phy' = "down"
  /\ UNCHANGED << nic, speed, lasted, blips, sessVars, pc, saved, waitVars, erred, lost, blocks, errors >>

PhyBlip ==
  /\ nic.up /\ phy = "down" /\ blips < MaxBlips
  /\ phy' = "blip" /\ speed' \in (IF nic.auto THEN Speeds ELSE nic.adv)
  /\ lasted' = 0 /\ blips' = blips + 1
  /\ UNCHANGED << nic, sessVars, pc, saved, waitVars, erred, lost, blocks, errors >>

PhySettle ==
  /\ nic.up /\ phy = "down"
  /\ phy' = "settled" /\ speed' = Max(nic.adv) /\ blips' = 0 /\ lasted' = 0
  /\ UNCHANGED << nic, sessVars, pc, saved, waitVars, erred, lost, blocks, errors >>

\* link_set_speed / link_set_autoneg: ethtool -s ... autoneg on [advertise].
Ethtool(adv) ==
  /\ nic' = [ nic EXCEPT !.auto = TRUE, !.adv = adv ]
  /\ phy' = IF phy = "settled" THEN "old" ELSE phy
  /\ UNCHANGED << speed, lasted, blips >>

link_set_speed(mbps) == Ethtool({mbps})
link_set_autoneg     == Ethtool(Speeds)

\* RTM_NEWLINK with IFF_UP set or cleared.
set_link_flags(up) ==
  /\ nic' = [ nic EXCEPT !.up = up ]
  /\ phy' = IF up /\ nic.up THEN phy ELSE "down"
  /\ lasted' = 0
  /\ UNCHANGED << speed, blips >>

link_set_mtu(mtu) == nic' = [ nic EXCEPT !.mtu = mtu ] /\ UNCHANGED phyVars

\* A command works, is refused, or is carried out and reported as failed.
Command(effect, ok, raise) ==
  \/ effect /\ ok /\ UNCHANGED errors
  \/ /\ errors < MaxErrors /\ errors' = errors + 1
     /\ effect \/ UNCHANGED << nic, phyVars >>
     /\ raise

StartWait(kind, want, then, else) ==
  /\ pc' = "wait"
  /\ wait' = [ kind |-> kind, want |-> want, then |-> then, else |-> else ]
  /\ run' = 0 /\ polls' = 0 /\ cread' = FALSE

-----------------------------------------------------------------------------
(* temporary_link_speed.                                                   *)

EnterSpeed ==
  /\ pc = "idle" /\ blocks < MaxBlocks
  /\ \E answers \in BOOLEAN : Asked(answers) /\ saved' = link_state(answers)
  /\ pc' = "set" /\ blocks' = blocks + 1
  /\ UNCHANGED << nic, phyVars, sessVars, waitVars, erred, lost >>

SetSpeed ==
  /\ pc = "set"
  /\ \E r \in Requests :
       Command(link_set_speed(r),
               StartWait("link_at", r, "body", "unset") /\ UNCHANGED erred,
               pc' = "unset" /\ erred' = TRUE /\ UNCHANGED waitVars)
  /\ UNCHANGED << sessVars, saved, lost, blocks >>

\* The test body ends or raises: the finally runs either way.
BodyEnds ==
  /\ pc = "body" /\ pc' = "unset"
  /\ UNCHANGED << nic, phyVars, sessVars, saved, waitVars, erred, lost, blocks, errors >>

\* Mutant: only the saved speed is advertised again.
ExitSpeed_narrow ==
  /\ pc = "unset"
  /\ Command(link_set_speed(IF saved.speed # 0 THEN saved.speed ELSE Max(Speeds)),
             IF saved.speed # 0
               THEN StartWait("link_at", saved.speed, "idle", "idle") /\ UNCHANGED erred
               ELSE pc' = "idle" /\ UNCHANGED << waitVars, erred >>,
             pc' = "idle" /\ erred' = TRUE /\ UNCHANGED waitVars)
  /\ UNCHANGED << sessVars, saved, lost, blocks >>

\* The finally: a LinkError is swallowed here.
ExitSpeed ==
  /\ pc = "unset"
  /\ Command(link_set_autoneg,
             IF saved.speed # 0
               THEN StartWait("link_at", saved.speed, "idle", "idle") /\ UNCHANGED erred
               ELSE pc' = "idle" /\ UNCHANGED << waitVars, erred >>,
             pc' = "idle" /\ erred' = TRUE /\ UNCHANGED waitVars)
  /\ UNCHANGED << sessVars, saved, lost, blocks >>
-----------------------------------------------------------------------------
(* temporary_link_down.                                                    *)

\* An interface that is down already is refused; link_down is not inside
\* the try, so a LinkError of it leaves the block at once.
EnterDown ==
  /\ pc = "idle" /\ blocks < MaxBlocks
  /\ blocks' = blocks + 1
  /\ \/ /\ ~nic.up /\ erred' = TRUE
        /\ UNCHANGED << nic, phyVars, pc, errors >>
     \/ /\ nic.up
        /\ Command(set_link_flags(FALSE),
                   pc' = "down" /\ UNCHANGED erred,
                   pc' = "idle" /\ erred' = TRUE)
  /\ UNCHANGED << sessVars, saved, waitVars, lost >>

ExitDown ==
  /\ pc = "down"
  /\ Command(set_link_flags(TRUE),
             StartWait("carrier", 0, "idle", "idle") /\ UNCHANGED erred,
             pc' = "idle" /\ erred' = TRUE /\ UNCHANGED waitVars)
  /\ UNCHANGED << sessVars, saved, lost, blocks >>

\* A test that waits for the speed the link had, after its block.
WaitForSpeed ==
  /\ pc = "idle" /\ blocks < MaxBlocks /\ saved.speed # 0
  /\ blocks' = blocks + 1
  /\ StartWait("speed", saved.speed, "idle", "idle")
  /\ UNCHANGED << nic, phyVars, sessVars, saved, erred, lost, errors >>
-----------------------------------------------------------------------------
(* wait_for_carrier, wait_for_link_at: deadline-polled.  A blip is too     *)
(* short to be seen by StableSamples polls.                                *)

PollCarrier ==
  /\ pc = "wait" /\ wait.kind = "link_at" /\ cread = FALSE /\ polls < MaxPolls
  /\ cread' = Carrier
  /\ IF Carrier
       THEN UNCHANGED << run, polls >>
       ELSE run' = 0 /\ polls' = polls + 1
  /\ phy' = IF phy = "dark" THEN "down" ELSE phy
  /\ UNCHANGED << nic, speed, lasted, blips, sessVars, pc, saved, wait, erred, lost, blocks, errors >>

SeenByPoll ==
  /\ phy = "blip" => lasted < StableSamples - 1
  /\ lasted' = IF phy = "blip" THEN lasted + 1 ELSE lasted
  /\ phy' = IF phy = "dark" THEN "down" ELSE phy
  /\ UNCHANGED << speed, blips >>

\* wait_for_speed takes the first sample that shows the speed.
Needed == IF wait.kind = "speed" THEN 1 ELSE StableSamples

\* Mutant: a bad sample does not start the count again.
Sampled_sticky(good) ==
  /\ run' = IF good THEN run + 1 ELSE run
  /\ polls' = polls + 1 /\ cread' = FALSE
  /\ pc' = IF run' >= Needed THEN wait.then ELSE pc
  /\ wait' = IF run' >= Needed THEN NoWait ELSE wait

Sampled(good) ==
  /\ run' = IF good THEN run + 1 ELSE 0
  /\ polls' = polls + 1 /\ cread' = FALSE
  /\ pc' = IF run' >= Needed THEN wait.then ELSE pc
  /\ wait' = IF run' >= Needed THEN NoWait ELSE wait

\* The second read of the poll: ethtool, which shows no speed without carrier.
PollSpeed ==
  /\ pc = "wait"
  /\ \/ wait.kind = "link_at" /\ cread
     \/ wait.kind = "speed" /\ polls < MaxPolls
  /\ SeenByPoll
  /\ \E answers \in BOOLEAN :
       Asked(answers) /\ Sampled(link_state(answers).speed = wait.want)
  /\ UNCHANGED << nic, sessVars, saved, erred, lost, blocks >>

PollStable ==
  /\ pc = "wait" /\ wait.kind = "carrier" /\ polls < MaxPolls
  /\ SeenByPoll
  /\ Sampled(Carrier)
  /\ UNCHANGED << nic, sessVars, saved, erred, lost, blocks, errors >>

\* Mutant: the loop tests the deadline only after a good sample.
WaitExpires_late ==
  /\ pc = "wait" /\ polls >= MaxPolls /\ ~cread /\ run > 0
  /\ pc' = wait.else /\ wait' = NoWait
  /\ erred' = TRUE
  /\ UNCHANGED << nic, phyVars, sessVars, saved, run, polls, cread, lost, blocks, errors >>

WaitExpires ==
  /\ pc = "wait" /\ polls >= MaxPolls /\ ~cread
  /\ pc' = wait.else /\ wait' = NoWait
  /\ erred' = (erred \/ wait.else # "closed")
  /\ lost' = (lost \/ wait.else = "closed")
  /\ UNCHANGED << nic, phyVars, sessVars, saved, run, polls, cread, blocks, errors >>
-----------------------------------------------------------------------------
(* link_session_finalizer and restore_link.                                *)

OpenSession ==
  /\ pc = "open"
  /\ \E answers \in BOOLEAN : Asked(answers) /\ saved0' = link_state(answers)
  /\ pc' = "bump"
  /\ UNCHANGED << nic, nic0, phyVars, saved, waitVars, erred, lost, blocks >>

\* An MTU that is large enough is left alone; a LinkError is only printed.
BumpMtu ==
  /\ pc = "bump" /\ pc' = "idle"
  /\ IF nic.mtu = "large"
       THEN UNCHANGED << nic, phyVars, errors >>
       ELSE Command(link_set_mtu("large"), TRUE, TRUE)
  /\ UNCHANGED << sessVars, saved, waitVars, erred, lost, blocks >>

Closed == pc' = "closed" /\ lost' = TRUE /\ UNCHANGED waitVars

RestoreMtu ==
  /\ pc = "idle"
  /\ IF nic.mtu # nic0.mtu
       THEN Command(link_set_mtu(nic0.mtu),
                    pc' = "restore" /\ UNCHANGED << lost, waitVars >>, Closed)
       ELSE pc' = "restore" /\ UNCHANGED << nic, phyVars, lost, waitVars, errors >>
  /\ UNCHANGED << sessVars, saved, erred, blocks >>

\* Mutant: the saved advertisement is not put back.
RestoreAutoneg_skip ==
  /\ pc = "restore" /\ pc' = "restore2"
  /\ UNCHANGED << nic, phyVars, sessVars, saved, waitVars, erred, lost, blocks, errors >>

\* restore_link, first half.  Autonegotiation that was off is turned on with
\* the saved speed alone; of a state that could not be read nothing is restored.
RestoreAutoneg ==
  /\ pc = "restore"
  /\ CASE saved0.auto = "on" ->
            Command(link_set_autoneg,
                    pc' = "restore2" /\ UNCHANGED << lost, waitVars >>, Closed)
       [] saved0.auto = "off" /\ saved0.speed # 0 ->
            Command(link_set_speed(saved0.speed),
                    pc' = "restore2" /\ UNCHANGED << lost, waitVars >>, Closed)
       [] OTHER -> pc' = "restore2" /\ UNCHANGED << nic, phyVars, lost, waitVars, errors >>
  /\ UNCHANGED << sessVars, saved, erred, blocks >>

\* Second half, and the finalizer's wait if the link was up.
RestoreUp ==
  /\ pc = "restore2"
  /\ Command(set_link_flags(saved0.up),
             IF saved0.up
               THEN StartWait("carrier", 0, "closed", "closed") /\ UNCHANGED lost
               ELSE pc' = "closed" /\ UNCHANGED << lost, waitVars >>,
             Closed)
  /\ UNCHANGED << sessVars, saved, erred, blocks >>
-----------------------------------------------------------------------------
Program ==
  \/ OpenSession \/ BumpMtu \/ EnterSpeed \/ SetSpeed \/ BodyEnds \/ ExitSpeed
  \/ EnterDown \/ ExitDown \/ WaitForSpeed
  \/ PollCarrier \/ PollSpeed \/ PollStable \/ WaitExpires
  \/ RestoreMtu \/ RestoreAutoneg \/ RestoreUp

Next == Program \/ PhyDrop \/ PhyBlip \/ PhySettle

Spec == Init /\ [][Next]_vars

\* The program runs on; a blip ends by itself; the PHY may never settle.
FairSpec == Spec /\ WF_vars(Program) /\ WF_vars(phy = "blip" /\ PhyDrop)
-----------------------------------------------------------------------------
TypeOK ==
  /\ nic \in Nics /\ nic0 \in Nics
  /\ saved0.auto \in {"on", "off", "none"} /\ saved0.speed \in Speeds \union {0}
  /\ phy \in {"old", "dark", "down", "blip", "settled"} /\ speed \in Speeds
  /\ ~nic.up => phy = "down"
  /\ pc \in {"open", "bump", "idle", "wait", "set", "body", "unset", "down",
             "restore", "restore2", "closed"}
  /\ run \in 0 .. StableSamples /\ polls \in 0 .. MaxPolls
  /\ lasted \in 0 .. StableSamples - 1

(***************************************************************************)
(* A wait of a block for a stable link returns only when the PHY has       *)
(* settled with the new setting (wait_for_link_at, wait_for_carrier):      *)
(* moments of carrier during negotiation never make up the samples, also   *)
(* after failures, and the link from before does only when it already had  *)
(* the speed asked for.                                                    *)
(***************************************************************************)
WaitsStable ==
  [][ (/\ pc = "wait" /\ wait.kind # "speed" /\ wait.then # "closed"
       /\ run < StableSamples /\ run' >= StableSamples)
      => \/ phy = "settled"
         \/ phy = "old" /\ wait.kind = "link_at" /\ speed = wait.want ]_vars

(***************************************************************************)
(* The same without the exception ("the stale (old-speed) state cannot     *)
(* satisfy both conditions", wait_for_link_at).  Does not hold when the    *)
(* speed asked for is the one the link already has, as in test_l2_speed:   *)
(* see the README, Known disagreements.                                    *)
(***************************************************************************)
WaitsSettled ==
  [][ (/\ pc = "wait" /\ wait.kind # "speed" /\ wait.then # "closed"
       /\ run < StableSamples /\ run' >= StableSamples)
      => phy = "settled" ]_vars

(***************************************************************************)
(* Between blocks in which nothing raised the interface is as the session  *)
(* found it, or negotiates with the full advertisement, whatever blocks    *)
(* were run and however the PHY behaved.                                   *)
(***************************************************************************)
RestoredUnlessError ==
  pc = "idle" /\ ~erred =>
    /\ nic.up = nic0.up
    /\ \/ nic.auto = nic0.auto /\ nic.adv = nic0.adv
       \/ nic.auto /\ nic.adv = Speeds

(***************************************************************************)
(* The same without the alternative ("always restore the saved state on    *)
(* exit", link.py).  Does not hold for an interface that was found with    *)
(* autonegotiation off or restricted: see the README.                      *)
(***************************************************************************)
RestoredExactly ==
  pc = "idle" /\ ~erred => nic = [ nic0 EXCEPT !.mtu = nic.mtu ]

(***************************************************************************)
(* What the helpers of link.py keep together: an interface that is down    *)
(* has no link (set_link_flags), the polls stay within their deadlines,    *)
(* and blocks that raised nothing leave the interface as they should.      *)
(***************************************************************************)
RestoredInv == TypeOK /\ RestoredUnlessError

(***************************************************************************)
(* The session finalizer undoes everything it has saved, also what blocks  *)
(* that failed half-way have left, unless one of its own commands fails.   *)
(* It can save no more than link_state reads: of an interface with         *)
(* autonegotiation off it keeps the speed, of one that ethtool did not     *)
(* answer for only IFF_UP and the MTU.                                     *)
(***************************************************************************)
FinalizerRestores ==
  pc = "closed" /\ ~lost =>
    /\ nic.up = nic0.up /\ nic.mtu = nic0.mtu
    /\ nic0.auto /\ saved0.auto # "none" => nic.auto /\ nic.adv = Speeds
    /\ ~nic0.auto /\ saved0.speed # 0 => nic.auto /\ nic.adv = nic0.adv

(***************************************************************************)
(* The interface at the end is the one at the start.  Does not hold: see   *)
(* the README, Known disagreements.                                        *)
(***************************************************************************)
SessionRestores == pc = "closed" /\ ~lost => nic = nic0

(***************************************************************************)
(* Every wait has a deadline: no block hangs although the PHY may never    *)
(* settle and any command may fail.                                        *)
(***************************************************************************)
BlocksEnd == pc \notin {"idle", "closed"} ~> pc \in {"idle", "closed"}
=============================================================================
