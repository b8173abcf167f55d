-------------------------- MODULE LinkStateProofs ---------------------------
(***************************************************************************)
(* LinkState for every set of speeds, every number of samples, polls,      *)
(* blocks and failures, and an interface found in any state: what blocks   *)
(* that raised nothing leave, what the finalizer restores from whatever    *)
(* any blocks have left, and which link a wait takes for a stable one.     *)
(***************************************************************************)
EXTENDS LinkState, TLAPS

Adverts == {Speeds} \union { {m} : m \in Speeds }

NicRec == [ up : BOOLEAN, auto : BOOLEAN, adv : Adverts, mtu : {"default", "large"} ]

\* A running wait: what for, where it leads, and that it has not its samples yet.
WaitOK ==
  /\ pc = "wait" =>
       /\ \/ wait.then = "body" /\ wait.else = "unset"
          \/ wait.then = "idle" /\ wait.else = "idle"
          \/ wait.then = "closed" /\ wait.else = "closed"
       /\ wait.kind \in {"link_at", "speed", "carrier"}
       /\ wait.kind = "link_at" => wait.want \in Speeds
       /\ run < Needed
  /\ cread => polls < MaxPolls

\* Before the fixture has read the interface a forced speed is the link's.
FoundOK ==
  /\ pc = "open" => nic = nic0 /\ (~nic.auto => nic.adv = {speed})
  /\ pc = "bump" => nic = nic0

\* What link_session_finalizer has saved is true of what it found.
SavedOK ==
  /\ saved.speed \in Speeds \union {0}
  /\ pc # "open" =>
       /\ saved0.up = nic0.up
       /\ saved0.auto = "on" => nic0.auto
       /\ saved0.auto = "off" => ~nic0.auto
       /\ ~nic0.auto /\ saved0.speed # 0 =>
            saved0.auto = "off" /\ nic0.adv = {saved0.speed}

\* The setting as it was found, or negotiation with everything advertised.
Setting ==
  \/ nic.auto = nic0.auto /\ nic.adv = nic0.adv
  \/ nic.auto /\ nic.adv = Speeds

\* The interface while nothing has raised.
CleanOK ==
  ~erred =>
    /\ pc \in {"idle", "set"} => nic.up = nic0.up /\ Setting
    /\ pc \in {"body", "unset"} => nic.up = nic0.up
    /\ pc = "down" => nic0.up = TRUE /\ Setting
    /\ pc = "wait" /\ wait.then # "closed" =>
         nic.up = nic0.up /\ (wait.then # "body" => Setting)

\* What the first half of restore_link puts back.
AutoBack ==
  /\ saved0.auto = "on" => nic.auto /\ nic.adv = Speeds
  /\ saved0.auto = "off" /\ saved0.speed # 0 => nic.auto /\ nic.adv = {saved0.speed}

\* The finalizer's progress, whatever has raised.
FinalOK ==
  /\ pc \in {"restore", "restore2"} => nic.mtu = nic0.mtu
  /\ pc = "restore2" => AutoBack
  /\ pc = "wait" /\ wait.then = "closed" =>
       nic.up = nic0.up /\ nic.mtu = nic0.mtu /\ AutoBack
  /\ pc = "closed" /\ ~lost =>
       nic.up = nic0.up /\ nic.mtu = nic0.mtu /\ AutoBack
  /\ pc = "down" => nic.up = FALSE

IInv == TypeOK /\ WaitOK /\ FoundOK /\ SavedOK /\ CleanOK /\ FinalOK

-----------------------------------------------------------------------------

LEMMA MaxSpeeds == Max(Speeds) \in Speeds
<1>1. \E s \in Speeds : \A t \in Speeds : s >= t
  BY LinkAssumption
<1> QED
  BY <1>1 DEF Max

LEMMA MaxOne ==
  ASSUME NEW r \in Nat
  PROVE  Max({r}) = r
<1>1. \E x \in {r} : \A y \in {r} : x >= y
  OBVIOUS
<1> QED
  BY <1>1 DEF Max

LEMMA MaxAdv ==
  ASSUME NEW a \in Adverts
  PROVE  Max(a) \in Speeds /\ (\A m \in Speeds : a = {m} => Max(a) = m)
  BY MaxSpeeds, MaxOne, LinkAssumption DEF Adverts

LEMMA NicsIs ==
  ASSUME NEW n
  PROVE  n \in Nics <=> n \in NicRec /\ (~n.auto => \E m \in Speeds : n.adv = {m})
  BY DEF Nics, NicRec, Adverts

LEMMA ZeroRanges ==
  /\ 0 \in 0 .. StableSamples - 1 /\ 0 \in 0 .. StableSamples
  /\ 0 \in 0 .. MaxPolls /\ 0 < StableSamples
  BY LinkAssumption

\* A forced speed is the only one that the PHY can show.
LEMMA ForcedSpeed ==
  ASSUME nic \in Nics
  PROVE  Max(nic.adv) \in Speeds /\ (~nic.auto => nic.adv = {Max(nic.adv)})
<1>1. nic.adv \in Adverts /\ (~nic.auto => \E m \in Speeds : nic.adv = {m})
  BY NicsIs DEF NicRec
<1> QED
  BY <1>1, MaxAdv

\* What link_state tells of the interface.
LEMMA StateRead ==
  ASSUME TypeOK, NEW answers \in BOOLEAN
  PROVE  /\ link_state(answers).up = nic.up
         /\ link_state(answers).auto \in {"on", "off", "none"}
         /\ link_state(answers).speed \in Speeds \union {0}
         /\ link_state(answers).auto = "on" => nic.auto
         /\ link_state(answers).auto = "off" => ~nic.auto
         /\ link_state(answers).speed # 0 =>
              /\ Carrier /\ link_state(answers).speed = speed
              /\ ~nic.auto => link_state(answers).auto = "off"
  BY DEF link_state, TypeOK

LEMMA InitOK == Init => IInv
<1> SUFFICES ASSUME Init PROVE IInv
  OBVIOUS
<1>1. speed \in Speeds /\ (~nic.auto => nic.adv = {speed})
  BY ForcedSpeed DEF Init
<1>2. TypeOK
  BY <1>1, ZeroRanges DEF Init, TypeOK, NoState
<1>3. WaitOK /\ FoundOK /\ SavedOK
  BY <1>1 DEF Init, WaitOK, FoundOK, SavedOK, NoState
<1> QED
  BY <1>2, <1>3 DEF Init, IInv, CleanOK, FinalOK

LEMMA PhyOK == IInv /\ (PhyDrop \/ PhyBlip \/ PhySettle) => IInv'
<1> SUFFICES ASSUME IInv, PhyDrop \/ PhyBlip \/ PhySettle PROVE IInv'
  OBVIOUS
<1>1. UNCHANGED << nic, nic0, saved0, pc, saved, wait, run, polls, cread, erred, lost >>
  BY DEF PhyDrop, PhyBlip, PhySettle, waitVars, sessVars
<1>2. /\ phy' \in {"old", "dark", "down", "blip", "settled"}
      /\ ~nic.up => phy' = "down"
      /\ lasted' \in 0 .. StableSamples - 1
  BY ZeroRanges DEF PhyDrop, PhyBlip, PhySettle, IInv, TypeOK
<1>3. /\ nic.adv \in Adverts /\ (~nic.auto => \E m \in Speeds : nic.adv = {m})
      /\ Max(nic.adv) \in Speeds /\ (~nic.auto => nic.adv = {Max(nic.adv)})
  BY NicsIs, ForcedSpeed DEF NicRec, IInv, TypeOK
<1>4. \/ speed' = speed \/ speed' = Max(nic.adv)
      \/ speed' \in IF nic.auto THEN Speeds ELSE nic.adv
  BY DEF PhyDrop, PhyBlip, PhySettle
<1>5. speed' \in Speeds /\ (pc = "open" /\ ~nic.auto => nic.adv = {speed'})
  BY <1>3, <1>4 DEF IInv, TypeOK, FoundOK
<1>6. TypeOK'
  BY <1>1, <1>2, <1>5 DEF IInv, TypeOK
<1>7. WaitOK' /\ FoundOK' /\ SavedOK'
  BY <1>1, <1>5 DEF IInv, WaitOK, Needed, FoundOK, SavedOK
<1> QED
  BY <1>1, <1>6, <1>7 DEF IInv, CleanOK, FinalOK, Setting, AutoBack

LEMMA OpenOK == IInv /\ OpenSession => IInv'
<1> SUFFICES ASSUME IInv, OpenSession PROVE IInv'
  OBVIOUS
<1>1. PICK answers \in BOOLEAN : saved0' = link_state(answers)
  BY DEF OpenSession
<1>2. /\ pc = "open" /\ pc' = "bump"
      /\ UNCHANGED << nic, nic0, phy, speed, lasted, saved, wait, run, polls, cread,
                      erred, lost >>
  BY DEF OpenSession, phyVars, waitVars
<1>3. nic = nic0 /\ (~nic.auto => nic.adv = {speed})
  BY <1>2 DEF IInv, FoundOK
<1>4. TypeOK'
  BY <1>1, <1>2, StateRead DEF IInv, TypeOK
<1>5. SavedOK'
  BY <1>1, <1>2, <1>3, StateRead DEF IInv, SavedOK
<1> QED
  BY <1>2, <1>3, <1>4, <1>5 DEF IInv, WaitOK, FoundOK, CleanOK, FinalOK

LEMMA MtuStep ==
  ASSUME TypeOK, NEW mtu \in {"default", "large"}, nic' = [ nic EXCEPT !.mtu = mtu ]
  PROVE  /\ nic' \in Nics /\ nic'.mtu = mtu
         /\ nic'.up = nic.up /\ nic'.auto = nic.auto /\ nic'.adv = nic.adv
<1>1. nic \in NicRec /\ (~nic.auto => \E m \in Speeds : nic.adv = {m})
  BY NicsIs DEF TypeOK
<1>2. /\ nic' \in NicRec /\ nic'.mtu = mtu
      /\ nic'.up = nic.up /\ nic'.auto = nic.auto /\ nic'.adv = nic.adv
  BY <1>1 DEF NicRec
<1> QED
  BY <1>1, <1>2, NicsIs

\* What an ethtool command leaves, if it is carried out.
LEMMA EthtoolStep ==
  ASSUME TypeOK, NEW adv \in Adverts, Ethtool(adv)
  PROVE  /\ nic' \in Nics
         /\ nic'.up = nic.up /\ nic'.auto = TRUE /\ nic'.adv = adv
         /\ nic'.mtu = nic.mtu
         /\ phy' \in {"old", "dark", "down", "blip", "settled"}
         /\ ~nic'.up => phy' = "down"
         /\ UNCHANGED << speed, lasted, blips >>
<1>1. nic \in NicRec
  BY NicsIs DEF TypeOK
<1>2. /\ nic' \in NicRec
      /\ nic'.up = nic.up /\ nic'.auto = TRUE /\ nic'.adv = adv
      /\ nic'.mtu = nic.mtu
  BY <1>1 DEF NicRec, Ethtool
<1>3. nic' \in Nics
  BY <1>2, NicsIs
<1> QED
  BY <1>2, <1>3 DEF TypeOK, Ethtool

\* What a change of IFF_UP leaves, if it is carried out.
LEMMA FlagsStep ==
  ASSUME TypeOK, NEW up \in BOOLEAN, set_link_flags(up)
  PROVE  /\ nic' \in Nics
         /\ nic'.up = up /\ nic'.auto = nic.auto /\ nic'.adv = nic.adv
         /\ nic'.mtu = nic.mtu
         /\ phy' \in {"old", "dark", "down", "blip", "settled"}
         /\ ~nic'.up => phy' = "down"
         /\ lasted' = 0 /\ UNCHANGED << speed, blips >>
<1>1. nic \in NicRec /\ (~nic.auto => \E m \in Speeds : nic.adv = {m})
  BY NicsIs DEF TypeOK
<1>2. /\ nic' \in NicRec
      /\ nic'.up = up /\ nic'.auto = nic.auto /\ nic'.adv = nic.adv
      /\ nic'.mtu = nic.mtu
  BY <1>1 DEF NicRec, set_link_flags
<1>3. nic' \in Nics
  BY <1>1, <1>2, NicsIs
<1> QED
  BY <1>2, <1>3 DEF TypeOK, set_link_flags

\* What every command leaves of the interface.
NicMoves ==
  /\ nic' \in Nics
  /\ phy' \in {"old", "dark", "down", "blip", "settled"}
  /\ ~nic'.up => phy' = "down"
  /\ speed' = speed /\ lasted' \in 0 .. StableSamples - 1

LEMMA NicStays == IInv /\ UNCHANGED << nic, phyVars >> => NicMoves
  BY DEF IInv, TypeOK, NicMoves, phyVars

LEMMA AdvertsHave == Speeds \in Adverts /\ \A r \in Speeds : {r} \in Adverts
  BY DEF Adverts

\* A command after which no wait runs keeps the types and what was saved.
LEMMA CommandKeeps ==
  ASSUME IInv, NicMoves, UNCHANGED << nic0, saved0, saved, waitVars >>,
         pc # "open",
         pc' \in {"bump", "idle", "set", "body", "unset", "down", "restore",
                  "restore2", "closed"}
  PROVE  TypeOK' /\ WaitOK' /\ SavedOK'
<1>1. TypeOK'
  BY DEF IInv, TypeOK, NicMoves, waitVars
<1>2. WaitOK' /\ SavedOK'
  BY DEF IInv, WaitOK, SavedOK, waitVars
<1> QED
  BY <1>1, <1>2

\* So does one that a wait follows.
LEMMA WaitKeeps ==
  ASSUME IInv, NicMoves, UNCHANGED << nic0, saved0, saved >>, pc # "open",
         NEW kind \in {"link_at", "speed", "carrier"}, NEW want, NEW then, NEW else,
         kind = "link_at" => want \in Speeds,
         \/ then = "body" /\ else = "unset"
         \/ then = "idle" /\ else = "idle"
         \/ then = "closed" /\ else = "closed",
         StartWait(kind, want, then, else)
  PROVE  /\ TypeOK' /\ WaitOK' /\ FoundOK' /\ SavedOK'
         /\ pc' = "wait" /\ wait'.then = then
<1>1. TypeOK'
  BY ZeroRanges DEF IInv, TypeOK, NicMoves, StartWait
<1>2. /\ pc' = "wait" /\ wait'.then = then /\ wait'.else = else
      /\ wait'.kind = kind /\ wait'.want = want /\ run' = 0 /\ cread' = FALSE
  BY DEF StartWait
<1>3. WaitOK'
  BY <1>2, ZeroRanges DEF WaitOK, Needed
<1>4. FoundOK' /\ SavedOK'
  BY <1>2 DEF IInv, FoundOK, SavedOK
<1> QED
  BY <1>1, <1>2, <1>3, <1>4

LEMMA BumpOK == IInv /\ BumpMtu => IInv'
<1> SUFFICES ASSUME IInv, BumpMtu PROVE IInv'
  OBVIOUS
<1>1. /\ UNCHANGED << phy, speed, lasted, nic0, saved0, saved, waitVars, erred, lost >>
      /\ pc = "bump" /\ pc' = "idle"
      /\ nic' = nic \/ nic' = [ nic EXCEPT !.mtu = "large" ]
  BY DEF BumpMtu, Command, link_set_mtu, phyVars, sessVars
<1>2. /\ nic' \in Nics
      /\ nic'.up = nic.up /\ nic'.auto = nic.auto /\ nic'.adv = nic.adv
  BY <1>1, MtuStep DEF IInv, TypeOK
<1>3. NicMoves
  BY <1>1, <1>2 DEF IInv, TypeOK, NicMoves
<1>4. TypeOK' /\ WaitOK' /\ SavedOK'
  BY <1>1, <1>3, CommandKeeps
<1>5. nic = nic0
  BY <1>1 DEF IInv, FoundOK
<1>6. nic'.up = nic0'.up /\ Setting'
  BY <1>1, <1>2, <1>5 DEF Setting
<1> QED
  BY <1>1, <1>4, <1>6 DEF IInv, FoundOK, CleanOK, FinalOK

LEMMA EnterSpeedOK == IInv /\ EnterSpeed => IInv'
<1> SUFFICES ASSUME IInv, EnterSpeed PROVE IInv'
  OBVIOUS
<1>1. PICK answers \in BOOLEAN : saved' = link_state(answers)
  BY DEF EnterSpeed
<1>2. /\ UNCHANGED << nic, phy, speed, lasted, nic0, saved0, wait, run, polls, cread,
                      erred, lost >>
      /\ pc = "idle" /\ pc' = "set"
  BY DEF EnterSpeed, phyVars, sessVars, waitVars
<1>3. TypeOK' /\ WaitOK'
  BY <1>2 DEF IInv, TypeOK, WaitOK
<1>4. saved'.speed \in Speeds \union {0}
  BY <1>1, StateRead DEF IInv
<1>5. SavedOK'
  BY <1>2, <1>4 DEF IInv, SavedOK
<1> QED
  BY <1>2, <1>3, <1>5 DEF IInv, FoundOK, CleanOK, Setting, FinalOK

LEMMA SetSpeedOK == IInv /\ SetSpeed => IInv'
<1> SUFFICES ASSUME IInv, SetSpeed PROVE IInv'
  OBVIOUS
<1>1. PICK r \in Requests :
        Command(link_set_speed(r),
               StartWait("link_at", r, "body", "unset") /\ UNCHANGED erred,
               pc' = "unset" /\ erred' = TRUE /\ UNCHANGED waitVars)
  BY DEF SetSpeed
<1>2. /\ r \in Speeds /\ {r} \in Adverts /\ pc = "set"
      /\ UNCHANGED << nic0, saved0, saved, lost >>
  BY AdvertsHave, LinkAssumption DEF SetSpeed, sessVars
<1>3. /\ NicMoves /\ nic'.up = nic.up
      /\ \/ pc' = "unset" /\ erred' = TRUE /\ UNCHANGED waitVars
         \/ StartWait("link_at", r, "body", "unset") /\ UNCHANGED erred
  <2>1. CASE Ethtool({r})
    BY <1>1, <1>2, <2>1, EthtoolStep DEF IInv, TypeOK, NicMoves, Command
  <2>2. CASE UNCHANGED << nic, phyVars >> /\ ~Ethtool({r})
    BY <1>1, <2>2, NicStays DEF Command, link_set_speed
  <2> QED
    BY <1>1, <2>1, <2>2 DEF Command, link_set_speed
<1>4. CASE pc' = "unset" /\ erred' = TRUE /\ UNCHANGED waitVars
  BY <1>2, <1>3, <1>4, CommandKeeps DEF IInv, FoundOK, CleanOK, FinalOK
<1>5. CASE StartWait("link_at", r, "body", "unset") /\ UNCHANGED erred
  <2>1. /\ TypeOK' /\ WaitOK' /\ FoundOK' /\ SavedOK'
        /\ pc' = "wait" /\ wait'.then = "body"
    BY <1>2, <1>3, <1>5, WaitKeeps
  <2> QED
    BY <1>2, <1>3, <1>5, <2>1 DEF IInv, CleanOK, FinalOK
<1> QED
  BY <1>3, <1>4, <1>5

LEMMA BodyEndsOK == IInv /\ BodyEnds => IInv'
<1> SUFFICES ASSUME IInv, BodyEnds PROVE IInv'
  OBVIOUS
<1>1. /\ pc = "body" /\ pc' = "unset" /\ NicMoves
      /\ UNCHANGED << nic, nic0, saved0, saved, waitVars, erred, lost >>
  BY NicStays DEF BodyEnds, sessVars
<1> QED
  BY <1>1, CommandKeeps DEF IInv, FoundOK, CleanOK, FinalOK

LEMMA ExitSpeedOK == IInv /\ ExitSpeed => IInv'
<1> SUFFICES ASSUME IInv, ExitSpeed PROVE IInv'
  OBVIOUS
<1>1. pc = "unset" /\ UNCHANGED << nic0, saved0, saved, lost >>
  BY DEF ExitSpeed, sessVars
<1>2. \/ /\ Ethtool(Speeds) /\ UNCHANGED erred /\ saved.speed # 0
         /\ StartWait("link_at", saved.speed, "idle", "idle")
      \/ Ethtool(Speeds) /\ UNCHANGED erred /\ pc' = "idle" /\ UNCHANGED waitVars
      \/ /\ Ethtool(Speeds) \/ UNCHANGED << nic, phyVars >>
         /\ pc' = "idle" /\ erred' = TRUE /\ UNCHANGED waitVars
  BY DEF ExitSpeed, Command, link_set_autoneg
<1>3. Ethtool(Speeds) =>
        /\ NicMoves /\ nic'.up = nic.up /\ Setting'
  BY AdvertsHave, EthtoolStep DEF IInv, TypeOK, NicMoves, Setting
<1>4. NicMoves
  BY <1>2, <1>3, NicStays
<1>5. CASE pc' = "idle" /\ erred' = TRUE /\ UNCHANGED waitVars
  BY <1>1, <1>4, <1>5, CommandKeeps DEF IInv, FoundOK, CleanOK, FinalOK
<1>6. CASE Ethtool(Speeds) /\ UNCHANGED erred /\ pc' = "idle" /\ UNCHANGED waitVars
  BY <1>1, <1>3, <1>6, CommandKeeps DEF IInv, FoundOK, CleanOK, FinalOK
<1>7. CASE /\ Ethtool(Speeds) /\ UNCHANGED erred /\ saved.speed # 0
           /\ StartWait("link_at", saved.speed, "idle", "idle")
  <2>1. saved.speed \in Speeds
    BY <1>7 DEF IInv, SavedOK
  <2>2. /\ TypeOK' /\ WaitOK' /\ FoundOK' /\ SavedOK'
        /\ pc' = "wait" /\ wait'.then = "idle"
    BY <1>1, <1>4, <1>7, <2>1, WaitKeeps
  <2> QED
    BY <1>1, <1>3, <1>7, <2>2 DEF IInv, CleanOK, FinalOK
<1> QED
  BY <1>2, <1>5, <1>6, <1>7

LEMMA EnterDownOK == IInv /\ EnterDown => IInv'
<1> SUFFICES ASSUME IInv, EnterDown PROVE IInv'
  OBVIOUS
<1>1. pc = "idle" /\ UNCHANGED << nic0, saved0, saved, waitVars, lost >>
  BY DEF EnterDown, sessVars
<1>2. \/ /\ UNCHANGED << nic, phyVars >> \/ set_link_flags(FALSE)
         /\ pc' = "idle" /\ erred' = TRUE
      \/ nic.up = TRUE /\ set_link_flags(FALSE) /\ pc' = "down" /\ UNCHANGED erred
  <2>1. nic.up \in BOOLEAN
    BY NicsIs DEF IInv, TypeOK, NicRec
  <2> QED
    BY <1>1, <2>1 DEF EnterDown, Command
<1>3. set_link_flags(FALSE) =>
        /\ NicMoves /\ nic'.up = FALSE /\ nic'.auto = nic.auto /\ nic'.adv = nic.adv
  BY FlagsStep, ZeroRanges DEF IInv, NicMoves
<1>4. NicMoves
  BY <1>2, <1>3, NicStays
<1>5. CASE pc' = "idle" /\ erred' = TRUE
  BY <1>1, <1>4, <1>5, CommandKeeps DEF IInv, FoundOK, CleanOK, FinalOK
<1>6. CASE nic.up = TRUE /\ set_link_flags(FALSE) /\ pc' = "down" /\ UNCHANGED erred
  <2>1. TypeOK' /\ WaitOK' /\ SavedOK'
    BY <1>1, <1>4, <1>6, CommandKeeps
  <2>2. ~erred' => nic0'.up = TRUE /\ Setting'
    BY <1>1, <1>3, <1>6 DEF IInv, CleanOK, Setting
  <2> QED
    BY <1>3, <1>6, <2>1, <2>2 DEF IInv, FoundOK, CleanOK, FinalOK
<1> QED
  BY <1>2, <1>5, <1>6

LEMMA ExitDownOK == IInv /\ ExitDown => IInv'
<1> SUFFICES ASSUME IInv, ExitDown PROVE IInv'
  OBVIOUS
<1>1. pc = "down" /\ UNCHANGED << nic0, saved0, saved, lost >>
  BY DEF ExitDown, sessVars
<1>2. \/ /\ UNCHANGED << nic, phyVars >> \/ set_link_flags(TRUE)
         /\ pc' = "idle" /\ erred' = TRUE /\ UNCHANGED waitVars
      \/ set_link_flags(TRUE) /\ UNCHANGED erred /\ StartWait("carrier", 0, "idle", "idle")
  BY DEF ExitDown, Command
<1>3. set_link_flags(TRUE) =>
        /\ NicMoves /\ nic'.up = TRUE /\ nic'.auto = nic.auto /\ nic'.adv = nic.adv
  BY FlagsStep, ZeroRanges DEF IInv, NicMoves
<1>4. NicMoves
  BY <1>2, <1>3, NicStays
<1>5. CASE pc' = "idle" /\ erred' = TRUE /\ UNCHANGED waitVars
  BY <1>1, <1>4, <1>5, CommandKeeps DEF IInv, FoundOK, CleanOK, FinalOK
<1>6. CASE /\ set_link_flags(TRUE) /\ UNCHANGED erred
           /\ StartWait("carrier", 0, "idle", "idle")
  <2>1. /\ TypeOK' /\ WaitOK' /\ FoundOK' /\ SavedOK'
        /\ pc' = "wait" /\ wait'.then = "idle"
    BY <1>1, <1>4, <1>6, WaitKeeps
  <2>2. ~erred' => nic'.up = nic0'.up /\ Setting'
    BY <1>1, <1>3, <1>6 DEF IInv, CleanOK, Setting
  <2> QED
    BY <2>1, <2>2 DEF IInv, CleanOK, FinalOK
<1> QED
  BY <1>2, <1>5, <1>6

LEMMA WaitForSpeedOK == IInv /\ WaitForSpeed => IInv'
<1> SUFFICES ASSUME IInv, WaitForSpeed PROVE IInv'
  OBVIOUS
<1>1. /\ pc = "idle" /\ StartWait("speed", saved.speed, "idle", "idle")
      /\ UNCHANGED << nic, nic0, saved0, saved, erred, lost >> /\ NicMoves
  BY NicStays DEF WaitForSpeed, sessVars
<1>2. /\ TypeOK' /\ WaitOK' /\ FoundOK' /\ SavedOK'
      /\ pc' = "wait" /\ wait'.then = "idle"
  BY <1>1, WaitKeeps
<1> QED
  BY <1>1, <1>2 DEF IInv, CleanOK, Setting, FinalOK

LEMMA PollCarrierOK == IInv /\ PollCarrier => IInv'
<1> SUFFICES ASSUME IInv, PollCarrier PROVE IInv'
  OBVIOUS
<1>1. /\ pc = "wait" /\ cread = FALSE /\ polls < MaxPolls
      /\ UNCHANGED << nic, nic0, saved0, saved, speed, lasted, pc, wait, erred, lost >>
      /\ \/ cread' = TRUE /\ run' = run /\ polls' = polls
         \/ cread' = FALSE /\ run' = 0 /\ polls' = polls + 1
      /\ phy' = phy \/ phy' = "down"
  BY DEF PollCarrier, Carrier, sessVars
<1>2. run' \in 0 .. StableSamples /\ polls' \in 0 .. MaxPolls
  BY <1>1, ZeroRanges, LinkAssumption DEF IInv, TypeOK
<1>3. TypeOK' /\ SavedOK' /\ FoundOK'
  BY <1>1, <1>2 DEF IInv, TypeOK, SavedOK, FoundOK
<1>4. WaitOK'
  BY <1>1, ZeroRanges DEF IInv, WaitOK, Needed
<1> QED
  BY <1>1, <1>3, <1>4 DEF IInv, CleanOK, FinalOK, Setting, AutoBack

\* A sample leaves the wait running, or ends it where it leads.
LEMMA SampleOK ==
  ASSUME IInv, pc = "wait", polls < MaxPolls, SeenByPoll, NEW good, Sampled(good),
         UNCHANGED << nic, nic0, saved0, saved, erred, lost >>
  PROVE  IInv'
<1> DEFINE next == IF good THEN run + 1 ELSE 0
<1>1. next \in 0 .. StableSamples /\ run < Needed
  BY ZeroRanges, LinkAssumption DEF IInv, TypeOK, WaitOK, Needed
<1>2. /\ run' = next /\ polls' = polls + 1 /\ cread' = FALSE
      /\ \/ next < Needed /\ pc' = pc /\ wait' = wait
         \/ next >= Needed /\ pc' = wait.then /\ wait' = NoWait
  BY <1>1, ZeroRanges, LinkAssumption DEF Sampled, Needed
<1> HIDE DEF next
<1>3. /\ phy' = phy \/ (phy = "dark" /\ phy' = "down")
      /\ speed' = speed /\ lasted' \in 0 .. StableSamples - 1
  BY LinkAssumption DEF SeenByPoll, IInv, TypeOK
<1>4. /\ pc' \in {"wait", "body", "idle", "closed"} /\ polls' \in 0 .. MaxPolls
      /\ pc' = "wait" => wait' = wait
  BY <1>2, LinkAssumption DEF IInv, TypeOK, WaitOK
<1>5. TypeOK'
  BY <1>1, <1>2, <1>3, <1>4 DEF IInv, TypeOK
<1>6. WaitOK'
  BY <1>1, <1>2, <1>4 DEF IInv, WaitOK, Needed
<1>7. SavedOK' /\ FoundOK'
  BY <1>4 DEF IInv, SavedOK, FoundOK
<1>8. CleanOK' /\ FinalOK'
  BY <1>2, <1>4 DEF IInv, WaitOK, CleanOK, FinalOK, Setting, AutoBack
<1> QED
  BY <1>5, <1>6, <1>7, <1>8 DEF IInv

LEMMA PollOK == IInv /\ (PollSpeed \/ PollStable) => IInv'
<1> SUFFICES ASSUME IInv, PollSpeed \/ PollStable PROVE IInv'
  OBVIOUS
<1>1. polls < MaxPolls
  BY DEF PollSpeed, PollStable, IInv, WaitOK
<1> QED
  BY <1>1, SampleOK DEF PollSpeed, PollStable, sessVars

LEMMA ExpiresOK == IInv /\ WaitExpires => IInv'
<1> SUFFICES ASSUME IInv, WaitExpires PROVE IInv'
  OBVIOUS
<1>1. /\ pc = "wait" /\ pc' = wait.else /\ wait' = NoWait
      /\ erred' = (erred \/ wait.else # "closed")
      /\ lost' = (lost \/ wait.else = "closed")
      /\ UNCHANGED << nic, nic0, saved0, saved, phy, speed, lasted, run, polls, cread >>
  BY DEF WaitExpires, phyVars, sessVars
<1>2. wait.else \in {"unset", "idle", "closed"}
  BY <1>1 DEF IInv, WaitOK
<1>3. TypeOK' /\ SavedOK' /\ FoundOK'
  BY <1>1, <1>2 DEF IInv, TypeOK, SavedOK, FoundOK
<1> QED
  BY <1>1, <1>2, <1>3 DEF IInv, WaitOK, CleanOK, FinalOK

LEMMA RestoreMtuOK == IInv /\ RestoreMtu => IInv'
<1> SUFFICES ASSUME IInv, RestoreMtu PROVE IInv'
  OBVIOUS
<1>1. /\ pc = "idle"
      /\ UNCHANGED << phy, speed, lasted, nic0, saved0, saved, waitVars, erred >>
      /\ nic' = nic \/ nic' = [ nic EXCEPT !.mtu = nic0.mtu ]
      /\ \/ pc' = "closed" /\ lost' = TRUE
         \/ /\ pc' = "restore" /\ lost' = lost
            /\ \/ nic' = nic /\ nic.mtu = nic0.mtu
               \/ nic' = [ nic EXCEPT !.mtu = nic0.mtu ]
  BY DEF RestoreMtu, Command, Closed, link_set_mtu, phyVars, sessVars
<1>2. nic0.mtu \in {"default", "large"}
  BY NicsIs DEF IInv, TypeOK, NicRec
<1>3. /\ nic' \in Nics /\ nic'.up = nic.up
      /\ pc' = "restore" => nic'.mtu = nic0.mtu
  BY <1>1, <1>2, MtuStep DEF IInv, TypeOK
<1>4. NicMoves
  BY <1>1, <1>3 DEF IInv, TypeOK, NicMoves
<1>5. TypeOK' /\ WaitOK' /\ SavedOK'
  BY <1>1, <1>4, CommandKeeps
<1> QED
  BY <1>1, <1>3, <1>5 DEF IInv, FoundOK, CleanOK, FinalOK

LEMMA RestoreAutonegOK == IInv /\ RestoreAutoneg => IInv'
<1> SUFFICES ASSUME IInv, RestoreAutoneg PROVE IInv'
  OBVIOUS
<1>1. pc = "restore" /\ UNCHANGED << nic0, saved0, saved, erred >>
  BY DEF RestoreAutoneg, sessVars
<1>2. /\ UNCHANGED waitVars
      /\ \/ pc' = "closed" /\ lost' = TRUE
         \/ pc' = "restore2" /\ lost' = lost
  <2>1. CASE saved0.auto = "on"
    BY <2>1 DEF RestoreAutoneg, Command, Closed
  <2>2. CASE saved0.auto = "off" /\ saved0.speed # 0
    BY <2>2 DEF RestoreAutoneg, Command, Closed
  <2>3. CASE saved0.auto # "on" /\ ~(saved0.auto = "off" /\ saved0.speed # 0)
    BY <2>3 DEF RestoreAutoneg
  <2> QED
    BY <2>1, <2>2, <2>3
<1>3. /\ NicMoves /\ nic'.mtu = nic.mtu
      /\ pc' = "restore2" => AutoBack'
  <2>1. CASE saved0.auto = "on"
    <3>1. Ethtool(Speeds) \/ (UNCHANGED << nic, phyVars >> /\ pc' = "closed")
      BY <2>1 DEF RestoreAutoneg, Command, Closed, link_set_autoneg
    <3>2. CASE Ethtool(Speeds)
      BY <1>1, <2>1, <3>2, AdvertsHave, EthtoolStep
      DEF IInv, TypeOK, NicMoves, AutoBack
    <3> QED
      BY <3>1, <3>2, NicStays
  <2>2. CASE saved0.auto = "off" /\ saved0.speed # 0
    <3>1. saved0.speed \in Speeds
      BY <2>2 DEF IInv, TypeOK
    <3>2. Ethtool({saved0.speed}) \/ (UNCHANGED << nic, phyVars >> /\ pc' = "closed")
      BY <2>2 DEF RestoreAutoneg, Command, Closed, link_set_speed
    <3>3. CASE Ethtool({saved0.speed})
      BY <1>1, <2>2, <3>1, <3>3, AdvertsHave, EthtoolStep
      DEF IInv, TypeOK, NicMoves, AutoBack
    <3> QED
      BY <3>2, <3>3, NicStays
  <2>3. CASE saved0.auto # "on" /\ ~(saved0.auto = "off" /\ saved0.speed # 0)
    <3>1. UNCHANGED << nic, phyVars >>
      BY <2>3 DEF RestoreAutoneg
    <3> QED
      BY <1>1, <2>3, <3>1, NicStays DEF AutoBack
  <2> QED
    BY <2>1, <2>2, <2>3
<1>4. TypeOK' /\ WaitOK' /\ SavedOK'
  BY <1>1, <1>2, <1>3, CommandKeeps
<1> QED
  BY <1>1, <1>2, <1>3, <1>4 DEF IInv, FoundOK, CleanOK, FinalOK

LEMMA RestoreUpOK == IInv /\ RestoreUp => IInv'
<1> SUFFICES ASSUME IInv, RestoreUp PROVE IInv'
  OBVIOUS
<1>1. pc = "restore2" /\ UNCHANGED << nic0, saved0, saved, erred >>
  BY DEF RestoreUp, sessVars
<1>2. saved0.up = nic0.up /\ saved0.up \in BOOLEAN /\ nic.mtu = nic0.mtu /\ AutoBack
  BY <1>1, NicsIs DEF IInv, TypeOK, SavedOK, FinalOK, NicRec
<1>3. \/ /\ set_link_flags(saved0.up) \/ UNCHANGED << nic, phyVars >>
         /\ pc' = "closed" /\ lost' = TRUE /\ UNCHANGED waitVars
      \/ /\ set_link_flags(saved0.up) /\ lost' = lost
         /\ pc' = "closed" /\ UNCHANGED waitVars
      \/ /\ set_link_flags(saved0.up) /\ lost' = lost
         /\ StartWait("carrier", 0, "closed", "closed")
  BY DEF RestoreUp, Command, Closed
<1>4. set_link_flags(saved0.up) =>
        /\ NicMoves /\ nic'.up = nic0.up /\ nic'.mtu = nic0.mtu /\ AutoBack'
  BY <1>1, <1>2, FlagsStep, ZeroRanges DEF IInv, NicMoves, AutoBack
<1>5. NicMoves
  BY <1>3, <1>4, NicStays
<1>6. CASE pc' = "closed" /\ lost' = TRUE /\ UNCHANGED waitVars
  BY <1>1, <1>5, <1>6, CommandKeeps DEF IInv, FoundOK, CleanOK, FinalOK
<1>7. CASE set_link_flags(saved0.up) /\ pc' = "closed" /\ UNCHANGED waitVars
  BY <1>1, <1>4, <1>7, CommandKeeps DEF IInv, FoundOK, CleanOK, FinalOK
<1>8. CASE set_link_flags(saved0.up) /\ StartWait("carrier", 0, "closed", "closed")
  <2>1. /\ TypeOK' /\ WaitOK' /\ FoundOK' /\ SavedOK'
        /\ pc' = "wait" /\ wait'.then = "closed"
    BY <1>1, <1>5, <1>8, WaitKeeps
  <2> QED
    BY <1>1, <1>4, <1>8, <2>1 DEF IInv, CleanOK, FinalOK
<1> QED
  BY <1>3, <1>6, <1>7, <1>8

LEMMA NextOK == IInv /\ [Next]_vars => IInv'
<1>1. IInv /\ UNCHANGED vars => IInv'
  BY DEF IInv, TypeOK, WaitOK, Needed, FoundOK, SavedOK, CleanOK, Setting, FinalOK,
         AutoBack, vars, phyVars, sessVars, waitVars
<1> QED
  BY <1>1, PhyOK, OpenOK, BumpOK, EnterSpeedOK, SetSpeedOK, BodyEndsOK, ExitSpeedOK,
     EnterDownOK, ExitDownOK, WaitForSpeedOK, PollCarrierOK, PollOK, ExpiresOK,
     RestoreMtuOK, RestoreAutonegOK, RestoreUpOK
  DEF Next, Program

-----------------------------------------------------------------------------
(***************************************************************************)
(* Theorems.                                                               *)
(***************************************************************************)

\* IInv holds in every state that a session reaches.
THEOREM Invariance == Spec => []IInv
<1>1. Init => IInv
  BY InitOK
<1>2. IInv /\ [Next]_vars => IInv'
  BY NextOK
<1> QED
  BY <1>1, <1>2, PTL DEF Spec

\* Whatever state the interface was found in, whatever blocks a session opens,
\* whichever queries fail and however the PHY behaves: as long as nothing has
\* raised, temporary_link_speed and temporary_link_down leave the interface as
\* it was found, or negotiating with everything advertised.
THEOREM BlocksRestore == Spec => []RestoredInv
<1>1. IInv => RestoredInv
  BY DEF IInv, CleanOK, Setting, RestoredInv, RestoredUnlessError
<1> QED
  BY <1>1, Invariance, PTL

\* link_session_finalizer puts IFF_UP, the MTU and what link_state could read
\* of the negotiation back, from whatever failed blocks have left, unless a
\* command of its own fails.
THEOREM FinalizerSafe == Spec => []FinalizerRestores
<1>1. IInv => FinalizerRestores
  <2> SUFFICES ASSUME IInv, pc = "closed", ~lost
               PROVE  /\ nic.up = nic0.up /\ nic.mtu = nic0.mtu
                      /\ nic0.auto /\ saved0.auto # "none" => nic.auto /\ nic.adv = Speeds
                      /\ ~nic0.auto /\ saved0.speed # 0 => nic.auto /\ nic.adv = nic0.adv
    BY DEF FinalizerRestores
  <2>1. nic.up = nic0.up /\ nic.mtu = nic0.mtu /\ AutoBack
    BY DEF IInv, FinalOK
  <2>2. saved0.auto \in {"on", "off", "none"} /\ (saved0.auto = "off" => ~nic0.auto)
    BY DEF IInv, TypeOK, SavedOK
  <2>3. ~nic0.auto /\ saved0.speed # 0 =>
          saved0.auto = "off" /\ nic0.adv = {saved0.speed}
    BY DEF IInv, SavedOK
  <2> QED
    BY <2>1, <2>2, <2>3 DEF AutoBack
<1> QED
  BY <1>1, Invariance, PTL

-----------------------------------------------------------------------------
(***************************************************************************)
(* WaitsStable.  No more samples of a blip count than it has been seen     *)
(* for, a wait that has seen the link down starts over, and after          *)
(* temporary_link_down no old link is left to be mistaken.                 *)
(***************************************************************************)
RunOK ==
  pc = "wait" /\ wait.kind # "speed" =>
    /\ phy = "blip" => run <= lasted
    /\ phy = "down" => run = 0
    /\ wait.kind = "carrier" /\ wait.then # "closed" => phy # "old"

LEMMA RPhy == IInv /\ RunOK /\ (PhyDrop \/ PhyBlip \/ PhySettle) => RunOK'
<1> SUFFICES ASSUME IInv, RunOK, PhyDrop \/ PhyBlip \/ PhySettle PROVE RunOK'
  OBVIOUS
<1>1. UNCHANGED << pc, wait, run >>
  BY DEF PhyDrop, PhyBlip, PhySettle, waitVars
<1>2. \/ phy' = "dark" \/ phy' = "settled"
      \/ pc # "wait"
      \/ phy = "down" /\ phy' = "blip" /\ lasted' = 0
  BY DEF PhyDrop, PhyBlip, PhySettle
<1> QED
  BY <1>1, <1>2 DEF RunOK

\* A wait starts with no samples.
LEMMA RStart ==
  ASSUME TypeOK', NEW kind, NEW want, NEW then, NEW else,
         StartWait(kind, want, then, else),
         kind = "carrier" /\ then # "closed" => phy' # "old"
  PROVE  RunOK'
<1>1. run' = 0 /\ wait'.kind = kind /\ wait'.then = then /\ lasted' >= 0
  BY LinkAssumption DEF StartWait, TypeOK
<1> QED
  BY <1>1 DEF RunOK

LEMMA RSession ==
  ASSUME IInv, RunOK, TypeOK',
         \/ OpenSession \/ BumpMtu \/ EnterSpeed \/ SetSpeed \/ BodyEnds \/ ExitSpeed
         \/ EnterDown \/ ExitDown \/ WaitForSpeed \/ WaitExpires
         \/ RestoreMtu \/ RestoreAutoneg \/ RestoreUp
  PROVE  RunOK'
<1>1. CASE pc' # "wait"
  BY <1>1 DEF RunOK
<1>2. CASE OpenSession \/ BumpMtu \/ EnterSpeed \/ BodyEnds \/ EnterDown
  <2>1. pc' # "wait"
    BY <1>2 DEF OpenSession, BumpMtu, EnterSpeed, BodyEnds, EnterDown, Command
  <2> QED
    BY <1>1, <2>1
<1>3. CASE SetSpeed
  BY <1>1, <1>3, RStart DEF SetSpeed, Command
<1>4. CASE ExitSpeed
  BY <1>1, <1>4, RStart DEF ExitSpeed, Command
<1>5. CASE ExitDown
  <2>1. pc = "down" /\ nic.up = FALSE
    BY <1>5 DEF ExitDown, IInv, FinalOK
  <2>2. set_link_flags(TRUE) => phy' = "down"
    BY <2>1 DEF set_link_flags
  <2> QED
    BY <1>1, <1>5, <2>2, RStart DEF ExitDown, Command
<1>6. CASE WaitForSpeed
  BY <1>6, RStart DEF WaitForSpeed
<1>7. CASE WaitExpires
  <2>1. pc' # "wait"
    BY <1>7 DEF WaitExpires, IInv, WaitOK
  <2> QED
    BY <1>1, <2>1
<1>8. CASE RestoreMtu \/ RestoreAutoneg
  <2>1. RestoreMtu => pc' # "wait"
    BY DEF RestoreMtu, Command, Closed
  <2>2. RestoreAutoneg => pc' # "wait"
    BY DEF RestoreAutoneg, Command, Closed
  <2> QED
    BY <1>1, <1>8, <2>1, <2>2
<1>9. CASE RestoreUp
  BY <1>1, <1>9, RStart DEF RestoreUp, Command, Closed
<1> QED
  BY <1>2, <1>3, <1>4, <1>5, <1>6, <1>7, <1>8, <1>9

LEMMA RPollCarrier == IInv /\ RunOK /\ PollCarrier => RunOK'
<1> SUFFICES ASSUME IInv, RunOK, PollCarrier PROVE RunOK'
  OBVIOUS
<1>1. /\ UNCHANGED << lasted, pc, wait >> /\ pc = "wait" /\ wait.kind = "link_at"
      /\ \/ phy' = phy /\ (run' = run \/ run' = 0)
         \/ phy = "dark" /\ phy' = "down" /\ run' = 0
  BY DEF PollCarrier, Carrier
<1>2. 0 <= lasted
  BY LinkAssumption DEF IInv, TypeOK
<1> QED
  BY <1>1, <1>2 DEF RunOK

\* A sample of a blip leaves the wait without its samples, and only a link
\* that is up counts.
LEMMA RSample ==
  ASSUME IInv, RunOK, pc = "wait", SeenByPoll, NEW good,
         wait.kind # "speed" /\ good => Carrier, Sampled(good)
  PROVE  /\ RunOK'
         /\ wait.kind # "speed" /\ run' >= StableSamples => good /\ phy \in {"old", "settled"}
<1>1. /\ run \in Nat /\ lasted \in Nat /\ StableSamples \in Nat \ {0}
      /\ phy \in {"old", "dark", "down", "blip", "settled"}
  BY LinkAssumption DEF IInv, TypeOK
<1>2. \/ phy = "dark" /\ phy' = "down" /\ lasted' = lasted
      \/ phy = "blip" /\ phy' = "blip" /\ lasted' = lasted + 1 /\ lasted < StableSamples - 1
      \/ phy \notin {"dark", "blip"} /\ phy' = phy /\ lasted' = lasted
  BY DEF SeenByPoll
<1>3. run' = IF good THEN run + 1 ELSE 0
  BY DEF Sampled
<1>4. wait.kind # "speed" /\ phy \in {"dark", "down"} => run' = 0
  BY <1>3 DEF Carrier
<1>5. wait.kind # "speed" /\ phy = "blip" => run' <= lasted + 1
  BY <1>1, <1>3 DEF RunOK
<1>6. RunOK'
  <2>1. (pc' = pc /\ wait' = wait) \/ pc' = wait.then
    BY DEF Sampled
  <2>2. wait.then # "wait"
    BY DEF IInv, WaitOK
  <2>3. CASE pc' = wait.then
    BY <2>2, <2>3 DEF RunOK
  <2>4. CASE pc' = pc /\ wait' = wait
    BY <1>2, <1>4, <1>5, <2>4 DEF RunOK
  <2> QED
    BY <2>1, <2>3, <2>4
<1>7. ASSUME wait.kind # "speed", run' >= StableSamples
      PROVE  good /\ phy \in {"old", "settled"}
  <2>1. good
    BY <1>1, <1>3, <1>7
  <2>2. phy # "blip"
    BY <1>1, <1>2, <1>3, <1>5, <1>7
  <2>3. phy \notin {"dark", "down"}
    BY <1>1, <1>4, <1>7
  <2> QED
    BY <1>1, <2>1, <2>2, <2>3
<1> QED
  BY <1>6, <1>7

\* A sample of wait_for_link_at that counts has carrier and the speed waited for.
LEMMA GoodAt ==
  ASSUME IInv, pc = "wait", wait.kind = "link_at", NEW answers \in BOOLEAN,
         link_state(answers).speed = wait.want
  PROVE  Carrier /\ speed = wait.want
<1>1. wait.want # 0
  BY LinkAssumption DEF IInv, WaitOK
<1> QED
  BY <1>1, StateRead DEF IInv

\* What a poll of a wait for a stable link finds when it ends the wait.
LEMMA PollEnds ==
  ASSUME IInv, RunOK, PollSpeed \/ PollStable
  PROVE  /\ RunOK'
         /\ wait.kind # "speed" /\ wait.then # "closed" /\ run' >= StableSamples
              => \/ phy = "settled"
                 \/ phy = "old" /\ wait.kind = "link_at" /\ speed = wait.want
<1>1. CASE PollSpeed
  <2>1. PICK answers \in BOOLEAN : Sampled(link_state(answers).speed = wait.want)
    BY <1>1 DEF PollSpeed
  <2>2. /\ pc = "wait" /\ SeenByPoll
        /\ wait.kind = "link_at" \/ wait.kind = "speed"
    BY <1>1 DEF PollSpeed
  <2> DEFINE good == link_state(answers).speed = wait.want
  <2>3. wait.kind # "speed" /\ good => Carrier /\ speed = wait.want
    BY <2>2, GoodAt
  <2>4. Sampled(good)
    BY <2>1
  <2> HIDE DEF good
  <2>5. /\ RunOK'
        /\ wait.kind # "speed" /\ run' >= StableSamples => good /\ phy \in {"old", "settled"}
    BY <2>2, <2>3, <2>4, RSample
  <2> QED
    BY <2>2, <2>3, <2>5
<1>2. CASE PollStable
  <2>1. pc = "wait" /\ wait.kind = "carrier" /\ SeenByPoll /\ Sampled(Carrier)
    BY <1>2 DEF PollStable
  <2>2. /\ RunOK'
        /\ run' >= StableSamples => phy \in {"old", "settled"}
    BY <2>1, RSample
  <2> QED
    BY <2>1, <2>2 DEF RunOK
<1> QED
  BY <1>1, <1>2

LEMMA RNext == IInv /\ RunOK /\ TypeOK' /\ [Next]_vars => RunOK'
<1>1. RunOK /\ UNCHANGED vars => RunOK'
  BY DEF RunOK, vars, phyVars, waitVars
<1> QED
  BY <1>1, RPhy, RSession, RPollCarrier, PollEnds DEF Next, Program

\* The samples of a wait reach their number in a poll only.
LEMMA OnlyPolls ==
  ASSUME IInv, [Next]_vars, pc = "wait", run < StableSamples, run' >= StableSamples
  PROVE  PollSpeed \/ PollStable
<1>1. run \in Nat /\ StableSamples \in Nat \ {0}
  BY LinkAssumption DEF IInv, TypeOK
<1>2. UNCHANGED vars => run' = run
  BY DEF vars, waitVars
<1>3. PhyDrop \/ PhyBlip \/ PhySettle \/ WaitExpires => run' = run
  BY DEF PhyDrop, PhyBlip, PhySettle, WaitExpires, waitVars
<1>4. PollCarrier => run' = run \/ run' = 0
  BY DEF PollCarrier
<1>5. ~(\/ OpenSession \/ BumpMtu \/ EnterSpeed \/ SetSpeed \/ BodyEnds \/ ExitSpeed
        \/ EnterDown \/ ExitDown \/ WaitForSpeed \/ RestoreMtu \/ RestoreAutoneg
        \/ RestoreUp)
  BY DEF OpenSession, BumpMtu, EnterSpeed, SetSpeed, BodyEnds, ExitSpeed, EnterDown,
         ExitDown, WaitForSpeed, RestoreMtu, RestoreAutoneg, RestoreUp
<1> QED
  BY <1>1, <1>2, <1>3, <1>4, <1>5 DEF Next, Program

\* wait_for_link_at and wait_for_carrier return in a block only when the PHY has
\* settled, or on the old link that already has the speed asked for: no number
\* of moments of carrier makes up the samples, whatever has failed before.
THEOREM StableSafe == Spec => WaitsStable
<1>1. Init => RunOK
  BY DEF Init, RunOK
<1>2. IInv /\ IInv' /\ RunOK /\ [Next]_vars => RunOK'
  BY RNext DEF IInv
<1>3. IInv /\ RunOK /\ [Next]_vars
      => [ (/\ pc = "wait" /\ wait.kind # "speed" /\ wait.then # "closed"
            /\ run < StableSamples /\ run' >= StableSamples)
           => \/ phy = "settled"
              \/ phy = "old" /\ wait.kind = "link_at" /\ speed = wait.want ]_vars
  BY OnlyPolls, PollEnds
<1> QED
  BY <1>1, <1>2, <1>3, Invariance, PTL DEF Spec, WaitsStable
=============================================================================
