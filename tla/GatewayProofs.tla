---------------------------- MODULE GatewayProofs ----------------------------
(***************************************************************************)
(* Proofs about who gets in to the gateway, and who stays: DeviceSockets   *)
(* for any number of devices and sockets, GatewayLogin for any links and   *)
(* lifetimes, DeviceAuth for any secrets and delays.                       *)
(***************************************************************************)
EXTENDS DeviceAuth, GatewayLogin, DeviceSockets, FiniteSetTheorems, TLAPS

-----------------------------------------------------------------------------
(* Sockets and their devices. *)

Handlers == [at : Waits, client : BOOLEAN, ended : BOOLEAN]

SocketTypes ==
  /\ ws \in [Ws -> {NoWs} \cup [state : {"open", "closing"}, device : Device]]
  /\ groups \in [Device -> SUBSET Ws]
  /\ handler \in [Ws -> Handlers]
  /\ silent \in [Ws -> Nat]

(* Every socket that may still be cut is found under its device. *)
Grouped == \A s \in Ws : ws[s] # NoWs => s \in groups[ws[s].device]

(* A socket has not missed the ping before the one it owes an answer to.    *)
OnePingOwed ==
  \A s \in Ws : IsOpen(s) => silent[s] <= 1 /\ (s \in answered => silent[s] = 0)

OfDevices ==
  /\ devices \subseteq Device /\ devicesFile \subseteq Device
  /\ \A s \in Ws : IsOpen(s) => ~stopped /\ ws[s].device \in devices \cup untold

(* What a handler that is still waiting will find when it goes on. *)
Tidy ==
  \A s \in Ws : ws[s] = NoWs =>
    /\ s \notin listening /\ ~handler[s].client
    /\ handler[s].ended \/ handler[s].at = "nothing"

SocketsIInv == SocketTypes /\ Grouped /\ OnePingOwed /\ OfDevices /\ Tidy

(* Cutting sockets leaves all of them where they are, and opens none. *)
LEMMA CutShuts ==
  ASSUME SocketTypes, NEW gone \in SUBSET Ws
  PROVE  /\ Cut(gone) \in [Ws -> {NoWs} \cup [state : {"open", "closing"}, device : Device]]
         /\ \A s \in Ws :
              /\ Cut(gone)[s] = NoWs <=> ws[s] = NoWs
              /\ ws[s] # NoWs => Cut(gone)[s].device = ws[s].device
              /\ Cut(gone)[s].state = "open" <=> ws[s].state = "open" /\ s \notin gone
<1>1. ASSUME NEW s \in Ws
      PROVE  LET c == IF s \in gone /\ IsOpen(s) THEN [ws[s] EXCEPT !.state = "closing"] ELSE ws[s]
             IN /\ c \in {NoWs} \cup [state : {"open", "closing"}, device : Device]
                /\ c = NoWs <=> ws[s] = NoWs
                /\ ws[s] # NoWs => c.device = ws[s].device
                /\ c.state = "open" <=> ws[s].state = "open" /\ s \notin gone
  <2>1. CASE ws[s] = NoWs
    BY <2>1 DEF NoWs, IsOpen
  <2>2. CASE ws[s] \in [state : {"open", "closing"}, device : Device]
    BY <2>2 DEF NoWs, IsOpen
  <2> QED BY <2>1, <2>2 DEF SocketTypes
<1> QED BY <1>1 DEF Cut

LEMMA CleanedUpIsTidy ==
  ASSUME NEW h \in Handlers
  PROVE  CleanedUp(h) \in Handlers /\ ~CleanedUp(h).client /\ CleanedUp(h).ended
BY DEF CleanedUp, Handlers

LEMMA SocketsInitIInv == SocketsInit => SocketsIInv
BY DEF SocketsInit, SocketsIInv, SocketTypes, Grouped, OnePingOwed, OfDevices, Tidy, IsOpen, NoWs, Idle, Waits, Handlers

LEMMA SocketsStep == SocketsIInv /\ [SocketsNext]_socketVars => SocketsIInv'
<1> SUFFICES ASSUME SocketsIInv, [SocketsNext]_socketVars
             PROVE  SocketsIInv'
  OBVIOUS
<1> USE DEF SocketsIInv
<1>1. ASSUME NEW id \in Device, NEW saved, Issue(id, saved)
      PROVE  SocketsIInv'
  BY <1>1 DEF Issue, SocketTypes, Grouped, OnePingOwed, OfDevices, Tidy, IsOpen
<1>2. ASSUME NEW ids \in SUBSET devices, NEW saved, RemoveThese(ids, saved)
      PROVE  SocketsIInv'
  <2> DEFINE cut == UNION {groups[id] : id \in ids}
  <2>1. cut \in SUBSET Ws
    BY DEF SocketTypes, OfDevices
  <2>2. CASE saved
    <3>1. CASE stopped
      BY <1>2, <2>2, <3>1 DEF RemoveThese, Announced, SocketTypes, Grouped, OnePingOwed, OfDevices, Tidy, IsOpen
    <3>2. CASE ~stopped
      <4>1. ws' = Cut(cut) /\ devices' = devices \ ids /\ devicesFile' = devices'
        BY <1>2, <2>2, <3>2 DEF RemoveThese, Announced
      <4>2. UNCHANGED <<groups, answered, listening, handler, stopped, silent, untold>>
        BY <1>2, <2>2 DEF RemoveThese
      <4>3. \A s \in Ws : ws[s] # NoWs /\ ws[s].device \in ids => s \in cut
        BY DEF Grouped
      <4>4. \A s \in Ws : ws[s].state = "open" => ws[s] # NoWs
        BY DEF NoWs
      <4>5. (OfDevices)'
        BY <2>1, <4>1, <4>2, <4>3, <4>4, CutShuts DEF OfDevices, IsOpen
      <4> QED BY <2>1, <4>1, <4>2, <4>4, <4>5, CutShuts DEF SocketTypes, Grouped, OnePingOwed, Tidy, IsOpen
    <3> QED BY <3>1, <3>2
  <2>3. CASE ~saved
    BY <1>2, <2>3 DEF RemoveThese, SocketTypes, Grouped, OnePingOwed, OfDevices, Tidy, IsOpen
  <2> QED BY <2>2, <2>3
<1>3. ASSUME NEW saved, RevokeAll(saved)
      PROVE  SocketsIInv'
  <2> DEFINE cut == UNION {groups[id] : id \in Device}
  <2>1. cut \in SUBSET Ws
    BY DEF SocketTypes
  <2>2. CASE saved
    <3>1. CASE stopped
      BY <1>3, <2>2, <3>1 DEF RevokeAll, Announced, SocketTypes, Grouped, OnePingOwed, OfDevices, Tidy, IsOpen
    <3>2. CASE ~stopped
      <4>1. ws' = Cut(cut) /\ devices' = {} /\ devicesFile' = {}
        BY <1>3, <2>2, <3>2 DEF RevokeAll, Announced
      <4>2. UNCHANGED <<groups, answered, listening, handler, stopped, silent, untold>>
        BY <1>3, <2>2 DEF RevokeAll
      <4>3. \A s \in Ws : ws[s] # NoWs => s \in cut
        BY DEF Grouped, SocketTypes, NoWs
      <4>4. \A s \in Ws : ws[s].state = "open" => ws[s] # NoWs
        BY DEF NoWs
      <4>5. (OfDevices)'
        BY <2>1, <4>1, <4>2, <4>3, <4>4, CutShuts DEF OfDevices, IsOpen
      <4> QED BY <2>1, <4>1, <4>2, <4>4, <4>5, CutShuts DEF SocketTypes, Grouped, OnePingOwed, Tidy, IsOpen
    <3> QED BY <3>1, <3>2
  <2>3. CASE ~saved
    BY <1>3, <2>3 DEF RevokeAll, SocketTypes, Grouped, OnePingOwed, OfDevices, Tidy, IsOpen
  <2> QED BY <2>2, <2>3
<1>4. ASSUME NEW s \in Ws, NEW id \in devices, NEW kind, Upgrade(s, id, kind)
      PROVE  SocketsIInv'
  <2>1. id \in Device
    BY DEF OfDevices
  <2>2. /\ ws' = [ws EXCEPT ![s] = [state |-> "open", device |-> id]]
        /\ groups' = [groups EXCEPT ![id] = @ \cup {s}]
        /\ ws'[s] # NoWs
    BY <1>4 DEF Upgrade, NoWs, SocketTypes
  <2>3. handler' \in [Ws -> Handlers]
    BY <1>4 DEF Upgrade, SocketTypes, Idle, Waits, Handlers
  <2>4. SocketTypes'
    BY <1>4, <2>1, <2>2, <2>3 DEF Upgrade, SocketTypes
  <2>5. Grouped'
    BY <2>1, <2>2 DEF Grouped, SocketTypes
  <2>6. OnePingOwed' /\ OfDevices'
    BY <1>4, <2>2 DEF Upgrade, deviceVars, OnePingOwed, OfDevices, SocketTypes, IsOpen
  <2>7. Tidy'
    BY <1>4, <2>2 DEF Upgrade, Tidy, SocketTypes
  <2> QED BY <2>4, <2>5, <2>6, <2>7
<1>5. ASSUME NEW s \in Ws, Closed(s)
      PROVE  SocketsIInv'
  <2>1. /\ ws' = [ws EXCEPT ![s] = NoWs]
        /\ groups' = [groups EXCEPT ![ws[s].device] = @ \ {s}]
        /\ ws[s].device \in Device
    BY <1>5 DEF Closed, Untracked, SocketTypes, NoWs
  <2>2. SocketTypes'
    <3>1. handler' \in [Ws -> Handlers]
      BY <1>5, CleanedUpIsTidy DEF Closed, SocketTypes
    <3>2. silent' \in [Ws -> Nat]
      BY <1>5 DEF Closed, SocketTypes
    <3> QED BY <2>1, <3>1, <3>2 DEF SocketTypes
  <2>3. Grouped'
    BY <2>1 DEF Grouped, SocketTypes
  <2>4. OnePingOwed' /\ OfDevices'
    BY <1>5, <2>1 DEF Closed, deviceVars, OnePingOwed, OfDevices, SocketTypes, IsOpen, NoWs
  <2>5. Tidy'
    BY <1>5, <2>1, CleanedUpIsTidy DEF Closed, Tidy, SocketTypes
  <2> QED BY <2>2, <2>3, <2>4, <2>5
<1>6. ASSUME NEW s \in Ws, Pong(s)
      PROVE  SocketsIInv'
  BY <1>6 DEF Pong, deviceVars, SocketTypes, Grouped, OnePingOwed, OfDevices, Tidy, IsOpen
<1>7. CASE Beat
  <2> DEFINE bad == {s \in Ws : IsOpen(s) /\ (~Authorised(s) \/ s \notin answered)}
  <2>1. /\ ws' = Cut(bad) /\ bad \in SUBSET Ws
        /\ answered' = answered \cap bad
        /\ silent' = [s \in Ws |-> IF IsOpen(s) /\ s \notin bad THEN silent[s] + 1 ELSE silent[s]]
        /\ UNCHANGED <<devices, devicesFile, groups, listening, handler, stopped>>
    BY <1>7 DEF Beat
  <2>2. SocketTypes' /\ Grouped' /\ Tidy'
    <3>1. silent' \in [Ws -> Nat]
      BY <2>1 DEF SocketTypes
    <3>2. SocketTypes'
      BY <2>1, <3>1, CutShuts DEF SocketTypes
    <3> QED BY <2>1, <3>2, CutShuts DEF Grouped, Tidy
  <2>3. OnePingOwed'
    BY <2>1, CutShuts DEF OnePingOwed, SocketTypes, IsOpen
  <2>4. ASSUME NEW s \in Ws, IsOpen(s)'
        PROVE  ~stopped' /\ ws'[s].device \in devices'
    <3>1. IsOpen(s) /\ s \notin bad /\ ws[s] # NoWs
      BY <2>1, <2>4, CutShuts DEF IsOpen, NoWs
    <3> QED BY <2>1, <3>1, CutShuts DEF OfDevices, Authorised
  <2> QED BY <2>1, <2>2, <2>3, <2>4 DEF OfDevices
<1>8. CASE Stop
  <2>1. /\ ws' = Cut(Ws)
        /\ UNCHANGED <<devices, devicesFile, untold, groups, answered, listening, handler, silent>>
    BY <1>8 DEF Stop, deviceVars
  <2> QED BY <2>1, CutShuts DEF SocketTypes, Grouped, OnePingOwed, OfDevices, Tidy, IsOpen
<1>9. CASE StartsAgain \/ SavedLater
  <2>1. CASE SavedLater
    BY <2>1 DEF SavedLater, SocketTypes, Grouped, OnePingOwed, OfDevices, Tidy, IsOpen
  <2>2. CASE StartsAgain
    <3>1. Idle \in Handlers
      BY DEF Idle, Handlers, Waits
    <3>2. SocketTypes'
      BY <2>2, <3>1 DEF StartsAgain, SocketTypes
    <3>3. \A s \in Ws : /\ ws'[s] = NoWs /\ ws'[s].state # "open" /\ s \notin listening'
                        /\ ~handler'[s].client /\ handler'[s].at = "nothing"
      BY <2>2 DEF StartsAgain, NoWs, Idle
    <3>4. devices' \subseteq Device
      BY <2>2 DEF StartsAgain, OfDevices
    <3> QED BY <3>2, <3>3, <3>4, <2>2 DEF StartsAgain, Grouped, OnePingOwed, OfDevices, Tidy, IsOpen
  <2> QED BY <1>9, <2>1, <2>2
<1>10. ASSUME NEW s \in Ws,
              Ends(s, TRUE) \/ Ends(s, FALSE) \/ MessageOfNone(s) \/ Connects(s) \/ GoesOn(s) \/ Fails(s) \/ PtydGoes(s)
       PROVE  SocketsIInv'
  <2>1. UNCHANGED <<devices, devicesFile, untold, groups, answered, listening, stopped, silent>>
    BY <1>10 DEF Ends, MessageOfNone, Connects, GoesOn, Fails, PtydGoes, deviceVars
  <2>2. ws' = ws \/ ws' = Cut({s})
    BY <1>10 DEF Ends, MessageOfNone, Connects, GoesOn, Fails, PtydGoes
  <2>3. /\ handler' = [handler EXCEPT ![s] = handler'[s]]
        /\ handler'[s] \in Handlers
        /\ ws[s] = NoWs => ~handler'[s].client /\ (handler'[s].ended \/ handler'[s].at = "nothing")
    <3>1. CASE Ends(s, TRUE) \/ Ends(s, FALSE)
      BY <3>1, CleanedUpIsTidy DEF Ends, SocketTypes, Tidy
    <3>2. CASE MessageOfNone(s) \/ PtydGoes(s)
      BY <3>2 DEF MessageOfNone, PtydGoes, SocketTypes, Tidy
    <3>3. CASE Connects(s)
      BY <3>3 DEF Connects, Handles, SocketTypes, Tidy, Waits, Handlers
    <3>4. CASE GoesOn(s)
      BY <3>4 DEF GoesOn, Handles, CleanedUp, Active, SocketTypes, Tidy, Waits, Handlers
    <3>5. CASE Fails(s)
      BY <3>5 DEF Fails, Handles, CleanedUp, SocketTypes, Tidy, Waits, Handlers
    <3> QED BY <1>10, <3>1, <3>2, <3>3, <3>4, <3>5
  <2>4. SocketTypes' /\ Grouped'
    BY <2>1, <2>2, <2>3, CutShuts DEF SocketTypes, Grouped
  <2>5. OnePingOwed' /\ OfDevices'
    BY <2>1, <2>2, CutShuts DEF OnePingOwed, OfDevices, IsOpen, NoWs
  <2>6. Tidy'
    BY <2>1, <2>2, <2>3, CutShuts DEF Tidy, SocketTypes
  <2> QED BY <2>4, <2>5, <2>6
<1>11. CASE UNCHANGED socketVars
  BY <1>11 DEF socketVars, SocketTypes, Grouped, OnePingOwed, OfDevices, Tidy, IsOpen
<1> QED BY <1>1, <1>2, <1>3, <1>4, <1>5, <1>6, <1>7, <1>8, <1>9, <1>10, <1>11 DEF SocketsNext

(* However sockets, removals, failed writes, heartbeats and the handlers of *)
(* terminals interleave, no socket outlives its device by more than a       *)
(* heartbeat, and what is gone leaves nothing behind.                       *)
THEOREM SocketsAlwaysFollow == SocketsSpec => []SocketsFollow
<1>1. SocketsIInv => SocketsFollow
  BY DEF SocketsIInv, SocketsFollow, OfDevices, OnePingOwed, Tidy
<1> QED BY <1>1, SocketsInitIInv, SocketsStep, PTL DEF SocketsSpec

-----------------------------------------------------------------------------
(* A device that was removed. *)

RemovedIInv == over = "saved" => device = Gone /\ file = Gone /\ ~socket

(* Once the gateway's file says that a device is gone nothing that is still *)
(* under way -- a save, a request, a restart -- brings it back.             *)
THEOREM RemovedIsForGood == Spec => []RemovedForGood
<1>1. Init => RemovedIInv
  BY DEF Init, RemovedIInv
<1>2. RemovedIInv /\ [Next]_vars => RemovedIInv'
  <2> SUFFICES ASSUME RemovedIInv, [Next]_vars, over' = "saved"
               PROVE  device' = Gone /\ file' = Gone /\ ~socket'
    BY DEF RemovedIInv
  <2>1. ASSUME NEW req, NEW c, NEW r, Serve(req, c, r)
        PROVE  over = "saved" => FALSE
    BY <2>1 DEF Serve, Accepted, Current, Previous, RemovedIInv
  <2>2. ASSUME NEW saved, Remove(saved)
        PROVE  device' = Gone /\ file' = Gone /\ ~socket'
    BY <2>2 DEF Remove, Removed
  <2>3. ASSUME NEW saved, NEW req, Refuse(req, saved)
        PROVE  device' = Gone /\ file' = Gone /\ ~socket'
    BY <2>3 DEF Refuse, Removed, Previous, RemovedIInv
  <2>4. ASSUME (\E kind \in Kind : Send(kind)) \/ (\E res \in responses : Receive(res)) \/ Lose
        PROVE  device' = Gone /\ file' = Gone /\ ~socket'
    BY <2>4 DEF Send, Receive, Lose, gateway, RemovedIInv
  <2>5. CASE SaveTimerFires \/ Restart \/ Heartbeat \/ Tick
    BY <2>5 DEF SaveTimerFires, Restart, Heartbeat, Tick, Older, RemovedIInv
  <2>6. CASE UNCHANGED vars
    BY <2>6 DEF vars, RemovedIInv
  <2>7. ASSUME NEW req, NEW c, NEW r, Serve(req, c, r)
        PROVE  FALSE
    BY <2>1, <2>7 DEF Serve
  <2> QED BY <2>2, <2>3, <2>4, <2>5, <2>6, <2>7 DEF Next
<1> QED BY <1>1, <1>2, PTL DEF Spec, RemovedIInv, RemovedForGood

-----------------------------------------------------------------------------
(* Pairing links. *)

(* Whoever has read the file, and the file itself, says of a link what is   *)
(* true of it, unless it was minted or redeemed beside another's reading.   *)
Typed(copy) ==
  /\ copy = [k \in DOMAIN copy |-> copy[k]]
  /\ \A k \in DOMAIN copy : copy[k] \in [left : 0..LinkTtl, used : BOOLEAN]

Agrees(copy) ==
  /\ \A k \in Redeemable(copy) : k \in DOMAIN shown /\ copy[k].left = shown[k]
  /\ \A k \in Redeemable(copy) \cap redeemed : <<"redeemed", k>> \in beside
  /\ \A k \in DOMAIN shown \ redeemed : k \in Redeemable(copy) \/ <<"minted", k>> \in beside

Reading == {pairings} \cup {minting[m] : m \in DOMAIN minting} \cup {redeeming[k] : k \in DOMAIN redeeming}

LinksIInv ==
  /\ \A k \in DOMAIN shown : shown[k] \in 1..LinkTtl
  /\ redeemed \subseteq DOMAIN shown
  /\ \A copy \in Reading : Typed(copy) /\ Agrees(copy)

LEMMA LinksInit == LoginInit => LinksIInv
<1> SUFFICES ASSUME LoginInit PROVE LinksIInv
  OBVIOUS
<1>1. DOMAIN <<>> = {} /\ <<>> = [k \in {} |-> k] /\ [k \in {} |-> k] = [k \in {} |-> <<>>[k]]
  OBVIOUS
<1>2. pairings = <<>> /\ minting = <<>> /\ redeeming = <<>> /\ shown = <<>> /\ redeemed = {}
  BY DEF LoginInit
<1>3. Reading = {<<>>}
  BY <1>1, <1>2 DEF Reading
<1>4. Typed(<<>>) /\ Agrees(<<>>)
  BY <1>1, <1>2 DEF Typed, Agrees, Redeemable
<1> QED BY <1>1, <1>2, <1>3, <1>4 DEF LinksIInv

(* What a tick leaves of a file. *)
LEMMA TickAgrees ==
  ASSUME LoginTick, LinksIInv, NEW copy, Typed(copy), Agrees(copy), NEW aged, aged = AgedFile(copy)
  PROVE  Typed(aged) /\ Agrees(aged)'
<1>1. \A k \in DOMAIN copy :
        /\ aged[k] \in [left : 0..LinkTtl, used : BOOLEAN]
        /\ aged[k].left = Less(copy[k].left)
        /\ aged[k].used = copy[k].used
  BY GatewayLoginAssumption DEF Typed, AgedFile, Less
<1>2. Typed(aged) /\ DOMAIN aged = DOMAIN copy
  BY <1>1 DEF Typed, AgedFile
<1>3. /\ shown' = [k \in {l \in DOMAIN shown : shown[l] > 1} |-> shown[k] - 1]
      /\ redeemed' = redeemed \cap DOMAIN shown'
      /\ \A what, k : k \in DOMAIN shown' /\ <<what, k>> \in beside => <<what, k>> \in beside'
  BY DEF LoginTick
<1>4. \A k \in DOMAIN copy : copy[k].left \in Nat
  BY GatewayLoginAssumption DEF Typed
<1>5. \A k : k \in Redeemable(aged) <=> k \in Redeemable(copy) /\ copy[k].left > 1
  BY <1>1, <1>2, <1>4 DEF Redeemable, Usable, Less
<1>6. \A k \in Redeemable(aged) : k \in DOMAIN shown' /\ aged[k].left = shown'[k]
  BY <1>1, <1>3, <1>4, <1>5 DEF Agrees, Redeemable, Less
<1>7. \A k \in Redeemable(aged) \cap redeemed' : <<"redeemed", k>> \in beside'
  BY <1>3, <1>5, <1>6 DEF Agrees
<1>8. \A k \in DOMAIN shown' \ redeemed' : k \in Redeemable(aged) \/ <<"minted", k>> \in beside'
  BY <1>3, <1>5 DEF Agrees
<1> QED BY <1>2, <1>6, <1>7, <1>8 DEF Agrees, Redeemable

(* A file that is neither written nor read keeps what it says through a new *)
(* link and through a redemption that it does not know of.                  *)
LEMMA MintAgrees ==
  ASSUME LinksIInv, NEW m \in Minter, NEW key \in Link, LinkWrites(m, key),
         NEW copy \in Reading,
         <<"minted", key>> \in beside'
  PROVE  Agrees(copy)'
<1>1. /\ shown' = [k \in DOMAIN shown \cup {key} |-> IF k = key THEN LinkTtl ELSE shown[k]]
      /\ redeemed' = redeemed /\ beside \subseteq beside'
      /\ key \notin DOMAIN shown /\ key \notin DOMAIN copy
  BY DEF LinkWrites, NewKey, Reading
<1> QED BY <1>1 DEF LinksIInv, Agrees, Redeemable

LEMMA WriteAgrees ==
  ASSUME LinksIInv, NEW m \in Minter, NEW key \in Link, LinkWrites(m, key)
  PROVE  Typed(pairings') /\ Agrees(pairings)'
<1> DEFINE copy == minting[m]
           all == Redeemable(copy) \cup {key}
           new == [k \in all |-> IF k = key THEN [left |-> LinkTtl, used |-> FALSE] ELSE copy[k]]
<1>1. /\ pairings' = new /\ Typed(copy) /\ Agrees(copy)
      /\ shown' = [k \in DOMAIN shown \cup {key} |-> IF k = key THEN LinkTtl ELSE shown[k]]
      /\ redeemed' = redeemed /\ beside \subseteq beside'
      /\ key \notin DOMAIN shown /\ key \notin DOMAIN copy
  BY DEF LinkWrites, NewKey, LinksIInv, Reading
<1>2. LinkTtl \in Nat \ {0}
  BY GatewayLoginAssumption
<1>3. Typed(new) /\ Redeemable(new) = all
  BY <1>1, <1>2 DEF Typed, Redeemable, Usable
<1> HIDE DEF copy
<1>4. \A k \in all : new[k] = IF k = key THEN [left |-> LinkTtl, used |-> FALSE] ELSE copy[k]
  OBVIOUS
<1> HIDE DEF new
<1>5. Agrees(pairings)'
  BY <1>1, <1>3, <1>4 DEF LinksIInv, Agrees, Redeemable
<1> QED BY <1>1, <1>3, <1>5

LEMMA RedeemAgrees ==
  ASSUME LinksIInv, NEW key \in DOMAIN redeeming, PairWrites(key, TRUE)
  PROVE  /\ Typed(pairings') /\ Agrees(pairings)'
         /\ \A m \in DOMAIN minting : Agrees(minting[m])'
<1> DEFINE copy == redeeming[key]
           new == Young([copy EXCEPT ![key].used = TRUE])
<1>1. /\ pairings' = new /\ Typed(copy) /\ Agrees(copy) /\ shown' = shown /\ minting' = minting
      /\ redeemed' = redeemed \cup ({key} \cap DOMAIN shown) /\ beside \subseteq beside'
      /\ minting # <<>> => (key \in DOMAIN shown => <<"redeemed", key>> \in beside')
  BY DEF PairWrites, LinksIInv, Reading
<1> HIDE DEF copy
<1>2. /\ new = [k \in DOMAIN new |-> new[k]]
      /\ \A k : k \in DOMAIN new <=> k \in DOMAIN copy /\ copy[k].left > 0
      /\ \A k \in DOMAIN new :
           /\ new[k] \in [left : 0..LinkTtl, used : BOOLEAN]
           /\ new[k].left = copy[k].left
           /\ new[k].used <=> k = key \/ copy[k].used
  <2>1. ASSUME NEW k \in DOMAIN copy
        PROVE  LET p == [copy EXCEPT ![key].used = TRUE]
               IN /\ p[k] \in [left : 0..LinkTtl, used : BOOLEAN]
                  /\ p[k].left = copy[k].left
                  /\ p[k].used <=> k = key \/ copy[k].used
    BY <1>1, <2>1 DEF Typed
  <2> QED BY <1>1, <2>1 DEF Young, Restrict, Typed
<1> HIDE DEF new
<1>3. Typed(new) /\ \A k : k \in Redeemable(new) <=> k \in Redeemable(copy) /\ k # key
  BY <1>1, <1>2 DEF Typed, Redeemable, Usable
<1>4. \A k \in Redeemable(new) : new[k].left = copy[k].left
  BY <1>2 DEF Redeemable
<1>5. Agrees(pairings)'
  BY <1>1, <1>3, <1>4 DEF Agrees, LinksIInv, Redeemable
<1>6. ASSUME NEW m \in DOMAIN minting
      PROVE  Agrees(minting[m])'
  <2>1. Agrees(minting[m]) /\ minting # <<>>
    BY <1>6 DEF LinksIInv, Reading
  <2> QED BY <1>1, <2>1 DEF Agrees, Redeemable
<1> QED BY <1>1, <1>3, <1>5, <1>6

LEMMA LinksStep ==
  ASSUME LinksIInv, [LoginNext]_loginVars
  PROVE  LinksIInv'
<1>1. ASSUME UNCHANGED <<shown, redeemed, beside>>, Reading' \subseteq Reading
      PROVE  LinksIInv'
  <2>1. \A copy \in Reading' : Typed(copy) /\ Agrees(copy)'
    BY <1>1 DEF LinksIInv, Agrees
  <2> QED BY <1>1, <2>1 DEF LinksIInv, Agrees
<1>2. ASSUME NEW a \in Address, NEW key, Pair(a, key)
      PROVE  LinksIInv'
  BY <1>1, <1>2 DEF Pair, Reading
<1>3. ASSUME NEW key \in Link, NEW written \in BOOLEAN, PairWrites(key, written)
      PROVE  LinksIInv'
  <2>1. CASE ~written
    BY <1>1, <1>3, <2>1 DEF PairWrites, Reading
  <2>2. CASE written
    <3>1. PairWrites(key, TRUE)
      BY <1>3, <2>2 DEF PairWrites
    <3>2. /\ Typed(pairings') /\ Agrees(pairings)'
          /\ \A m \in DOMAIN minting : Agrees(minting[m])'
      BY <3>1, RedeemAgrees DEF PairWrites
    <3>3. /\ minting' = minting /\ redeeming' = <<>> /\ shown' = shown
          /\ redeemed' \subseteq DOMAIN shown'
      BY <3>1 DEF PairWrites, LinksIInv
    <3>4. \A m \in DOMAIN minting : Typed(minting[m])
      BY DEF LinksIInv, Reading
    <3>5. \A copy \in Reading' : Typed(copy) /\ Agrees(copy)'
      BY <3>2, <3>3, <3>4 DEF Reading, Agrees, Redeemable
    <3> QED BY <3>3, <3>5 DEF LinksIInv, Agrees
  <2> QED BY <2>1, <2>2
<1>4. ASSUME NEW m \in Minter, LinkReads(m)
      PROVE  LinksIInv'
  BY <1>1, <1>4 DEF LinkReads, Reading
<1>5. ASSUME NEW m \in Minter, NEW key \in Link, LinkWrites(m, key)
      PROVE  LinksIInv'
  <2>1. Typed(pairings') /\ Agrees(pairings)'
    BY <1>5, WriteAgrees
  <2>2. /\ minting' = [n \in DOMAIN minting \ {m} |-> minting[n]] /\ redeeming' = redeeming
        /\ shown' = [k \in DOMAIN shown \cup {key} |-> IF k = key THEN LinkTtl ELSE shown[k]]
        /\ redeemed' = redeemed
    BY <1>5 DEF LinkWrites, Restrict
  <2>3. \A k \in DOMAIN shown' : shown'[k] \in 1..LinkTtl
    BY <2>2, GatewayLoginAssumption DEF LinksIInv
  <2>4. ASSUME NEW copy, copy \in {minting'[n] : n \in DOMAIN minting'} \cup {redeeming[k] : k \in DOMAIN redeeming}
        PROVE  Typed(copy) /\ Agrees(copy)'
    <3>1. copy \in Reading
      BY <2>2, <2>4 DEF Reading
    <3>2. ~(minting' = <<>> /\ redeeming = <<>>)
      BY <2>4
    <3>3. <<"minted", key>> \in beside'
      BY <1>5, <3>2 DEF LinkWrites
    <3> QED BY <1>5, <3>1, <3>3, MintAgrees DEF LinksIInv
  <2>5. \A copy \in Reading' : Typed(copy) /\ Agrees(copy)'
    BY <2>1, <2>2, <2>4 DEF Reading, Agrees, Redeemable
  <2> QED BY <2>2, <2>3, <2>5 DEF LinksIInv, Agrees
<1>6. CASE LoginTick
  <2>1. /\ pairings' = AgedFile(pairings)
        /\ minting' = [m \in DOMAIN minting |-> AgedFile(minting[m])]
        /\ redeeming' = [k \in DOMAIN redeeming |-> AgedFile(redeeming[k])]
        /\ shown' = [k \in {l \in DOMAIN shown : shown[l] > 1} |-> shown[k] - 1]
        /\ redeemed' = redeemed \cap DOMAIN shown'
    BY <1>6 DEF LoginTick
  <2>2. \A k \in DOMAIN shown' : shown'[k] \in 1..LinkTtl
    BY <2>1, GatewayLoginAssumption DEF LinksIInv
  <2>3. Reading' = {AgedFile(copy) : copy \in Reading}
    BY <2>1 DEF Reading
  <2>5. ASSUME NEW aged \in Reading'
        PROVE  Typed(aged) /\ Agrees(aged)'
    <3>1. PICK copy \in Reading : aged = AgedFile(copy)
      BY <2>3
    <3> QED BY <1>6, <3>1, TickAgrees DEF LinksIInv
  <2> QED BY <2>1, <2>2, <2>5 DEF LinksIInv, Agrees
<1>7. ASSUME NEW a \in Address, NEW right, Login(a, right)
      PROVE  LinksIInv'
  BY <1>1, <1>7 DEF Login, linkVars, Reading
<1>8. CASE ShowToken \/ Passwd \/ GatewayRestarts \/ UNCHANGED loginVars
  BY <1>1, <1>8 DEF ShowToken, Passwd, GatewayRestarts, loginVars, linkVars, Reading
<1> QED BY <1>2, <1>3, <1>4, <1>5, <1>6, <1>7, <1>8 DEF LoginNext

(* For any number of links, of processes that mint them and any lifetime:   *)
(* a link lets one device in until its time is over, and none that is used, *)
(* too old or was never shown does, whatever the gateway and every          *)
(* `ptyhub link` write over one another, but for a link that was itself     *)
(* minted or redeemed while another of them held what it had read.          *)
THEOREM LinksAlwaysExact == LoginSpec => []LinksExact
<1>1. LinksIInv => LinksExact
  BY DEF LinksIInv, Reading, Agrees, LinksExact
<1>2. LinksIInv /\ [LoginNext]_loginVars => LinksIInv'
  BY LinksStep
<1> QED BY <1>1, <1>2, LinksInit, PTL DEF LoginSpec

-----------------------------------------------------------------------------
(* Passwords that are guessed. *)

(* An address that is not locked out has had as many failures counted as    *)
(* wrong passwords judged lately; one that is has had none judged since.    *)
Judged(a) ==
  LET f == failures[a]
      w == wrong[a]
  IN /\ f \in [count : Nat, locked : 0..Lockout] /\ f.count < Threshold
     /\ w \in Seq(Nat)
     /\ f.locked = 0 => Len(w) <= f.count
     /\ f.locked > 0 => /\ Len(w) <= Threshold
                        /\ \A i \in DOMAIN w : w[i] >= Lockout - f.locked

JudgedInv ==
  /\ failures = [a \in Address |-> failures[a]] /\ wrong = [a \in Address |-> wrong[a]]
  /\ \A a \in Address : Judged(a)

(* What the history keeps of the ages after a tick. *)
LEMMA AgedAges ==
  ASSUME NEW ages \in Seq(Nat)
  PROVE  /\ Aged(ages) \in Seq(Nat) /\ Len(Aged(ages)) <= Len(ages)
         /\ \A least \in Int : (\A i \in DOMAIN ages : ages[i] >= least)
              => /\ \A i \in DOMAIN Aged(ages) : Aged(ages)[i] >= least + 1
                 /\ least + 1 >= Lockout => Len(Aged(ages)) = 0
<1> DEFINE n == Len(ages)
           old == {i \in DOMAIN ages : ages[i] + 1 >= Lockout}
           past == Cardinality(old)
           rest == [i \in 1..n - past |-> ages[i + past] + 1]
<1>1. n \in Nat /\ DOMAIN ages = 1..n /\ \A i \in 1..n : ages[i] \in Nat
  OBVIOUS
<1>2. IsFiniteSet(1..n) /\ Cardinality(1..n) = n
  BY <1>1, FS_Interval
<1>3. past \in 0..n /\ (old = 1..n => past = n)
  BY <1>1, <1>2, FS_Subset, FS_CardinalityType
<1>4. Aged(ages) = rest
  BY DEF Aged
<1> HIDE DEF past, n
<1>5. n - past \in Nat /\ \A i \in 1..n - past : i + past \in 1..n
  BY <1>1, <1>3
<1>6. rest \in Seq(Nat) /\ Len(rest) = n - past /\ DOMAIN rest = 1..n - past
  BY <1>1, <1>5
<1>7. ASSUME NEW least \in Int, \A i \in DOMAIN ages : ages[i] >= least
      PROVE  /\ \A i \in DOMAIN rest : rest[i] >= least + 1
             /\ least + 1 >= Lockout => Len(rest) = 0
  <2>1. \A i \in DOMAIN rest : rest[i] >= least + 1
    BY <1>1, <1>5, <1>6, <1>7
  <2>2. ASSUME least + 1 >= Lockout
        PROVE  Len(rest) = 0
    <3>1. old = 1..n
      BY <1>1, <1>7, <2>2, GatewayLoginAssumption
    <3> QED BY <1>1, <1>3, <1>6, <3>1
  <2> QED BY <2>1, <2>2
<1>8. rest \in Seq(Nat) /\ Len(rest) <= n
  BY <1>1, <1>3, <1>6
<1> QED BY <1>4, <1>7, <1>8 DEF n

LEMMA JudgedInit == LoginInit => JudgedInv
<1> SUFFICES ASSUME LoginInit PROVE JudgedInv
  OBVIOUS
<1>1. failures = [a \in Address |-> [count |-> 0, locked |-> 0]] /\ wrong = [a \in Address |-> <<>>]
  BY DEF LoginInit, NoFailures
<1>2. Threshold \in Nat \ {0} /\ Lockout \in Nat \ {0}
  BY GatewayLoginAssumption
<1> QED BY <1>1, <1>2 DEF JudgedInv, Judged

(* One failure more, of a password or of a pairing key. *)
LEMMA Recorded ==
  ASSUME JudgedInv, NEW a \in Address, RecordFailure(a), NEW w \in Seq(Nat),
         wrong' = [wrong EXCEPT ![a] = w],
         Len(w) <= Len(wrong[a]) + 1, Len(w) = Len(wrong[a]) + 1 => failures[a].locked = 0,
         Len(w) # Len(wrong[a]) + 1 => w = wrong[a]
  PROVE  JudgedInv'
<1> DEFINE f == failures[a]
<1>1. Judged(a) /\ Threshold \in Nat \ {0} /\ Lockout \in Nat \ {0} /\ Len(w) \in Nat /\ Len(wrong[a]) \in Nat
  BY GatewayLoginAssumption DEF JudgedInv, Judged
<1>2. failures' = [failures EXCEPT ![a] = IF failures[a].count + 1 >= Threshold
                                         THEN [count |-> 0, locked |-> Lockout]
                                         ELSE [count |-> failures[a].count + 1, locked |-> failures[a].locked]]
  BY DEF RecordFailure, Locks
<1>3. /\ failures'[a] = IF f.count + 1 >= Threshold THEN [count |-> 0, locked |-> Lockout]
                        ELSE [count |-> f.count + 1, locked |-> f.locked]
      /\ wrong'[a] = w
      /\ \A b \in Address \ {a} : failures'[b] = failures[b] /\ wrong'[b] = wrong[b]
      /\ failures' = [b \in Address |-> failures'[b]] /\ wrong' = [b \in Address |-> wrong'[b]]
  BY <1>1, <1>2 DEF JudgedInv, Judged
<1>4. f.count \in Nat /\ f.count < Threshold /\ f.locked \in 0..Lockout
  BY <1>1 DEF Judged
<1>5. Judged(a)'
  <2>1. CASE f.count + 1 >= Threshold
    <3>1. failures'[a].count = 0 /\ failures'[a].locked = Lockout
          /\ failures'[a] \in [count : Nat, locked : 0..Lockout]
      BY <1>1, <1>3, <2>1
    <3>2. f.count + 1 = Threshold
      BY <1>1, <1>4, <2>1
    <3>3. Len(w) <= Threshold
      BY <1>1, <1>4, <3>2 DEF Judged
    <3>4. \A i \in DOMAIN w : w[i] >= Lockout - Lockout
      BY <1>1
    <3> QED BY <1>1, <1>3, <3>1, <3>3, <3>4 DEF Judged
  <2>2. CASE ~(f.count + 1 >= Threshold)
    <3>1. failures'[a].count = f.count + 1 /\ failures'[a].locked = f.locked
          /\ failures'[a] \in [count : Nat, locked : 0..Lockout]
      BY <1>3, <1>4, <2>2
    <3>2. f.count + 1 < Threshold
      BY <1>1, <1>4, <2>2
    <3>3. f.locked = 0 => Len(w) <= f.count + 1
      BY <1>1, <1>4 DEF Judged
    <3>4. f.locked > 0 => w = wrong[a]
      BY <1>1, <1>4
    <3>5. f.locked > 0 => Len(w) <= Threshold /\ \A i \in DOMAIN w : w[i] >= Lockout - f.locked
      BY <1>1, <3>4 DEF Judged
    <3> QED BY <1>1, <1>3, <3>1, <3>2, <3>3, <3>5 DEF Judged
  <2> QED BY <2>1, <2>2
<1>6. \A b \in Address \ {a} : Judged(b)'
  BY <1>3 DEF JudgedInv, Judged
<1> QED BY <1>3, <1>5, <1>6 DEF JudgedInv

LEMMA JudgedStep ==
  ASSUME JudgedInv, [LoginNext]_loginVars
  PROVE  JudgedInv'
<1>1. CASE UNCHANGED <<failures, wrong>>
  BY <1>1 DEF JudgedInv, Judged
<1>2. ASSUME NEW a \in Address, NEW right, Login(a, right)
      PROVE  JudgedInv'
  <2>1. CASE right /\ password
    <3>1. /\ failures' = [failures EXCEPT ![a] = [count |-> 0, locked |-> 0]]
          /\ wrong' = [wrong EXCEPT ![a] = <<>>]
      BY <1>2, <2>1 DEF Login, NoFailures
    <3>2. Threshold \in Nat \ {0} /\ Lockout \in Nat \ {0}
      BY GatewayLoginAssumption
    <3>3. /\ failures'[a] = [count |-> 0, locked |-> 0] /\ wrong'[a] = <<>>
          /\ \A b \in Address \ {a} : failures'[b] = failures[b] /\ wrong'[b] = wrong[b]
          /\ failures' = [b \in Address |-> failures'[b]] /\ wrong' = [b \in Address |-> wrong'[b]]
      BY <3>1 DEF JudgedInv
    <3>4. Judged(a)'
      BY <3>2, <3>3 DEF Judged
    <3>5. \A b \in Address \ {a} : Judged(b)'
      BY <3>3 DEF JudgedInv, Judged
    <3> QED BY <3>3, <3>4, <3>5 DEF JudgedInv
  <2>2. CASE ~(right /\ password)
    <3> DEFINE w == Append(wrong[a], 0)
    <3>1. RecordFailure(a) /\ wrong' = [wrong EXCEPT ![a] = w] /\ failures[a].locked = 0
      BY <1>2, <2>2 DEF Login
    <3>2. wrong[a] \in Seq(Nat)
      BY DEF JudgedInv, Judged
    <3>3. w \in Seq(Nat) /\ Len(w) = Len(wrong[a]) + 1 /\ Len(wrong[a]) \in Nat
      BY <3>2
    <3> HIDE DEF w
    <3>4. Len(w) <= Len(wrong[a]) + 1
      BY <3>3
    <3> QED BY <3>1, <3>3, <3>4, Recorded
  <2> QED BY <2>1, <2>2
<1>3. ASSUME NEW a \in Address, NEW key, Pair(a, key)
      PROVE  JudgedInv'
  <2>1. UNCHANGED wrong /\ (UNCHANGED failures \/ RecordFailure(a))
    BY <1>3 DEF Pair
  <2>2. CASE RecordFailure(a)
    <3> DEFINE w == wrong[a]
    <3>1. /\ w \in Seq(Nat) /\ Len(w) \in Nat /\ wrong' = [wrong EXCEPT ![a] = w]
          /\ Len(w) <= Len(w) + 1 /\ Len(w) # Len(w) + 1
      BY <2>1 DEF JudgedInv, Judged
    <3> HIDE DEF w
    <3>2. w = wrong[a]
      BY DEF w
    <3> QED BY <2>2, <3>1, <3>2, Recorded
  <2> QED BY <1>1, <2>1, <2>2
<1>4. CASE LoginTick
  <2>1. /\ failures' = [a \in Address |-> [failures[a] EXCEPT !.locked = Less(failures[a].locked)]]
        /\ wrong' = [a \in Address |-> Aged(wrong[a])]
    BY <1>4 DEF LoginTick
  <2>2. ASSUME NEW a \in Address
        PROVE  Judged(a)'
    <3> DEFINE f == failures[a]
               w == wrong[a]
    <3>1. /\ f \in [count : Nat, locked : 0..Lockout] /\ f.count < Threshold /\ w \in Seq(Nat)
          /\ f.locked = 0 => Len(w) <= f.count
          /\ f.locked > 0 => Len(w) <= Threshold /\ \A i \in DOMAIN w : w[i] >= Lockout - f.locked
      BY DEF JudgedInv, Judged
    <3>2. Lockout \in Nat \ {0} /\ Threshold \in Nat \ {0}
      BY GatewayLoginAssumption
    <3>3. wrong'[a] = Aged(w) /\ failures'[a] = [count |-> f.count, locked |-> Less(f.locked)]
      BY <2>1, <3>1
    <3>4. Aged(w) \in Seq(Nat) /\ Len(Aged(w)) <= Len(w) /\ Len(w) \in Nat /\ Len(Aged(w)) \in Nat
      BY <3>1, AgedAges
    <3>5. Less(f.locked) \in 0..Lockout /\ (f.locked > 0 => Less(f.locked) = f.locked - 1)
          /\ (f.locked = 0 => Less(f.locked) = 0)
      BY <3>1, <3>2 DEF Less
    <3>6. CASE f.locked = 0
      BY <3>1, <3>2, <3>3, <3>4, <3>5, <3>6 DEF Judged
    <3>7. CASE f.locked > 0
      <4> DEFINE least == Lockout - f.locked
      <4>1. least \in Int
        BY <3>1, <3>2
      <4>2. (\A i \in DOMAIN Aged(w) : Aged(w)[i] >= least + 1) /\ (least + 1 >= Lockout => Len(Aged(w)) = 0)
        BY <3>1, <3>7, <4>1, AgedAges
      <4>3. least + 1 = Lockout - (f.locked - 1)
        BY <3>1, <3>2
      <4>4. f.locked - 1 = 0 => Len(Aged(w)) = 0
        BY <3>1, <3>2, <4>2
      <4>5. \A i \in DOMAIN Aged(w) : Aged(w)[i] >= Lockout - (f.locked - 1)
        BY <4>2, <4>3
      <4>6. Len(Aged(w)) <= Threshold /\ f.locked - 1 \in 0..Lockout
        BY <3>1, <3>2, <3>4, <3>7
      <4> DEFINE v == Aged(w)
                 g == failures'[a]
      <4>7. /\ g = [count |-> f.count, locked |-> f.locked - 1] /\ wrong'[a] = v
            /\ f.count \in Nat /\ f.count < Threshold /\ v \in Seq(Nat)
        BY <3>1, <3>3, <3>4, <3>5, <3>7
      <4>8. /\ Len(v) <= Threshold /\ \A i \in DOMAIN v : v[i] >= Lockout - (f.locked - 1)
            /\ f.locked - 1 = 0 => Len(v) = 0
        BY <4>4, <4>5, <4>6
      <4> HIDE DEF v, w
      <4>9. g \in [count : Nat, locked : 0..Lockout] /\ g.count = f.count /\ g.locked = f.locked - 1
        BY <4>6, <4>7
      <4> HIDE DEF f, g
      <4> QED BY <4>7, <4>8, <4>9 DEF Judged, g
    <3>8. f.locked = 0 \/ f.locked > 0
      BY <3>1
    <3> QED BY <3>6, <3>7, <3>8
  <2>3. failures' = [a \in Address |-> failures'[a]] /\ wrong' = [a \in Address |-> wrong'[a]]
    BY <2>1
  <2> QED BY <2>2, <2>3 DEF JudgedInv
<1>5. CASE GatewayRestarts
  <2>1. failures' = [a \in Address |-> [count |-> 0, locked |-> 0]] /\ wrong' = [a \in Address |-> <<>>]
    BY <1>5 DEF GatewayRestarts, NoFailures
  <2>2. Threshold \in Nat \ {0} /\ Lockout \in Nat \ {0}
    BY GatewayLoginAssumption
  <2> QED BY <2>1, <2>2 DEF JudgedInv, Judged
<1>6. /\ ShowToken \/ Passwd => UNCHANGED <<failures, wrong>>
      /\ \A m, key : LinkReads(m) \/ LinkWrites(m, key) => UNCHANGED <<failures, wrong>>
      /\ \A key, written : PairWrites(key, written) => UNCHANGED <<failures, wrong>>
  BY DEF ShowToken, Passwd, LinkReads, LinkWrites, PairWrites
<1> QED BY <1>1, <1>2, <1>3, <1>4, <1>5, <1>6 DEF LoginNext, loginVars

(* For any threshold, any lockout and any number of addresses: however      *)
(* wrong passwords, wrong pairing keys and waiting are mixed, one run of    *)
(* the gateway judges at most the threshold of wrong passwords of an        *)
(* address within the time of a lockout, unless it gives the right one.     *)
(* A restart forgets the count, and begins anew.                            *)
THEOREM GuessesAlwaysBounded == LoginSpec => []GuessesBounded
<1>1. JudgedInv => GuessesBounded
  <2> SUFFICES ASSUME JudgedInv, NEW a \in Address
               PROVE  Len(wrong[a]) <= Threshold
    BY DEF GuessesBounded
  <2>1. Judged(a) /\ Threshold \in Nat
    BY GatewayLoginAssumption DEF JudgedInv
  <2> QED BY <2>1 DEF Judged
<1> QED BY <1>1, JudgedInit, JudgedStep, PTL DEF LoginSpec

-----------------------------------------------------------------------------
(* A browser that is in use. *)

(* A record accepts all that the browser and what is under way hold: the    *)
(* newest secret, and the one before for as long as it may still be used.   *)
(* A request with the one before was sent at most a delay after the newest  *)
(* was made, if the browser has that by now; so when the grace period is    *)
(* over it has been lost.                                                   *)
Safe(d, c, asked, answers) ==
  /\ d \in Record /\ d.prevHash # d.hash
  /\ c \in {d.hash, d.prevHash}
  /\ d.confirmed => c = d.hash
  /\ \A r \in asked :
       /\ r.secret \in {d.hash, d.prevHash}
       /\ r.secret = d.hash => c = d.hash
       /\ r.secret = d.prevHash =>
            /\ d.confirmed => d.prevLeft >= Delay - r.age
            /\ c = d.hash => d.rotated <= r.age + Delay
  /\ \A r \in answers : r.secret = d.hash /\ d.rotated <= r.age

InUse ==
  /\ cookie \in Secret /\ requests \subseteq Request /\ responses \subseteq Traffic
  /\ Safe(device, cookie, requests, responses)
  /\ Safe(file, cookie, requests, responses)
  /\ ~refused

AuthIInv == over = "no" => InUse

LEMMA AuthInit == Init => AuthIInv
<1> SUFFICES ASSUME Init
             PROVE  InUse
  BY DEF AuthIInv
<1>1. cookie \in Secret /\ device \in Record /\ device.hash = cookie /\ device.prevHash = NoSecret /\ device.confirmed
  BY DeviceAuthAssumption DEF Init, Record, Age
<1>2. NoSecret # cookie
  BY <1>1, DeviceAuthAssumption
<1> QED BY <1>1, <1>2 DEF Init, InUse, Safe

(* What is kept, and what is compared, of a record that is changed. *)
LEMMA ConfirmedIs ==
  ASSUME NEW d \in Record
  PROVE  /\ Confirmed(d) \in Record
         /\ Confirmed(d).hash = d.hash /\ Confirmed(d).prevHash = d.prevHash
         /\ Confirmed(d).rotated = d.rotated
         /\ Confirmed(d).confirmed = TRUE /\ Confirmed(d).prevLeft = Grace
<1>1. Grace \in -1..Grace
  BY DeviceAuthAssumption
<1>2. Confirmed(d) \in Record
  BY <1>1 DEF Confirmed, Record
<1> QED BY <1>1, <1>2 DEF Confirmed, Record

LEMMA RotatedIs ==
  ASSUME NEW d \in Record, NEW s \in Secret, NEW new \in Secret
  PROVE  \E e \in Record :
           /\ Rotated(d, s, new) = e
           /\ e.hash = new /\ e.prevHash = (IF Stale(s) THEN d.prevHash ELSE d.hash)
           /\ e.confirmed = FALSE /\ e.rotated = 0
<1> DEFINE before == IF Stale(s) THEN d.prevHash ELSE d.hash
           e      == [d EXCEPT !.prevHash = before, !.hash = new, !.confirmed = FALSE, !.rotated = 0]
<1>1. 0 \in Age /\ before \in Secret \cup {NoSecret}
  BY DeviceAuthAssumption DEF Record, Age
<1>2. Rotated(d, s, new) = e
  BY DEF Rotated
<1> HIDE DEF before
<1>3. e \in Record
  BY <1>1 DEF Record
<1>4. e.hash = new /\ e.prevHash = before /\ e.confirmed = FALSE /\ e.rotated = 0
  BY DEF Record
<1> QED BY <1>2, <1>3, <1>4 DEF before

LEMMA OlderIs ==
  ASSUME NEW d \in Record
  PROVE  /\ Older(d) \in Record
         /\ Older(d).hash = d.hash /\ Older(d).prevHash = d.prevHash /\ Older(d).confirmed = d.confirmed
         /\ Older(d).rotated <= d.rotated + 1
         /\ d.prevLeft >= 0 => Older(d).prevLeft = d.prevLeft - 1
<1>1. d # Gone
  BY GoneAssumption
<1> DEFINE rotated == IF d.rotated <= RotateAfter THEN d.rotated + 1 ELSE d.rotated
           left    == IF d.prevLeft >= 0 THEN d.prevLeft - 1 ELSE d.prevLeft
<1>2. Older(d) = [hash |-> d.hash, prevHash |-> d.prevHash, confirmed |-> d.confirmed,
                  rotated |-> rotated, prevLeft |-> left]
  BY <1>1 DEF Older, Record
<1>3. d.rotated \in Age /\ d.prevLeft \in -1..Grace
  BY DEF Record
<1>4. rotated \in Age /\ rotated <= d.rotated + 1 /\ left \in -1..Grace
  BY <1>3, DeviceAuthAssumption DEF Age
<1> QED BY <1>2, <1>3, <1>4 DEF Record

LEMMA ConfirmedSafe ==
  ASSUME InUse, NEW r \in requests, Confirms(r.secret)
  PROVE  Safe(Confirmed(device), cookie, requests, responses)
<1>1. device \in Record /\ r.secret = device.hash /\ cookie = device.hash
  BY DEF InUse, Safe, Confirms, Current
<1>2. \A q \in requests : q.age \in 0..Delay
  BY DEF InUse, Request
<1>3. \A q \in requests : Grace >= Delay - q.age
  BY <1>2, DeviceAuthAssumption
<1> QED BY <1>1, <1>3, ConfirmedIs DEF InUse, Safe

(* When a rotation is due nothing that is under way has the secret before   *)
(* the one that becomes the previous one.                                   *)
LEMMA DueFits ==
  ASSUME InUse, NEW r \in requests, Accepted(r.secret), RotationDue(r.secret)
  PROVE  LET before == IF Stale(r.secret) THEN device.prevHash ELSE device.hash
         IN /\ cookie = before /\ \A q \in requests : q.secret = before
            /\ responses = {}
<1>1. /\ device \in Record /\ device.rotated \in Nat
      /\ {RotateAfter, Grace, Delay} \subseteq Nat /\ Grace < RotateAfter /\ 2 * Delay <= Grace
  BY DeviceAuthAssumption DEF InUse, Safe, Record, Age
<1>2. \A q \in requests \cup responses : q.age \in Nat /\ q.age <= Delay
  BY <1>1 DEF InUse, Request, Traffic
<1>3. device.rotated > Grace
  BY <1>1 DEF RotationDue, Stale
<1>4. responses = {}
  BY <1>1, <1>2, <1>3 DEF InUse, Safe
<1>5. \A q \in requests : q.secret = device.prevHash => cookie # device.hash
  BY <1>1, <1>2, <1>3 DEF InUse, Safe
<1>6. CASE Stale(r.secret)
  BY <1>4, <1>5, <1>6 DEF Stale, Previous, InUse, Safe
<1>7. CASE ~Stale(r.secret)
  <2>1. r.secret # device.prevHash
    BY <1>3, <1>5, <1>7, GoneAssumption DEF Stale, Previous, InUse, Safe
  <2>2. cookie = device.hash
    BY <2>1 DEF InUse, Safe
  <2> QED BY <1>4, <1>5, <1>7, <2>2 DEF InUse, Safe
<1> QED BY <1>6, <1>7

(* What is made of the record by a request that is served. *)
LEMMA ServedFits ==
  ASSUME InUse, NEW r \in requests, NEW c \in BOOLEAN, NEW w \in BOOLEAN, Serve(r, c, w)
  PROVE  InUse'
<1> DEFINE known  == IF Confirms(r.secret) THEN Confirmed(device) ELSE device
           stops  == Confirms(r.secret) /\ ~c
           kept   == IF Confirms(r.secret) /\ c THEN known ELSE file
           rotate == r.kind = "api" /\ ~stops /\ RotationDue(r.secret)
<1>1. /\ requests' = requests \ {r} /\ UNCHANGED <<cookie, refused>>
      /\ Accepted(r.secret)
  BY DEF Serve
<1>2. Safe(known, cookie, requests, responses) /\ Safe(kept, cookie, requests, responses)
  BY ConfirmedSafe DEF InUse
<1>3. CASE ~rotate
  <2>1. device' = known /\ file' = kept /\ responses' = responses
    BY <1>3 DEF Serve
  <2> QED BY <1>1, <1>2, <2>1 DEF InUse, Safe
<1>4. CASE rotate
  <2>1. PICK new \in Fresh :
          /\ device' = Rotated(known, r.secret, new)
          /\ file' = IF w THEN device' ELSE kept
          /\ responses' = IF w THEN responses \cup {[secret |-> new, age |-> 0]} ELSE responses
    BY <1>4 DEF Serve
  <2> DEFINE before == IF Stale(r.secret) THEN device.prevHash ELSE device.hash
  <2>2. cookie = before /\ (\A q \in requests : q.secret = before) /\ responses = {}
    BY <1>1, <1>4, DueFits
  <2>3. /\ device' \in Record /\ device'.hash = new /\ device'.prevHash = before
        /\ device'.confirmed = FALSE /\ device'.rotated = 0
    <3>1. known \in Record /\ known.hash = device.hash /\ known.prevHash = device.prevHash
      BY <1>2, ConfirmedIs DEF InUse, Safe
    <3>2. new \in Secret
      BY DEF Fresh
    <3>3. device' = Rotated(known, r.secret, new) /\ r.secret \in Secret
      BY <2>1 DEF InUse, Request
    <3> HIDE DEF known
    <3>4. PICK e \in Record :
            /\ Rotated(known, r.secret, new) = e
            /\ e.hash = new /\ e.prevHash = (IF Stale(r.secret) THEN known.prevHash ELSE known.hash)
            /\ e.confirmed = FALSE /\ e.rotated = 0
      BY <3>1, <3>2, <3>3, RotatedIs
    <3>5. device' = e
      BY <3>3, <3>4
    <3> QED BY <3>1, <3>4, <3>5
  <2>4. new # before /\ new \in Secret
    BY <2>2 DEF Fresh, Held
  <2>5. \A q \in requests : q.age \in Nat
    BY DeviceAuthAssumption DEF InUse, Request
  <2>6. [secret |-> new, age |-> 0] \in Traffic
    BY <2>4, DeviceAuthAssumption DEF Traffic
  <2>7. responses' \subseteq {[secret |-> new, age |-> 0]}
    BY <2>1, <2>2
  <2>8. Safe(device', cookie', requests', responses')
    <3>1. \A q \in requests' : q.secret = before /\ 0 <= q.age + Delay
      BY <1>1, <2>2, <2>5, DeviceAuthAssumption
    <3>2. \A q \in responses' : q.secret = new /\ 0 <= q.age
      BY <2>7
    <3> QED BY <1>1, <2>2, <2>3, <2>4, <3>1, <3>2 DEF Safe
  <2>9. Safe(file', cookie', requests', responses')
    <3>1. CASE w
      BY <2>1, <2>8, <3>1
    <3>2. CASE ~w
      <4>1. file' = kept /\ responses' = responses
        BY <2>1, <3>2
      <4> QED BY <1>1, <1>2, <4>1 DEF Safe
    <3> QED BY <3>1, <3>2
  <2> QED BY <1>1, <2>6, <2>7, <2>8, <2>9 DEF InUse
<1> QED BY <1>3, <1>4

LEMMA AcceptsHeld ==
  ASSUME InUse, NEW r \in requests
  PROVE  Accepted(r.secret)
<1>1. device # Gone /\ device \in Record
  BY GoneAssumption DEF InUse, Safe
<1>2. r.age \in 0..Delay /\ Delay \in Nat
  BY DeviceAuthAssumption DEF InUse, Request
<1>3. device.prevLeft \in Int
  BY <1>1 DEF Record
<1> QED BY <1>1, <1>2, <1>3 DEF InUse, Safe, Accepted, Current, Previous, StillCounts

LEMMA TickSafe ==
  ASSUME NEW d, NEW c, NEW asked \in SUBSET Request, NEW answers \in SUBSET Traffic,
         Safe(d, c, asked, answers), \A r \in asked \cup answers : r.age < Delay
  PROVE  Safe(Older(d), c, {[r EXCEPT !.age = @ + 1] : r \in asked}, {[r EXCEPT !.age = @ + 1] : r \in answers})
<1>1. d \in Record /\ d.rotated \in Nat /\ d.prevLeft \in Int /\ Delay \in Nat /\ Older(d).rotated \in Nat /\ Older(d).prevLeft \in Int
  BY OlderIs, DeviceAuthAssumption DEF Safe, Record, Age
<1>2. \A r \in asked \cup answers : r.age \in Nat /\ r.age <= Delay
  BY DeviceAuthAssumption DEF Request, Traffic
<1>3. \A r \in asked \cup answers : [r EXCEPT !.age = @ + 1].age = r.age + 1 /\ [r EXCEPT !.age = @ + 1].secret = r.secret
  BY DEF Request, Traffic
<1>4. ASSUME NEW r \in asked
      PROVE  /\ r.secret \in {d.hash, d.prevHash}
             /\ r.secret = d.hash => c = d.hash
             /\ r.secret = d.prevHash =>
                  /\ d.confirmed => Older(d).prevLeft >= Delay - (r.age + 1)
                  /\ c = d.hash => Older(d).rotated <= (r.age + 1) + Delay
  BY <1>1, <1>2, <1>4, OlderIs DEF Safe
<1>5. ASSUME NEW r \in answers
      PROVE  r.secret = d.hash /\ Older(d).rotated <= r.age + 1
  BY <1>1, <1>2, <1>5, OlderIs DEF Safe
<1> DEFINE asked2   == {[r EXCEPT !.age = @ + 1] : r \in asked}
           answers2 == {[r EXCEPT !.age = @ + 1] : r \in answers}
<1>6. \A q \in asked2 : \E r \in asked : q.age = r.age + 1 /\ q.secret = r.secret
  BY <1>3
<1>7. \A q \in answers2 : \E r \in answers : q.age = r.age + 1 /\ q.secret = r.secret
  BY <1>3
<1> HIDE DEF asked2, answers2
<1>8. /\ Older(d) \in Record
      /\ Older(d).hash = d.hash /\ Older(d).prevHash = d.prevHash /\ Older(d).confirmed = d.confirmed
  BY <1>1, OlderIs
<1>9. Safe(Older(d), c, asked2, answers2)
  BY <1>4, <1>5, <1>6, <1>7, <1>8 DEF Safe
<1> QED BY <1>9 DEF asked2, answers2

LEMMA InUseStep ==
  ASSUME InUse, over = "no", over' = "no", [Next]_vars
  PROVE  InUse'
<1>1. ASSUME NEW kind \in Kind, Send(kind)
      PROVE  InUse'
  <2> DEFINE new == [secret |-> cookie, age |-> 0, kind |-> kind]
  <2>1. /\ requests' = requests \cup {new}
        /\ UNCHANGED <<device, file, cookie, responses, refused>>
    BY <1>1 DEF Send, gateway
  <2>2. new \in Request
    BY DeviceAuthAssumption DEF InUse, Request
  <2>3. ASSUME NEW d, Safe(d, cookie, requests, responses)
        PROVE  Safe(d, cookie, requests \cup {new}, responses)
    <3>1. new.secret = cookie /\ new.age = 0 /\ Delay \in Nat
      BY DeviceAuthAssumption
    <3>2. new.secret = d.prevHash => ~d.confirmed /\ cookie # d.hash
      BY <2>3, <3>1 DEF Safe
    <3> QED BY <2>3, <3>1, <3>2 DEF Safe
  <2> QED BY <2>1, <2>2, <2>3 DEF InUse
<1>2. ASSUME NEW res \in responses, Receive(res)
      PROVE  InUse'
  <2>1. /\ cookie' = res.secret /\ responses' = responses \ {res}
        /\ UNCHANGED <<device, file, requests, refused>>
    BY <1>2 DEF Receive, gateway
  <2>2. res.age <= Delay /\ res.age \in Nat /\ Delay \in Nat /\ res.secret \in Secret
    BY DeviceAuthAssumption DEF InUse, Traffic
  <2>3. \A q \in requests : q.age \in Nat
    BY DeviceAuthAssumption DEF InUse, Request
  <2>4. ASSUME NEW d, Safe(d, cookie, requests, responses)
        PROVE  Safe(d, res.secret, requests, responses \ {res})
    <3>1. res.secret = d.hash /\ d.rotated <= res.age /\ d.rotated \in Nat
      BY <2>4, DeviceAuthAssumption DEF Safe, Record, Age
    <3>2. \A q \in requests : d.rotated <= q.age + Delay
      BY <2>2, <2>3, <3>1
    <3> QED BY <2>4, <3>1, <3>2 DEF Safe
  <2> QED BY <2>1, <2>2, <2>4 DEF InUse
<1>3. CASE Lose
  <2>1. /\ requests' \subseteq requests /\ responses' \subseteq responses
        /\ UNCHANGED <<device, file, cookie, refused>>
    BY <1>3 DEF Lose, gateway
  <2> QED BY <2>1 DEF InUse, Safe
<1>4. ASSUME NEW req \in requests, NEW saved \in BOOLEAN, Refuse(req, saved)
      PROVE  FALSE
  BY <1>4, AcceptsHeld DEF Refuse
<1>5. CASE SaveTimerFires \/ Restart
  BY <1>5 DEF SaveTimerFires, Restart, InUse
<1>6. CASE Heartbeat
  BY <1>6, GoneAssumption DEF Heartbeat, InUse, Safe
<1>7. CASE Tick
  <2>1. /\ \A r \in requests \cup responses : r.age < Delay
        /\ device' = Older(device) /\ file' = Older(file)
        /\ requests' = {[r EXCEPT !.age = @ + 1] : r \in requests}
        /\ responses' = {[r EXCEPT !.age = @ + 1] : r \in responses}
        /\ UNCHANGED <<cookie, refused>>
    BY <1>7 DEF Tick
  <2>2. requests' \subseteq Request /\ responses' \subseteq Traffic
    BY <2>1, DeviceAuthAssumption DEF InUse, Request, Traffic
  <2> QED BY <2>1, <2>2, TickSafe DEF InUse
<1>8. ASSUME NEW saved \in BOOLEAN, Remove(saved)
      PROVE  FALSE
  BY <1>8 DEF Remove
<1>9. CASE UNCHANGED vars
  BY <1>9 DEF vars, InUse
<1> QED BY <1>1, <1>2, <1>3, <1>4, <1>5, <1>6, <1>7, <1>8, <1>9, ServedFits DEF Next

(* For any delays of which two fit in the grace period, and any number of   *)
(* requests and answers under way: whatever is lost, overlaps, fails to be  *)
(* written or is forgotten in a restart, a browser in use is never refused. *)
THEOREM NeverIsRefused == Spec => []NeverRefused
<1>1. AuthIInv /\ [Next]_vars => AuthIInv'
  <2> SUFFICES ASSUME AuthIInv, [Next]_vars, over' = "no"
               PROVE  InUse'
    BY DEF AuthIInv
  <2>1. over = "no"
    BY DEF Next, Send, Receive, Lose, Serve, Refuse, Remove, SaveTimerFires, Restart, Heartbeat, Tick, gateway, vars
  <2> QED BY <2>1, InUseStep DEF AuthIInv
<1>2. AuthIInv => NeverRefused
  BY DEF AuthIInv, InUse, NeverRefused
<1> QED BY <1>1, <1>2, AuthInit, PTL DEF Spec
=============================================================================
