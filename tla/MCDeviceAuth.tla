----------------------------- MODULE MCDeviceAuth -----------------------------
(***************************************************************************)
(* Instances of DeviceAuth, GatewayLogin and DeviceSockets for TLC: a      *)
(* behaviour is of one of them, while the others wait in an initial state. *)
(* Few secrets are enough: what is held by the gateway, its file, the      *)
(* browser and what is under way differ in at most this many.              *)
(***************************************************************************)
EXTENDS DeviceAuth, GatewayLogin, DeviceSockets, TLC

CONSTANTS s1, s2, s3, s4, s5, k1, k2, home, d1, w1, w2, m1, m2

FiveSecrets == {s1, s2, s3, s4, s5}
OneHome     == {home}
TwoLinks    == {k1, k2}
OneDevice   == {d1}
TwoSockets  == {w1, w2}
Minters     == {m1, m2}
Alike       == Permutations(FiveSecrets)

GatewayInit == Init /\ LoginInit /\ SocketsInit
GatewayNext ==
  \/ LoginInit /\ SocketsInit /\ Next /\ UNCHANGED <<loginVars, socketVars>>
  \/ Init /\ SocketsInit /\ LoginNext /\ UNCHANGED <<vars, socketVars>>
  \/ Init /\ LoginInit /\ SocketsNext /\ UNCHANGED <<vars, loginVars>>

GatewaySpec == GatewayInit /\ [][GatewayNext]_<<vars, loginVars, socketVars>>
=============================================================================
