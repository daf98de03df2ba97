--------------------------- MODULE HandlersProofs ----------------------------
(***************************************************************************)
(* Proofs about the handlers that rewrite secrets and interfaces, for any  *)
(* number of commands.  Each theorem is about one of two specifications:   *)
(* Spec of Rotation (keys and passwords) or TunnelSpec of Tunnels.  A      *)
(* theorem names the faults it excludes; the README shows that each one is *)
(* excluded for a reason.                                                  *)
(***************************************************************************)
EXTENDS Rotation, Tunnels, TLAPS

-----------------------------------------------------------------------------
(***************************************************************************)
(* Rotation.                                                               *)
(***************************************************************************)
(* What a rotation under way carries; a process that is down runs none.    *)
ArgInv ==
  /\ \A h \in Handler :
       /\ pc[h] \in KeySteps => arg[h] \in Key
       /\ pc[h] \in PassSteps => arg[h] \in Password
  /\ ~ up => \A h \in Handler : pc[h] = "idle"

(* One rotation of the key at a time: from SetLive on the old key is not   *)
(* promised any more, and the copies behind the handler hold the new one,  *)
(* but for a wg-quick file that was cut off and has no line to replace.    *)
KeyInv ==
  /\ \A g, h \in Handler :
       pc[g] \in KeySteps /\ pc[h] \in KeySteps => g = h
  /\ \A h \in Handler :
       /\ pc[h] \in KeySteps \ {"set"} => told = None /\ live = arg[h]
       /\ pc[h] \in {"read", "write", "reply"} => cred = arg[h]
       /\ pc[h] = "write" => saw[h] = conf
       /\ pc[h] = "reply" => conf \in {arg[h], Torn}

(* One rotation of the password at a time: once the server has the new one *)
(* the old one is not promised any more, and the new one not yet.          *)
PassInv ==
  /\ \A g, h \in Handler :
       pc[g] \in PassSteps /\ pc[h] \in PassSteps => g = h
  /\ \A h \in Handler :
       pc[h] \in {"secret", "url"} => server = arg[h] /\ answered = None

-----------------------------------------------------------------------------
(***************************************************************************)
(* Tunnels.                                                                *)
(***************************************************************************)
(* What a setup under way carries.                                         *)
SetupInv ==
  \A h \in Handler :
    pc[h] \in {"open", "write", "up", "sync"} => params[h] \in Params

(* One command at a time on a tunnel, whose answer is withdrawn; what the  *)
(* setup has written stays until it brings the interface up.               *)
TunnelInv ==
  /\ \A g, h \in Handler :
       pc[g] # "idle" /\ pc[h] # "idle" /\ tunnel[g] = tunnel[h] => g = h
  /\ \A h \in Handler :
       /\ pc[h] # "idle" => answer[tunnel[h]] = None
       /\ pc[h] \in {"up", "sync"} =>
            file[Name(h)] = <<tunnel[h], params[h]>>

(* Without a wg-quick that fails to take an interface down: one whose file *)
(* is about to be removed, or whose removal was answered, is not there.    *)
DownInv ==
  /\ \A h \in Handler : pc[h] = "remove" => iface[Name(h)] = None
  /\ \A t \in Tunnel : answer[t] = "gone" => iface[IfaceOf[t]] = None

-----------------------------------------------------------------------------
(***************************************************************************)
(* Proofs: rotation.                                                       *)
(***************************************************************************)
(* Every step keeps the types, whatever fails and overlaps.                *)
LEMMA RotationStep ==
  ASSUME TypeOK, ArgInv, [Next]_vars
  PROVE  TypeOK' /\ ArgInv'
<1> USE RotationAssumption
    DEF TypeOK, ArgInv, KeySteps, PassSteps, keyVars, passVars, agentVars
<1>1. ASSUME NEW h \in Handler, NEW k \in Key, BeginKey(h, k)
      PROVE  TypeOK' /\ ArgInv'
  BY <1>1 DEF BeginKey, MayStart, Goto
<1>2. ASSUME NEW h \in Handler, BeginPassword(h)
      PROVE  TypeOK' /\ ArgInv'
  BY <1>2 DEF BeginPassword, MayStart, Goto
<1>3. ASSUME NEW h \in Handler, SetLive(h)
      PROVE  TypeOK' /\ ArgInv'
  BY <1>3 DEF SetLive, Goto
<1>4. ASSUME NEW h \in Handler, SetFails(h)
      PROVE  TypeOK' /\ ArgInv'
  BY <1>4 DEF SetFails, Return, Goto
<1>5. ASSUME NEW h \in Handler, WriteCred(h)
      PROVE  TypeOK' /\ ArgInv'
  BY <1>5 DEF WriteCred, Outcomes, Goto
<1>6. ASSUME NEW h \in Handler, ReadConf(h)
      PROVE  TypeOK' /\ ArgInv'
  BY <1>6 DEF ReadConf, Goto
<1>7. ASSUME NEW h \in Handler, WriteConf(h)
      PROVE  TypeOK' /\ ArgInv'
  BY <1>7 DEF WriteConf, Outcomes, Edited, Goto
<1>8. ASSUME NEW h \in Handler, ReplyKey(h)
      PROVE  TypeOK' /\ ArgInv'
  BY <1>8 DEF ReplyKey, Return, Goto
<1>9. ASSUME NEW h \in Handler, Alter(h)
      PROVE  TypeOK' /\ ArgInv'
  BY <1>9 DEF Alter, Goto
<1>10. ASSUME NEW h \in Handler, AlterFails(h)
       PROVE  TypeOK' /\ ArgInv'
  BY <1>10 DEF AlterFails, Return, Goto
<1>11. ASSUME NEW h \in Handler, Cancel(h)
       PROVE  TypeOK' /\ ArgInv'
  BY <1>11 DEF Cancel, CarriedOut, Return, Goto
<1>12. ASSUME NEW h \in Handler, StoreSecret(h)
       PROVE  TypeOK' /\ ArgInv'
  BY <1>12 DEF StoreSecret, Return, Goto
<1>13. ASSUME NEW h \in Handler, StoreUrl(h)
       PROVE  TypeOK' /\ ArgInv'
  BY <1>13 DEF StoreUrl, Outcomes, Return, Goto
<1>14. CASE ConnectionsEnd
  BY <1>14 DEF ConnectionsEnd
<1>15. CASE PgCheck
  BY <1>15 DEF PgCheck, Reaches
<1>16. CASE Stop
  <2>1. conf' \in Key \cup {Torn} /\ cred' \in Key \cup {Torn}
    BY <1>16 DEF Stop
  <2>2. live' \in Key \cup {None}
    BY <1>16, <2>1 DEF Stop
  <2>3. /\ server' \in Password /\ url' \in Password \cup {Torn}
        /\ answered' \in Password \cup {None}
    BY <1>16 DEF Stop, CarriedOut, At
  <2>4. TypeOK'
    BY <1>16, <2>1, <2>2, <2>3 DEF Stop, AllIdle
  <2>5. ArgInv'
    BY <1>16 DEF Stop, AllIdle
  <2> QED BY <2>4, <2>5
<1>17. CASE Start
  BY <1>17 DEF Start
<1>18. CASE UNCHANGED vars
  BY <1>18 DEF vars
<1> QED BY <1>1, <1>2, <1>3, <1>4, <1>5, <1>6, <1>7, <1>8, <1>9, <1>10, <1>11,
    <1>12, <1>13, <1>14, <1>15, <1>16, <1>17, <1>18 DEF Next, Step

(* Keys, passwords and files hold what their names say, with every failure *)
(* and any overlap of the commands.                                        *)
THEOREM RotationTypes ==
  Spec => []TypeOK
<1>1. Init => TypeOK /\ ArgInv
  BY RotationAssumption
  DEF Init, TypeOK, ArgInv, KeySteps, PassSteps, AllIdle
<1>2. TypeOK /\ ArgInv /\ [Next]_vars => (TypeOK /\ ArgInv)'
  BY RotationStep
<1> QED BY <1>1, <1>2, PTL DEF Spec

(* Every step keeps the rotation of the key in order.                      *)
LEMMA KeyStep ==
  ASSUME ~ Overlap, ~ Fails("keyfile"),
         TypeOK, ArgInv, KeyInv, PskIsAnswered, [Next]_vars
  PROVE  KeyInv' /\ PskIsAnswered'
<1> USE RotationAssumption
    DEF TypeOK, ArgInv, KeyInv, PskIsAnswered, KeySteps, PassSteps,
        keyVars, passVars, agentVars
<1>1. ASSUME NEW h \in Handler, NEW k \in Key, BeginKey(h, k)
      PROVE  KeyInv' /\ PskIsAnswered'
  BY <1>1 DEF BeginKey, MayStart, Goto
<1>2. ASSUME NEW h \in Handler, BeginPassword(h)
      PROVE  KeyInv' /\ PskIsAnswered'
  BY <1>2 DEF BeginPassword, MayStart, Goto
<1>3. ASSUME NEW h \in Handler, SetLive(h)
      PROVE  KeyInv' /\ PskIsAnswered'
  BY <1>3 DEF SetLive, Goto
<1>4. ASSUME NEW h \in Handler, SetFails(h)
      PROVE  KeyInv' /\ PskIsAnswered'
  BY <1>4 DEF SetFails, Return, Goto
<1>5. ASSUME NEW h \in Handler, WriteCred(h)
      PROVE  KeyInv' /\ PskIsAnswered'
  BY <1>5 DEF WriteCred, Outcomes, Goto
<1>6. ASSUME NEW h \in Handler, ReadConf(h)
      PROVE  KeyInv' /\ PskIsAnswered'
  BY <1>6 DEF ReadConf, Goto, At
<1>7. ASSUME NEW h \in Handler, WriteConf(h)
      PROVE  KeyInv' /\ PskIsAnswered'
  BY <1>7 DEF WriteConf, Outcomes, Edited, Goto
<1>8. ASSUME NEW h \in Handler, ReplyKey(h)
      PROVE  KeyInv' /\ PskIsAnswered'
  BY <1>8 DEF ReplyKey, Return, Goto
<1>9. ASSUME NEW h \in Handler, Alter(h)
      PROVE  KeyInv' /\ PskIsAnswered'
  BY <1>9 DEF Alter, Goto
<1>10. ASSUME NEW h \in Handler, AlterFails(h)
       PROVE  KeyInv' /\ PskIsAnswered'
  BY <1>10 DEF AlterFails, Return, Goto
<1>11. ASSUME NEW h \in Handler, Cancel(h)
       PROVE  KeyInv' /\ PskIsAnswered'
  BY <1>11 DEF Cancel, Return, Goto
<1>12. ASSUME NEW h \in Handler, StoreSecret(h)
       PROVE  KeyInv' /\ PskIsAnswered'
  BY <1>12 DEF StoreSecret, Return, Goto
<1>13. ASSUME NEW h \in Handler, StoreUrl(h)
       PROVE  KeyInv' /\ PskIsAnswered'
  BY <1>13 DEF StoreUrl, Outcomes, Return, Goto
<1>14. CASE ConnectionsEnd
  BY <1>14 DEF ConnectionsEnd
<1>15. CASE PgCheck
  BY <1>15 DEF PgCheck
<1>16. CASE Stop
  BY <1>16 DEF Stop, At, AllIdle
<1>17. CASE Start
  BY <1>17 DEF Start
<1>18. CASE UNCHANGED vars
  BY <1>18 DEF vars
<1> QED BY <1>1, <1>2, <1>3, <1>4, <1>5, <1>6, <1>7, <1>8, <1>9, <1>10, <1>11,
    <1>12, <1>13, <1>14, <1>15, <1>16, <1>17, <1>18 DEF Next, Step

(* A preshared key that was answered and not rotated since is in force and *)
(* in both files, wherever the process or the machine was stopped (a       *)
(* wg-quick file cut off by that aside), when rotations do not overlap and *)
(* files can be written.                                                   *)
THEOREM AnsweredKeyIsEverywhere ==
  ASSUME ~ Overlap, ~ Fails("keyfile")
  PROVE  Spec => []PskIsAnswered
<1> DEFINE Inv == TypeOK /\ ArgInv /\ KeyInv /\ PskIsAnswered
<1>1. Init => Inv
  BY RotationAssumption
  DEF Init, TypeOK, ArgInv, KeyInv, PskIsAnswered, KeySteps, PassSteps,
      AllIdle
<1>2. Inv /\ [Next]_vars => Inv'
  BY RotationStep, KeyStep
<1>3. Inv => PskIsAnswered
  OBVIOUS
<1> QED BY <1>1, <1>2, <1>3, PTL DEF Spec

(* Every step keeps the rotation of the password in order.                 *)
LEMMA PassStep ==
  ASSUME ~ Overlap, ~ Fails("urlfile"),
         TypeOK, ArgInv, PassInv, PasswordIsAnswered, [Next]_vars
  PROVE  PassInv' /\ PasswordIsAnswered'
<1> USE RotationAssumption
    DEF TypeOK, ArgInv, PassInv, PasswordIsAnswered, KeySteps, PassSteps,
        keyVars, passVars, agentVars
<1>1. ASSUME NEW h \in Handler, NEW k \in Key, BeginKey(h, k)
      PROVE  PassInv' /\ PasswordIsAnswered'
  BY <1>1 DEF BeginKey, MayStart, Goto
<1>2. ASSUME NEW h \in Handler, BeginPassword(h)
      PROVE  PassInv' /\ PasswordIsAnswered'
  BY <1>2 DEF BeginPassword, MayStart, Goto
<1>3. ASSUME NEW h \in Handler, SetLive(h)
      PROVE  PassInv' /\ PasswordIsAnswered'
  BY <1>3 DEF SetLive, Goto
<1>4. ASSUME NEW h \in Handler, SetFails(h)
      PROVE  PassInv' /\ PasswordIsAnswered'
  BY <1>4 DEF SetFails, Return, Goto
<1>5. ASSUME NEW h \in Handler, WriteCred(h)
      PROVE  PassInv' /\ PasswordIsAnswered'
  BY <1>5 DEF WriteCred, Outcomes, Goto
<1>6. ASSUME NEW h \in Handler, ReadConf(h)
      PROVE  PassInv' /\ PasswordIsAnswered'
  BY <1>6 DEF ReadConf, Goto
<1>7. ASSUME NEW h \in Handler, WriteConf(h)
      PROVE  PassInv' /\ PasswordIsAnswered'
  BY <1>7 DEF WriteConf, Outcomes, Edited, Goto
<1>8. ASSUME NEW h \in Handler, ReplyKey(h)
      PROVE  PassInv' /\ PasswordIsAnswered'
  BY <1>8 DEF ReplyKey, Return, Goto
<1>9. ASSUME NEW h \in Handler, Alter(h)
      PROVE  PassInv' /\ PasswordIsAnswered'
  BY <1>9 DEF Alter, Goto
<1>10. ASSUME NEW h \in Handler, AlterFails(h)
       PROVE  PassInv' /\ PasswordIsAnswered'
  BY <1>10 DEF AlterFails, Return, Goto
<1>11. ASSUME NEW h \in Handler, Cancel(h)
       PROVE  PassInv' /\ PasswordIsAnswered'
  BY <1>11 DEF Cancel, CarriedOut, Return, Goto
<1>12. ASSUME NEW h \in Handler, StoreSecret(h)
       PROVE  PassInv' /\ PasswordIsAnswered'
  BY <1>12 DEF StoreSecret, Return, Goto
<1>13. ASSUME NEW h \in Handler, StoreUrl(h)
       PROVE  PassInv' /\ PasswordIsAnswered'
  BY <1>13 DEF StoreUrl, Outcomes, Return, Goto
<1>14. CASE ConnectionsEnd
  BY <1>14 DEF ConnectionsEnd
<1>15. CASE PgCheck
  BY <1>15 DEF PgCheck
<1>16. CASE Stop
  BY <1>16 DEF Stop, CarriedOut, At, AllIdle
<1>17. CASE Start
  BY <1>17 DEF Start
<1>18. CASE UNCHANGED vars
  BY <1>18 DEF vars
<1> QED BY <1>1, <1>2, <1>3, <1>4, <1>5, <1>6, <1>7, <1>8, <1>9, <1>10, <1>11,
    <1>12, <1>13, <1>14, <1>15, <1>16, <1>17, <1>18 DEF Next, Step

(* A password that was answered is the server's and the one the next start *)
(* is given, until another may have taken effect: wherever the process was *)
(* stopped, a client went away or podman failed, when rotations do not     *)
(* overlap and the URL file can be written.                                *)
THEOREM AnsweredPasswordConnects ==
  ASSUME ~ Overlap, ~ Fails("urlfile")
  PROVE  Spec => []PasswordIsAnswered
<1> DEFINE Inv == TypeOK /\ ArgInv /\ PassInv /\ PasswordIsAnswered
<1>1. Init => Inv
  BY RotationAssumption
  DEF Init, TypeOK, ArgInv, PassInv, PasswordIsAnswered, KeySteps, PassSteps,
      AllIdle
<1>2. Inv /\ [Next]_vars => Inv'
  BY RotationStep, PassStep
<1>3. Inv => PasswordIsAnswered
  OBVIOUS
<1> QED BY <1>1, <1>2, <1>3, PTL DEF Spec

-----------------------------------------------------------------------------
(***************************************************************************)
(* Proofs: tunnels.                                                        *)
(***************************************************************************)
(* Every step keeps the types, whatever fails and overlaps.                *)
LEMMA TunnelTypeStep ==
  ASSUME TunnelTypeOK, SetupInv, [TunnelNext]_tunnelVars
  PROVE  TunnelTypeOK' /\ SetupInv'
<1>0. AnyTunnel \in Tunnel
  BY TunnelsAssumption DEF AnyTunnel
<1> USE <1>0, TunnelsAssumption DEF TunnelTypeOK, SetupInv
<1>1. ASSUME NEW h \in Handler, NEW t \in Tunnel, NEW p \in Params,
             BeginSetup(h, t, p)
      PROVE  TunnelTypeOK' /\ SetupInv'
  BY <1>1 DEF BeginSetup, Begin, Goto
<1>2. ASSUME NEW h \in Handler, NEW t \in Tunnel, BeginTeardown(h, t)
      PROVE  TunnelTypeOK' /\ SetupInv'
  BY <1>2 DEF BeginTeardown, Begin, Goto
<1>3. ASSUME NEW h \in Handler, OpenFile(h)
      PROVE  TunnelTypeOK' /\ SetupInv'
  BY <1>3 DEF OpenFile, Continue, Goto, Name
<1>4. ASSUME NEW h \in Handler, WriteFile(h)
      PROVE  TunnelTypeOK' /\ SetupInv'
  BY <1>4 DEF WriteFile, Continue, Goto, Name, Contents
<1>5. ASSUME NEW h \in Handler, FileFails(h)
      PROVE  TunnelTypeOK' /\ SetupInv'
  BY <1>5 DEF FileFails, Finish, Goto
<1>6. ASSUME NEW h \in Handler, BringUp(h)
      PROVE  TunnelTypeOK' /\ SetupInv'
  BY <1>6 DEF BringUp, CanUp, Answer, Finish, Goto, Name, Contents
<1>7. ASSUME NEW h \in Handler, UpFails(h)
      PROVE  TunnelTypeOK' /\ SetupInv'
  BY <1>7 DEF UpFails, Continue, Goto
<1>8. ASSUME NEW h \in Handler, Sync(h)
      PROVE  TunnelTypeOK' /\ SetupInv'
  BY <1>8 DEF Sync, CanSync, Answer, Finish, Goto, Name, Contents
<1>9. ASSUME NEW h \in Handler, SyncFails(h)
      PROVE  TunnelTypeOK' /\ SetupInv'
  BY <1>9 DEF SyncFails, Finish, Goto
<1>10. ASSUME NEW h \in Handler, BringDown(h)
       PROVE  TunnelTypeOK' /\ SetupInv'
  BY <1>10 DEF BringDown, Continue, Goto, Name
<1>11. ASSUME NEW h \in Handler, RemoveFile(h)
       PROVE  TunnelTypeOK' /\ SetupInv'
  BY <1>11 DEF RemoveFile, Answer, Finish, Goto, Name
<1>12. ASSUME NEW p \in Peer, AddPeer(p)
       PROVE  TunnelTypeOK' /\ SetupInv'
  BY <1>12 DEF AddPeer
<1>13. ASSUME NEW p \in Peer, RemovePeer(p)
       PROVE  TunnelTypeOK' /\ SetupInv'
  BY <1>13 DEF RemovePeer
<1>14. CASE Die
  BY <1>14 DEF Die, AllIdle
<1>15. CASE Reboot
  BY <1>15 DEF Reboot, AllIdle
<1>16. CASE UNCHANGED tunnelVars
  BY <1>16 DEF tunnelVars
<1> QED BY <1>1, <1>2, <1>3, <1>4, <1>5, <1>6, <1>7, <1>8, <1>9, <1>10, <1>11,
    <1>12, <1>13, <1>14, <1>15, <1>16 DEF TunnelNext, TunnelStep

(* A new process has no command under way.                                 *)
LEMMA TunnelsStart ==
  ASSUME TunnelInit
  PROVE  TunnelTypeOK /\ SetupInv /\ TunnelInv /\ DownInv
BY TunnelsAssumption
DEF TunnelInit, NoCommands, AllIdle, AnyTunnel, TunnelTypeOK, SetupInv,
    TunnelInv, DownInv, Name

(* Files, interfaces and answers hold what their names say, with every     *)
(* failure and any overlap of the commands.                                *)
THEOREM TunnelTypes ==
  TunnelSpec => []TunnelTypeOK
<1>1. TunnelTypeOK /\ SetupInv /\ [TunnelNext]_tunnelVars
        => (TunnelTypeOK /\ SetupInv)'
  BY TunnelTypeStep
<1> QED BY TunnelsStart, <1>1, PTL DEF TunnelSpec

(* The first eight characters tell the tunnels apart.                      *)
NamesDiffer ==
  \A s, t \in Tunnel : IfaceOf[s] = IfaceOf[t] => s = t

(* Every step of a command on one tunnel leaves the others' alone.         *)
LEMMA AnsweredStep ==
  ASSUME ~ Overlap, NamesDiffer,
         TunnelTypeOK, SetupInv, TunnelInv, TunnelIsAnswered,
         [TunnelNext]_tunnelVars
  PROVE  TunnelInv' /\ TunnelIsAnswered'
<1>0. AnyTunnel \in Tunnel
  BY TunnelsAssumption DEF AnyTunnel
<1> USE <1>0, TunnelsAssumption
    DEF NamesDiffer, TunnelTypeOK, SetupInv, TunnelInv, TunnelIsAnswered, Name
<1>1. ASSUME NEW h \in Handler, NEW t \in Tunnel, NEW p \in Params,
             BeginSetup(h, t, p)
      PROVE  TunnelInv' /\ TunnelIsAnswered'
  BY <1>1 DEF BeginSetup, Begin, Goto
<1>2. ASSUME NEW h \in Handler, NEW t \in Tunnel, BeginTeardown(h, t)
      PROVE  TunnelInv' /\ TunnelIsAnswered'
  BY <1>2 DEF BeginTeardown, Begin, Goto
<1>3. ASSUME NEW h \in Handler, OpenFile(h)
      PROVE  TunnelInv' /\ TunnelIsAnswered'
  BY <1>3 DEF OpenFile, Continue, Goto
<1>4. ASSUME NEW h \in Handler, WriteFile(h)
      PROVE  TunnelInv' /\ TunnelIsAnswered'
  BY <1>4 DEF WriteFile, Continue, Goto
<1>5. ASSUME NEW h \in Handler, FileFails(h)
      PROVE  TunnelInv' /\ TunnelIsAnswered'
  BY <1>5 DEF FileFails, Finish, Goto
<1>6. ASSUME NEW h \in Handler, BringUp(h)
      PROVE  TunnelInv' /\ TunnelIsAnswered'
  BY <1>6 DEF BringUp, CanUp, Answer, Finish, Goto
<1>7. ASSUME NEW h \in Handler, UpFails(h)
      PROVE  TunnelInv' /\ TunnelIsAnswered'
  BY <1>7 DEF UpFails, Continue, Goto
<1>8. ASSUME NEW h \in Handler, Sync(h)
      PROVE  TunnelInv' /\ TunnelIsAnswered'
  BY <1>8 DEF Sync, CanSync, Answer, Finish, Goto
<1>9. ASSUME NEW h \in Handler, SyncFails(h)
      PROVE  TunnelInv' /\ TunnelIsAnswered'
  BY <1>9 DEF SyncFails, Finish, Goto
<1>10. ASSUME NEW h \in Handler, BringDown(h)
       PROVE  TunnelInv' /\ TunnelIsAnswered'
  BY <1>10 DEF BringDown, Continue, Goto
<1>11. ASSUME NEW h \in Handler, RemoveFile(h)
       PROVE  TunnelInv' /\ TunnelIsAnswered'
  BY <1>11 DEF RemoveFile, Answer, Finish, Goto
<1>12. ASSUME NEW p \in Peer, AddPeer(p)
       PROVE  TunnelInv' /\ TunnelIsAnswered'
  BY <1>12 DEF AddPeer
<1>13. ASSUME NEW p \in Peer, RemovePeer(p)
       PROVE  TunnelInv' /\ TunnelIsAnswered'
  BY <1>13 DEF RemovePeer
<1>14. CASE Die
  BY <1>14 DEF Die, AllIdle
<1>15. CASE Reboot
  BY <1>15 DEF Reboot, AllIdle
<1>16. CASE UNCHANGED tunnelVars
  BY <1>16 DEF tunnelVars
<1> QED BY <1>1, <1>2, <1>3, <1>4, <1>5, <1>6, <1>7, <1>8, <1>9, <1>10, <1>11,
    <1>12, <1>13, <1>14, <1>15, <1>16 DEF TunnelNext, TunnelStep

(* A tunnel whose setup was answered has the interface and the file of     *)
(* that setup, whatever fails and whatever happens to other tunnels, if    *)
(* commands on one tunnel do not overlap and names do not collide.         *)
THEOREM AnsweredTunnelIsUp ==
  ASSUME ~ Overlap, NamesDiffer
  PROVE  TunnelSpec => []TunnelIsAnswered
<1> DEFINE Inv == /\ TunnelTypeOK /\ SetupInv
                  /\ TunnelInv /\ TunnelIsAnswered
<1>1. TunnelInit => Inv
  <2>1. TunnelInit => TunnelIsAnswered
    BY TunnelsAssumption DEF TunnelInit, TunnelIsAnswered
  <2> QED BY <2>1, TunnelsStart
<1>2. Inv /\ [TunnelNext]_tunnelVars => Inv'
  BY TunnelTypeStep, AnsweredStep
<1>3. Inv => TunnelIsAnswered
  OBVIOUS
<1> QED BY <1>1, <1>2, <1>3, PTL DEF TunnelSpec

(* Every step keeps torn-down interfaces down, if wg-quick takes down what *)
(* it finds a file for.                                                    *)
LEMMA DownStep ==
  ASSUME ~ Overlap, NamesDiffer, ~ Fails("down"),
         TunnelTypeOK, SetupInv, TunnelInv, DownInv, UpHasFile,
         [TunnelNext]_tunnelVars
  PROVE  DownInv' /\ UpHasFile'
<1>0. AnyTunnel \in Tunnel
  BY TunnelsAssumption DEF AnyTunnel
<1> USE <1>0, TunnelsAssumption
    DEF NamesDiffer, TunnelTypeOK, TunnelInv, DownInv, UpHasFile, Name
<1>1. ASSUME NEW h \in Handler, NEW t \in Tunnel, NEW p \in Params,
             BeginSetup(h, t, p)
      PROVE  DownInv' /\ UpHasFile'
  BY <1>1 DEF BeginSetup, Begin, Goto
<1>2. ASSUME NEW h \in Handler, NEW t \in Tunnel, BeginTeardown(h, t)
      PROVE  DownInv' /\ UpHasFile'
  BY <1>2 DEF BeginTeardown, Begin, Goto
<1>3. ASSUME NEW h \in Handler, OpenFile(h)
      PROVE  DownInv' /\ UpHasFile'
  BY <1>3, HandlersAssumption DEF OpenFile, Continue, Goto
<1>4. ASSUME NEW h \in Handler, WriteFile(h)
      PROVE  DownInv' /\ UpHasFile'
  BY <1>4 DEF WriteFile, Continue, Goto, SetupInv, Contents
<1>5. ASSUME NEW h \in Handler, FileFails(h)
      PROVE  DownInv' /\ UpHasFile'
  BY <1>5 DEF FileFails, Finish, Goto
<1>6. ASSUME NEW h \in Handler, BringUp(h)
      PROVE  DownInv' /\ UpHasFile'
  BY <1>6 DEF BringUp, CanUp, Answer, Finish, Goto
<1>7. ASSUME NEW h \in Handler, UpFails(h)
      PROVE  DownInv' /\ UpHasFile'
  BY <1>7 DEF UpFails, Continue, Goto
<1>8. ASSUME NEW h \in Handler, Sync(h)
      PROVE  DownInv' /\ UpHasFile'
  BY <1>8 DEF Sync, CanSync, Answer, Finish, Goto
<1>9. ASSUME NEW h \in Handler, SyncFails(h)
      PROVE  DownInv' /\ UpHasFile'
  BY <1>9 DEF SyncFails, Finish, Goto
<1>10. ASSUME NEW h \in Handler, BringDown(h)
       PROVE  DownInv' /\ UpHasFile'
  BY <1>10 DEF BringDown, Continue, Goto
<1>11. ASSUME NEW h \in Handler, RemoveFile(h)
       PROVE  DownInv' /\ UpHasFile'
  BY <1>11 DEF RemoveFile, Answer, Finish, Goto
<1>12. ASSUME NEW p \in Peer, AddPeer(p)
       PROVE  DownInv' /\ UpHasFile'
  BY <1>12 DEF AddPeer
<1>13. ASSUME NEW p \in Peer, RemovePeer(p)
       PROVE  DownInv' /\ UpHasFile'
  BY <1>13 DEF RemovePeer
<1>14. CASE Die
  BY <1>14 DEF Die, AllIdle
<1>15. CASE Reboot
  BY <1>15 DEF Reboot, AllIdle
<1>16. CASE UNCHANGED tunnelVars
  BY <1>16 DEF tunnelVars
<1> QED BY <1>1, <1>2, <1>3, <1>4, <1>5, <1>6, <1>7, <1>8, <1>9, <1>10, <1>11,
    <1>12, <1>13, <1>14, <1>15, <1>16 DEF TunnelNext, TunnelStep

(* All invariants of the tunnels together, under the same conditions and   *)
(* with a wg-quick that takes down what it is told to.                     *)
THEOREM TunnelInvariance ==
  ASSUME ~ Overlap, NamesDiffer, ~ Fails("down")
  PROVE  TunnelSpec => [](/\ TunnelTypeOK /\ SetupInv
                          /\ TunnelInv /\ TunnelIsAnswered
                          /\ DownInv /\ UpHasFile)
<1> DEFINE Inv == /\ TunnelTypeOK /\ SetupInv
                  /\ TunnelInv /\ TunnelIsAnswered
                  /\ DownInv /\ UpHasFile
<1>1. TunnelInit => Inv
  <2>1. TunnelInit => TunnelIsAnswered /\ UpHasFile
    BY TunnelsAssumption DEF TunnelInit, TunnelIsAnswered, UpHasFile
  <2> QED BY <2>1, TunnelsStart
<1>2. Inv /\ [TunnelNext]_tunnelVars => Inv'
  BY TunnelTypeStep, AnsweredStep, DownStep
<1> QED BY <1>1, <1>2, PTL DEF TunnelSpec

(* A tunnel answered as torn down is down.                                 *)
THEOREM GoneTunnelIsDown ==
  ASSUME ~ Overlap, NamesDiffer, ~ Fails("down")
  PROVE  TunnelSpec => []GoneIsDown
<1>1. DownInv => GoneIsDown
  BY TunnelsAssumption DEF DownInv, GoneIsDown, Contents
<1> QED BY TunnelInvariance, <1>1, PTL

(* No interface is up without the file a teardown needs to find.           *)
THEOREM InterfaceHasFile ==
  ASSUME ~ Overlap, NamesDiffer, ~ Fails("down")
  PROVE  TunnelSpec => []UpHasFile
BY TunnelInvariance, PTL

=============================================================================
