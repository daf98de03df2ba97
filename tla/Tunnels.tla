------------------------------ MODULE Tunnels -------------------------------
(***************************************************************************)
(* The WireGuard interfaces the agent manages for others                   *)
(* (src/handlers/wireguard.rs): data-plane tunnels between two servers,    *)
(* each with an interface and a configuration file named after the first   *)
(* eight characters of the tunnel's id, and the peers of the dashboard's   *)
(* own interface.                                                          *)
(*                                                                         *)
(* Commands run in parallel; every access to a file and every call of      *)
(* wg-quick or wg is a step, and the process may die between two steps.    *)
(* wg-quick is external: "up" wants a readable file and no interface yet,  *)
(* "down" wants the file to exist, whatever is in it.  A setup's           *)
(* parameters, keys included, are its Params; wg syncconf makes those of   *)
(* the file the interface's.  That wg-quick takes names of 15 characters   *)
(* at most, and a whole id makes one of 19, is left to its failures.       *)
(*                                                                         *)
(* Faults: "file" (it cannot be written), "up", "sync", "down" (wg-quick   *)
(* or wg fails although it could do its work), "remove".                   *)
(***************************************************************************)
EXTENDS Handlers

CONSTANTS
  Tunnel,       \* tunnel ids
  Params,       \* parameters of a setup command
  Iface,        \* interface names
  IfaceOf,      \* [Tunnel -> Iface]: wg-lynx-dp-, then eight characters
  Peer          \* public keys of the peers of wg-lynx-dash

Contents == Tunnel \X Params

ASSUME TunnelsAssumption ==
  /\ Tunnel # {}
  /\ IfaceOf \in [Tunnel -> Iface]
  /\ Torn \notin Contents /\ None \notin Contents
  /\ "gone" \notin Params /\ None \notin Params \cup {"gone"}

VARIABLES
  file,         \* per interface: its file in /etc/wireguard
  iface,        \* per interface: the contents it was last given, or None
  answer,       \* per tunnel: what was last answered and not undone since
  peers,        \* the peers of wg-lynx-dash
  tunnel, params    \* per handler: its command

tunnelVars == <<file, iface, answer, peers, pc, tunnel, params>>

AnyTunnel == CHOOSE t \in Tunnel : TRUE

NoCommands ==
  /\ pc = AllIdle
  /\ tunnel = [h \in Handler |-> AnyTunnel]
  /\ params = [h \in Handler |-> None]

TunnelInit ==
  /\ file = [i \in Iface |-> None]
  /\ iface = [i \in Iface |-> None]
  /\ answer = [t \in Tunnel |-> None]
  /\ peers = {}
  /\ NoCommands

-----------------------------------------------------------------------------
Name(h) == IfaceOf[tunnel[h]]

Continue(h, label) == Goto(h, label) /\ UNCHANGED <<tunnel, params>>

Finish(h) ==
  /\ Goto(h, "idle")
  /\ tunnel' = [tunnel EXCEPT ![h] = AnyTunnel]
  /\ params' = [params EXCEPT ![h] = None]

Answer(h, what) == answer' = [answer EXCEPT ![tunnel[h]] = what]

Begin(h, t, label) ==
  /\ pc[h] = "idle"
  /\ Overlap \/ \A g \in Handler : pc[g] # "idle" => tunnel[g] # t
  /\ Goto(h, label)
  /\ tunnel' = [tunnel EXCEPT ![h] = t]
  /\ answer' = [answer EXCEPT ![t] = None]

(* Defect: the parameters are wiped before they are written.               *)
BeginWiped(h, t, p) ==
  /\ Begin(h, t, "open")
  /\ UNCHANGED <<file, iface, peers, params>>

(* wg.data_plane.setup: the name is derived from the tunnel's id.          *)
BeginSetup(h, t, p) ==
  /\ Begin(h, t, "open")
  /\ params' = [params EXCEPT ![h] = p]
  /\ UNCHANGED <<file, iface, peers>>

(* OpenOptions: create, truncate.                                          *)
OpenFile(h) ==
  /\ pc[h] = "open"
  /\ file' = [file EXCEPT ![Name(h)] = Torn]
  /\ Continue(h, "write")
  /\ UNCHANGED <<iface, answer, peers>>

WriteFile(h) ==
  /\ pc[h] = "write"
  /\ file' = [file EXCEPT ![Name(h)] = <<tunnel[h], params[h]>>]
  /\ Continue(h, "up")
  /\ UNCHANGED <<iface, answer, peers>>

(* The file cannot be opened, or its contents not be written.              *)
FileFails(h) ==
  /\ Fails("file")
  /\ pc[h] \in {"open", "write"}
  /\ Finish(h)
  /\ UNCHANGED <<file, iface, answer, peers>>

CanUp(i) == iface[i] = None /\ file[i] \in Contents

(* wg-quick up                                                             *)
BringUp(h) ==
  /\ pc[h] = "up"
  /\ CanUp(Name(h))
  /\ iface' = [iface EXCEPT ![Name(h)] = file[Name(h)]]
  /\ Answer(h, params[h])
  /\ Finish(h)
  /\ UNCHANGED <<file, peers>>

UpFails(h) ==
  /\ pc[h] = "up"
  /\ Fails("up") \/ ~ CanUp(Name(h))
  /\ Continue(h, "sync")
  /\ UNCHANGED <<file, iface, answer, peers>>

CanSync(i) == iface[i] # None /\ file[i] \in Contents

(* Defect: an interface that exists is taken for set up.                   *)
SyncNothing(h) ==
  /\ pc[h] = "sync"
  /\ CanSync(Name(h))
  /\ Answer(h, params[h])
  /\ Finish(h)
  /\ UNCHANGED <<file, iface, peers>>

(* wg syncconf, for an interface that is there already.                    *)
Sync(h) ==
  /\ pc[h] = "sync"
  /\ CanSync(Name(h))
  /\ iface' = [iface EXCEPT ![Name(h)] = file[Name(h)]]
  /\ Answer(h, params[h])
  /\ Finish(h)
  /\ UNCHANGED <<file, peers>>

(* Both failed: the command does.                                          *)
SyncFails(h) ==
  /\ pc[h] = "sync"
  /\ Fails("sync") \/ ~ CanSync(Name(h))
  /\ Finish(h)
  /\ UNCHANGED <<file, iface, answer, peers>>

-----------------------------------------------------------------------------
(* wg.data_plane.teardown                                                  *)
BeginTeardown(h, t) ==
  /\ Begin(h, t, "down")
  /\ UNCHANGED <<file, iface, peers, params>>

(* Defect: the file goes first.                                            *)
RemoveThenDown(h) ==
  /\ pc[h] = "down"
  /\ file' = [file EXCEPT ![Name(h)] = None]
  /\ Continue(h, "remove")
  /\ UNCHANGED <<iface, answer, peers>>

(* wg-quick down, whose result is ignored.                                 *)
BringDown(h) ==
  /\ pc[h] = "down"
  /\ \E left \in {None} \cup (IF Fails("down") \/ file[Name(h)] = None
                                THEN {iface[Name(h)]} ELSE {}) :
       /\ file[Name(h)] = None => left = iface[Name(h)]
       /\ iface' = [iface EXCEPT ![Name(h)] = left]
  /\ Continue(h, "remove")
  /\ UNCHANGED <<file, answer, peers>>

(* remove_file, whose result is ignored too, and the answer: "ok".         *)
RemoveFile(h) ==
  /\ pc[h] = "remove"
  /\ file' \in {[file EXCEPT ![Name(h)] = None]}
                 \cup (IF Fails("remove") THEN {file} ELSE {})
  /\ Answer(h, "gone")
  /\ Finish(h)
  /\ UNCHANGED <<iface, peers>>

-----------------------------------------------------------------------------
(* wg.management.add_peer and remove_peer: one call of wg set each, which  *)
(* leaves no file behind; one that fails changes nothing.                  *)
AddPeer(p) ==
  /\ peers' = peers \cup {p}
  /\ UNCHANGED <<file, iface, answer, pc, tunnel, params>>

RemovePeer(p) ==
  /\ peers' = peers \ {p}
  /\ UNCHANGED <<file, iface, answer, pc, tunnel, params>>

(* The process dies; its commands are gone.                                *)
Die ==
  /\ pc' = AllIdle
  /\ tunnel' = [h \in Handler |-> AnyTunnel]
  /\ params' = [h \in Handler |-> None]
  /\ UNCHANGED <<file, iface, answer, peers>>

(* The machine reboots: no unit brings a data-plane interface up again,    *)
(* and the peers of wg-lynx-dash are those of the dashboard's own file.    *)
Reboot ==
  /\ pc' = AllIdle
  /\ tunnel' = [h \in Handler |-> AnyTunnel]
  /\ params' = [h \in Handler |-> None]
  /\ iface' = [i \in Iface |-> None]
  /\ answer' = [t \in Tunnel |-> IF answer[t] = "gone" THEN "gone" ELSE None]
  /\ peers' = {}
  /\ UNCHANGED file

TunnelStep(h) ==
  \/ OpenFile(h) \/ WriteFile(h) \/ FileFails(h)
  \/ BringUp(h) \/ UpFails(h) \/ Sync(h) \/ SyncFails(h)
  \/ BringDown(h) \/ RemoveFile(h)

TunnelNext ==
  \/ \E h \in Handler :
        \/ \E t \in Tunnel, p \in Params : BeginSetup(h, t, p)
        \/ \E t \in Tunnel : BeginTeardown(h, t)
        \/ TunnelStep(h)
  \/ \E p \in Peer : AddPeer(p) \/ RemovePeer(p)
  \/ Die
  \/ Reboot

TunnelSpec == TunnelInit /\ [][TunnelNext]_tunnelVars

-----------------------------------------------------------------------------
TunnelTypeOK ==
  /\ file \in [Iface -> Contents \cup {Torn, None}]
  /\ iface \in [Iface -> Contents \cup {None}]
  /\ answer \in [Tunnel -> Params \cup {"gone", None}]
  /\ peers \subseteq Peer
  /\ pc \in [Handler ->
        {"idle", "open", "write", "up", "sync", "down", "remove"}]
  /\ tunnel \in [Handler -> Tunnel]
  /\ params \in [Handler -> Params \cup {None}]

(* A tunnel whose setup was answered, with no command on it since, has the *)
(* interface and the file with the parameters of that setup, whatever      *)
(* happens to other tunnels; the file is what a teardown needs to find.    *)
TunnelIsAnswered ==
  \A t \in Tunnel :
    answer[t] \in Params =>
      /\ iface[IfaceOf[t]] = <<t, answer[t]>>
      /\ file[IfaceOf[t]] = <<t, answer[t]>>

(* A tunnel answered as torn down has no interface, and no setup cut short *)
(* brings it back: traffic of a tunnel that was removed does not go on.    *)
GoneIsDown ==
  \A t \in Tunnel :
    answer[t] = "gone" => iface[IfaceOf[t]] \notin {t} \X Params

(* wg-quick takes down only what it finds a file for: an interface that    *)
(* has lost its file stays up until a reboot, while every teardown is      *)
(* answered "ok".  Setups and teardowns cut short anywhere leave none.     *)
UpHasFile == \A i \in Iface : iface[i] # None => file[i] # None

=============================================================================
