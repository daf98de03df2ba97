---------------------------- MODULE NftablesProofs ----------------------------
(***************************************************************************)
(* Proofs about module Nftables, for any number of commands, chains,       *)
(* bodies and ports.  With every failure, and commands and checks that     *)
(* overlap: the emergency ruleset means lockdown.  One at a time and       *)
(* without failures, but with crashes, reboots and changes of the table:   *)
(* the rows, the last ruleset, the boot file and the table agree.          *)
(***************************************************************************)
EXTENDS Nftables, TLAPS

(* An agent that is not locked and runs with the emergency ruleset has had *)
(* it since its start: it has no baseline, and whoever is about to store   *)
(* one has measured nothing else.                                          *)
EmergencyInv ==
  /\ ~ up => \A a \in Actor : pc[a] = "idle"
  /\ up /\ live = Emergency /\ ~ locked /\ pc["checker"] \notin {"save", "locking"} =>
       /\ expected \in {None, Emergency}
       /\ \A a \in Actor : pc[a] = "baseline" => sum[a] = Emergency

(* Who runs what, and that one actor at a time does.                       *)
TurnInv ==
  /\ \A a, b \in Actor : pc[a] # "idle" /\ pc[b] # "idle" => a = b
  /\ ~ up => \A a \in Actor : pc[a] = "idle"
  /\ \A h \in Handler :
       pc[h] \notin {"compare", "diverged", "emergency", "save", "locking"}
  /\ pc["checker"] \notin {"render", "remember", "store"}
  /\ cmd["checker"] = NoCommand

(* Where no failure leads: without a policy, or to the emergency ruleset.  *)
PolicyInv ==
  /\ disk # Emergency
  /\ pc["checker"] \notin {"emergency", "save", "locking"}
  /\ up => last # None /\ live \notin {Absent, Emergency}

RowsAgree == \A c, d \in Chain : dbPort[c] = dbPort[d]

Editing(h) == pc[h] # "idle" /\ cmd[h].kind \in {"chain", "port"}

(* What h has changed in memory and will change in the rows.               *)
Pending(h) ==
  \/ /\ cmd[h].kind = "chain"
     /\ body = [dbBody EXCEPT ![cmd[h].chain] = cmd[h].body]
     /\ port = dbPort[LastChain]
  \/ /\ cmd[h].kind = "port"
     /\ body = dbBody
     /\ port = cmd[h].port

(* A command under way: memory is ahead of the rows by its change, then    *)
(* the table and the boot file are, then the last ruleset.                 *)
EditInv ==
  \A h \in Handler : Editing(h) =>
    /\ Pending(h)
    /\ pc[h] \in {"render", "apply", "persist", "measure", "baseline",
                 "remember", "store"}
    /\ pc[h] # "render" => script[h] = Rendered
    /\ pc[h] \notin {"render", "apply"} => live \in {Rendered} \cup Changed
    /\ pc[h] \notin {"render", "apply", "persist"} =>
         disk = Rendered \/ Fails("disk")
    /\ pc[h] = "store" => last = Rendered

(* Nobody edits: memory and rows, table and boot file agree.               *)
RestInv ==
  up /\ (\A h \in Handler : ~ Editing(h)) =>
    /\ body = dbBody /\ port = dbPort[LastChain]
    /\ last \in {Stored, Empty}
    /\ last = Stored => live \in {Stored} \cup Changed
    /\ disk \in {Stored, Empty} \/ Fails("disk")

(* Restores re-apply the last ruleset, and accept forgets it.              *)
RestoreInv ==
  /\ \A a \in Actor :
       pc[a] \in {"apply", "persist"} /\ cmd[a].kind \in {"restore", "none"}
         => script[a] = last
  /\ \A h \in Handler :
       /\ pc[h] \in {"render", "store"} => Editing(h)
       /\ pc[h] = "remember" => Editing(h) \/ cmd[h].kind = "accept"
       /\ cmd[h].kind = "accept" =>
            script[h] = Empty /\ pc[h] \notin {"apply", "persist"}

FirewallInv ==
  /\ TypeOK /\ TurnInv /\ PolicyInv
  /\ RowsAgree /\ EditInv /\ RestInv /\ RestoreInv

(***************************************************************************)
(* With every failure and overlap.                                         *)
(***************************************************************************)
(* Memory and the rows render to rulesets.                                 *)
LEMMA RenderedIsRuleset ==
  ASSUME TypeOK
  PROVE  /\ Rendered \in Ruleset
         /\ Stored \in Ruleset
BY NftAssumption DEF TypeOK, Rendered, Stored, Ruleset

(* Every step keeps the types.                                             *)
LEMMA TypeStep ==
  ASSUME TypeOK, [Next]_vars
  PROVE  TypeOK'
<1> USE NftAssumption
    DEF TypeOK, Actor, Command, NoCommand, dbVars, memVars, actorVars
<1>1. ASSUME NEW h \in Handler, NEW c \in Chain, NEW b \in Body,
             BeginChain(h, c, b)
      PROVE  TypeOK'
  BY <1>1 DEF BeginChain, Goto
<1>2. ASSUME NEW h \in Handler, NEW p \in Port, BeginPort(h, p)
      PROVE  TypeOK'
  BY <1>2 DEF BeginPort, Goto
<1>3. ASSUME NEW h \in Handler, BeginRestore(h)
      PROVE  TypeOK'
  BY <1>3 DEF BeginRestore, Goto
<1>4. ASSUME NEW h \in Handler, BeginAccept(h)
      PROVE  TypeOK'
  BY <1>4 DEF BeginAccept, Goto
<1>5. ASSUME NEW h \in Handler, ClosePort(h)
      PROVE  TypeOK'
  BY <1>5 DEF ClosePort, Changed
<1>6. ASSUME NEW h \in Handler, Render(h)
      PROVE  TypeOK'
  BY <1>6, RenderedIsRuleset DEF Render, Goto
<1>7. ASSUME NEW h \in Handler, Remember(h)
      PROVE  TypeOK'
  BY <1>7 DEF Remember, Goto, Return
<1>8. ASSUME NEW h \in Handler, StoreRows(h)
      PROVE  TypeOK'
  BY <1>8 DEF StoreRows, Return
<1>9. ASSUME NEW a \in Actor, Apply(a)
      PROVE  TypeOK'
  BY <1>9 DEF Apply, Loaded, Goto
<1>10. ASSUME NEW a \in Actor, Measure(a)
       PROVE  TypeOK'
  BY <1>10 DEF Measure, Goto
<1>11. ASSUME NEW a \in Actor, NftFails(a)
       PROVE  TypeOK'
  BY <1>11 DEF NftFails, Goto, Return
<1>12. ASSUME NEW a \in Actor, Baseline(a)
       PROVE  TypeOK'
  BY <1>12 DEF Baseline, Goto, Return
<1>13. CASE BeginCheck
  BY <1>13 DEF BeginCheck, Goto
<1>14. CASE CheckEnds
  BY <1>14 DEF CheckEnds, Return
<1>15. CASE CheckDiverges
  BY <1>15 DEF CheckDiverges, Goto
<1>16. CASE CheckRestores
  BY <1>16 DEF CheckRestores, Goto
<1>17. CASE ApplyEmergency
  BY <1>17 DEF ApplyEmergency, Goto
<1>18. CASE EnterLockdown
  BY <1>18 DEF EnterLockdown, Return
<1>19. CASE ExternalEdit
  BY <1>19 DEF ExternalEdit, Changed
<1>20. CASE Crash
  BY <1>20 DEF Crash, EmptyMemory, ForgetActors, Changed
<1>21. CASE Startup
  BY <1>21, RenderedIsRuleset DEF Startup, PersistScript
<1>22. CASE StartupWithoutRows
  BY <1>22 DEF StartupWithoutRows, EmptyMemory
<1>23. ASSUME NEW a \in Actor, Persist(a)
       PROVE  TypeOK'
  BY <1>23 DEF Persist, PersistScript, Goto
<1>24. CASE PersistEmergency
  BY <1>24 DEF PersistEmergency, PersistScript, Goto
<1>25. CASE StartupDies
  BY <1>25, RenderedIsRuleset DEF StartupDies
<1>26. CASE UNCHANGED vars
  BY <1>26 DEF vars
<1> QED
  BY <1>1, <1>2, <1>3, <1>4, <1>5, <1>6, <1>7, <1>8, <1>9, <1>10, <1>11,
     <1>12, <1>13, <1>14, <1>15, <1>16, <1>17, <1>18, <1>19, <1>20, <1>21,
     <1>22, <1>23, <1>24, <1>25, <1>26 DEF Next, CheckStep

(* The agent starts with types that are right.                             *)
LEMMA InitTypes == Init => TypeOK
<1>1. NoCommand \in Command
  BY DEF NoCommand, Command
<1>2. Init => /\ pc \in [Actor -> {"idle"}]
              /\ cmd \in [Actor -> Command]
              /\ script \in [Actor -> Ruleset \cup {Empty}]
              /\ sum \in [Actor -> Ruleset \cup Changed \cup {None, Emergency}]
  BY <1>1 DEF Init, NoActors
<1>3. Init => dbBody \in [Chain -> Body] /\ dbPort \in [Chain -> Port]
              /\ body \in [Chain -> Body] /\ edits \in 0 .. MaxEdits
  BY NftAssumption DEF Init
<1> QED
  BY <1>2, <1>3, NftAssumption DEF Init, TypeOK

(* Type correctness of the firewall state (src/nftables/mod.rs).           *)
THEOREM FirewallTypes == Spec => []TypeOK
BY InitTypes, TypeStep, PTL DEF Spec

(* The emergency ruleset comes into force in one place, which locks the    *)
(* agent; a crash may leave it there, for a start that finds no baseline.  *)
LEMMA EmergencyStep ==
  ASSUME TypeOK, EmergencyInv, [Next]_vars
  PROVE  EmergencyInv'
<1> USE NftAssumption
    DEF TypeOK, EmergencyInv, Actor, Changed, Special, dbVars, memVars, actorVars
<1>1. ASSUME NEW h \in Handler, NEW c \in Chain, NEW b \in Body,
             BeginChain(h, c, b)
      PROVE  EmergencyInv'
  BY <1>1 DEF BeginChain, MayStart, Goto
<1>2. ASSUME NEW h \in Handler, NEW p \in Port, BeginPort(h, p)
      PROVE  EmergencyInv'
  BY <1>2 DEF BeginPort, MayStart, Goto
<1>3. ASSUME NEW h \in Handler, BeginRestore(h)
      PROVE  EmergencyInv'
  BY <1>3 DEF BeginRestore, MayStart, Goto
<1>4. ASSUME NEW h \in Handler, BeginAccept(h)
      PROVE  EmergencyInv'
  BY <1>4 DEF BeginAccept, MayStart, Goto
<1>5. ASSUME NEW h \in Handler, ClosePort(h)
      PROVE  EmergencyInv'
  BY <1>5 DEF ClosePort
<1>6. ASSUME NEW h \in Handler, Render(h)
      PROVE  EmergencyInv'
  BY <1>6 DEF Render, Goto
<1>7. ASSUME NEW h \in Handler, Remember(h)
      PROVE  EmergencyInv'
  BY <1>7 DEF Remember, Goto, Return
<1>8. ASSUME NEW h \in Handler, StoreRows(h)
      PROVE  EmergencyInv'
  BY <1>8 DEF StoreRows, Return
<1>9. ASSUME NEW a \in Actor, Apply(a)
      PROVE  EmergencyInv'
  BY <1>9 DEF Apply, Loaded, Goto
<1>10. ASSUME NEW a \in Actor, Measure(a)
       PROVE  EmergencyInv'
  BY <1>10 DEF Measure, Goto
<1>11. ASSUME NEW a \in Actor, NftFails(a)
       PROVE  EmergencyInv'
  BY <1>11 DEF NftFails, Goto, Return
<1>12. ASSUME NEW a \in Actor, Baseline(a)
       PROVE  EmergencyInv'
  BY <1>12 DEF Baseline, Goto, Return
<1>13. CASE BeginCheck
  BY <1>13 DEF BeginCheck, MayStart, Goto
<1>14. CASE CheckEnds
  BY <1>14 DEF CheckEnds, Return
<1>15. CASE CheckDiverges
  BY <1>15 DEF CheckDiverges, Goto
<1>16. CASE CheckRestores
  BY <1>16 DEF CheckRestores, Goto
<1>17. CASE ApplyEmergency
  BY <1>17 DEF ApplyEmergency, Goto
<1>18. CASE EnterLockdown
  BY <1>18 DEF EnterLockdown, Return
<1>19. CASE ExternalEdit
  BY <1>19 DEF ExternalEdit
<1>20. CASE Crash
  BY <1>20 DEF Crash, ForgetActors
<1>21. CASE Startup
  <2>1. expected' # None => live' = Stored
    BY <1>21 DEF Startup
  <2>2. UNCHANGED <<pc, sum>> /\ up' /\ \A a \in Actor : pc[a] = "idle"
    BY <1>21 DEF Startup
  <2> QED
    BY <2>1, <2>2, RenderedIsRuleset
<1>22. CASE StartupWithoutRows
  BY <1>22 DEF StartupWithoutRows, EmptyMemory
<1>23. ASSUME NEW a \in Actor, Persist(a)
       PROVE  EmergencyInv'
  BY <1>23 DEF Persist, Goto
<1>24. CASE PersistEmergency
  BY <1>24 DEF PersistEmergency, Goto
<1>25. CASE StartupDies
  BY <1>25 DEF StartupDies
<1>26. CASE UNCHANGED vars
  BY <1>26 DEF vars
<1> QED
  BY <1>1, <1>2, <1>3, <1>4, <1>5, <1>6, <1>7, <1>8, <1>9, <1>10, <1>11,
     <1>12, <1>13, <1>14, <1>15, <1>16, <1>17, <1>18, <1>19, <1>20, <1>21,
     <1>22, <1>23, <1>24, <1>25, <1>26 DEF Next, CheckStep

(* Under the emergency ruleset the agent is locked or about to be, or has  *)
(* no policy to compare the table with, whatever fails, overlaps or        *)
(* crashes (src/nftables/divergence.rs).                                   *)
THEOREM EmergencyLocks == Spec => []EmergencyMeansLockdown
<1>1. Init => EmergencyInv
  BY DEF Init, NoActors, EmergencyInv
<1>2. TypeOK /\ EmergencyInv /\ [Next]_vars => EmergencyInv'
  BY EmergencyStep
<1>3. EmergencyInv => EmergencyMeansLockdown
  BY DEF EmergencyInv, EmergencyMeansLockdown
<1> QED
  BY <1>1, <1>2, <1>3, FirewallTypes, PTL DEF Spec

(***************************************************************************)
(* One command or check at a time, and no failure but of the boot file.    *)
(***************************************************************************)
(* Every step keeps the parts of the invariant.  Whoever acts is alone: a  *)
(* begin finds nobody editing, and every other step is the editor's own,   *)
(* the check's, or somebody's who changes the table or ends it all.        *)
LEMMA FirewallStep ==
  ASSUME FirewallInv, [Next]_vars, ~ Overlap, Faults \subseteq {"disk"}
  PROVE  FirewallInv'
<1> USE NftAssumption
    DEF FirewallInv, TurnInv, PolicyInv, RowsAgree, EditInv, RestInv, RestoreInv,
        TypeOK, Actor, Command, NoCommand, Special, Changed, Fails, Editing,
        Pending, Rendered, Stored, dbVars, memVars, actorVars
<1>0. TypeOK'
  BY TypeStep
<1>1. ASSUME NEW h \in Handler, NEW c \in Chain, NEW b \in Body,
             BeginChain(h, c, b)
      PROVE  FirewallInv'
  <2>1. up /\ (\A a \in Actor : pc[a] = "idle") /\ \A g \in Handler : ~ Editing(g)
    BY <1>1 DEF BeginChain, MayStart
  <2>2. /\ pc' = [pc EXCEPT ![h] = "render"]
        /\ cmd' = [cmd EXCEPT ![h] = [kind |-> "chain", chain |-> c, body |-> b]]
        /\ body' = [body EXCEPT ![c] = b]
        /\ UNCHANGED <<live, disk, dbBody, dbPort, up, port, last, script>>
    BY <1>1 DEF BeginChain, Goto
  <2>3. \A g \in Handler : Editing(g)' => g = h
    BY <2>1, <2>2
  <2>4. EditInv' /\ RestInv'
    <3>1. /\ cmd'[h] = [kind |-> "chain", chain |-> c, body |-> b]
          /\ pc'[h] = "render"
      BY <2>2
    <3>2. Pending(h)' /\ Editing(h)'
      BY <2>1, <2>2, <3>1
    <3> QED
      BY <2>2, <2>3, <3>1, <3>2
  <2>5. TurnInv' /\ PolicyInv' /\ RowsAgree' /\ RestoreInv'
    BY <2>1, <2>2
  <2> QED
    BY <1>0, <2>4, <2>5
<1>2. ASSUME NEW h \in Handler, NEW p \in Port, BeginPort(h, p)
      PROVE  FirewallInv'
  BY <1>0, <1>2 DEF BeginPort, MayStart, Goto
<1>3. ASSUME NEW h \in Handler, BeginRestore(h)
      PROVE  FirewallInv'
  BY <1>0, <1>3 DEF BeginRestore, MayStart, Goto
<1>4. ASSUME NEW h \in Handler, BeginAccept(h)
      PROVE  FirewallInv'
  BY <1>0, <1>4 DEF BeginAccept, MayStart, Goto
<1>5. ASSUME NEW h \in Handler, ClosePort(h)
      PROVE  FirewallInv'
  BY <1>0, <1>5 DEF ClosePort, MayStart
<1>6. ASSUME NEW h \in Handler, Render(h)
      PROVE  FirewallInv'
  BY <1>0, <1>6 DEF Render, Goto
<1>7. ASSUME NEW h \in Handler, Remember(h)
      PROVE  FirewallInv'
  BY <1>0, <1>7 DEF Remember, Goto, Return
<1>8. ASSUME NEW h \in Handler, StoreRows(h)
      PROVE  FirewallInv'
  BY <1>0, <1>8 DEF StoreRows, Return
<1>9. ASSUME NEW a \in Actor, Apply(a)
      PROVE  FirewallInv'
  <2>1. /\ pc[a] = "apply" /\ pc' = [pc EXCEPT ![a] = "persist"]
        /\ live' = Loaded(script[a])
        /\ UNCHANGED <<disk, dbBody, dbPort, body, port, last, cmd, script, up>>
    BY <1>9 DEF Apply, Goto
  <2>2. /\ \A h \in Handler : Editing(h)' <=> Editing(h)
        /\ \A h \in Handler : Editing(h) => h = a
    BY <2>1
  <2>3. Stored \in Ruleset /\ Rendered \in Ruleset
    BY RenderedIsRuleset
  <2>4. CASE a \in Handler /\ Editing(a)
    <3>1. Pending(a) /\ Pending(a)' /\ script[a] = Rendered
      BY <2>1, <2>4
    <3>2. live' = Rendered
      BY <2>1, <2>3, <3>1 DEF Loaded
    <3>3. EditInv' /\ RestInv'
      BY <2>1, <2>2, <2>4, <3>1, <3>2
    <3>4. TurnInv' /\ PolicyInv' /\ RowsAgree' /\ RestoreInv'
      BY <2>1, <2>3, <3>1, <3>2
    <3> QED
      BY <1>0, <3>3, <3>4
  <2>5. CASE \A h \in Handler : ~ Editing(h)
    <3>1. cmd[a].kind \in {"chain", "port", "restore", "accept", "none"}
      OBVIOUS
    <3>2. up /\ script[a] = last
      BY <2>1, <2>5, <3>1
    <3>3. /\ live' = live \/ live' = Stored
          /\ last = Stored => live' = Stored
      BY <2>1, <2>3, <2>5, <3>2 DEF Loaded
    <3>4. EditInv' /\ RestInv'
      BY <2>1, <2>2, <2>5, <3>2, <3>3
    <3>5. TurnInv' /\ PolicyInv' /\ RowsAgree' /\ RestoreInv'
      BY <2>1, <2>3, <3>2, <3>3
    <3> QED
      BY <1>0, <3>4, <3>5
  <2> QED
    BY <2>2, <2>4, <2>5
<1>10. ASSUME NEW a \in Actor, Measure(a)
      PROVE  FirewallInv'
  BY <1>0, <1>10 DEF Measure, Goto
<1>11. ASSUME NEW a \in Actor, NftFails(a)
      PROVE  FirewallInv'
  BY <1>0, <1>11 DEF NftFails, Goto, Return
<1>12. ASSUME NEW a \in Actor, Baseline(a)
      PROVE  FirewallInv'
  BY <1>0, <1>12 DEF Baseline, Goto, Return
<1>13. CASE BeginCheck
  BY <1>0, <1>13 DEF BeginCheck, MayStart, Goto
<1>14. CASE CheckEnds
  BY <1>0, <1>14 DEF CheckEnds, Return
<1>15. CASE CheckDiverges
  BY <1>0, <1>15 DEF CheckDiverges, Goto
<1>16. CASE CheckRestores
  BY <1>0, <1>16 DEF CheckRestores, Goto
<1>17. CASE ApplyEmergency
  BY <1>0, <1>17 DEF ApplyEmergency, Goto
<1>18. CASE EnterLockdown
  BY <1>0, <1>18 DEF EnterLockdown, Return
<1>19. CASE ExternalEdit
  BY <1>0, <1>19 DEF ExternalEdit
<1>20. CASE Crash
  BY <1>0, <1>20 DEF Crash, EmptyMemory, ForgetActors
<1>21. CASE Startup
  <2>1. /\ live' = Stored /\ PersistScript(Stored) /\ last' = Stored /\ up'
        /\ body' = dbBody /\ port' = dbPort[LastChain]
        /\ UNCHANGED <<dbBody, dbPort, pc, cmd, script, sum>>
    BY <1>21 DEF Startup
  <2>2. Stored \in Ruleset /\ Stored' = Stored
    BY <2>1, RenderedIsRuleset
  <2>3. disk' \in {Stored, disk} /\ (disk' = Stored \/ Fails("disk"))
    BY <2>1, <2>2 DEF PersistScript
  <2>4. \A a \in Actor : pc[a] = "idle"
    BY <1>21 DEF Startup
  <2>5. EditInv' /\ RestInv'
    BY <2>1, <2>2, <2>3, <2>4
  <2>6. TurnInv' /\ PolicyInv' /\ RowsAgree' /\ RestoreInv'
    BY <2>1, <2>2, <2>3, <2>4
  <2> QED
    BY <1>0, <2>5, <2>6
<1>22. CASE StartupWithoutRows
  BY <1>0, <1>22 DEF StartupWithoutRows, EmptyMemory
<1>23. ASSUME NEW a \in Actor, Persist(a)
       PROVE  FirewallInv'
  <2>1. /\ pc[a] = "persist" /\ pc' = [pc EXCEPT ![a] = "measure"]
        /\ disk' = script[a] \/ (disk' = disk /\ Fails("disk"))
        /\ UNCHANGED <<live, dbBody, dbPort, body, port, last, cmd, script, up>>
    BY <1>23 DEF Persist, PersistScript, Goto
  <2>2. /\ \A h \in Handler : Editing(h)' <=> Editing(h)
        /\ \A h \in Handler : Editing(h) => h = a
    BY <2>1
  <2>3. CASE a \in Handler /\ Editing(a)
    BY <1>0, <2>1, <2>2, <2>3, RenderedIsRuleset
  <2>4. CASE \A h \in Handler : ~ Editing(h)
    <3>1. cmd[a].kind \in {"chain", "port", "restore", "accept", "none"}
      OBVIOUS
    <3>2. up /\ script[a] = last
      BY <2>1, <2>4, <3>1
    <3> QED
      BY <1>0, <2>1, <2>2, <2>4, <3>2, RenderedIsRuleset
  <2> QED
    BY <2>2, <2>3, <2>4
<1>24. CASE PersistEmergency
  BY <1>24 DEF PersistEmergency
<1>25. CASE StartupDies
  BY <1>0, <1>25, RenderedIsRuleset DEF StartupDies
<1>26. CASE UNCHANGED vars
  BY <1>0, <1>26 DEF vars
<1> QED
  BY <1>1, <1>2, <1>3, <1>4, <1>5, <1>6, <1>7, <1>8, <1>9, <1>10, <1>11,
     <1>12, <1>13, <1>14, <1>15, <1>16, <1>17, <1>18, <1>19, <1>20, <1>21,
     <1>22, <1>23, <1>24, <1>25, <1>26 DEF Next, CheckStep

(* The inductive invariant of commands and checks one at a time, without   *)
(* failures of nft and the database.  Memory runs ahead of the rows while  *)
(* a command is under way, and a crash forgets memory and actors together, *)
(* so what is left is a row, a table and a file of some earlier command:   *)
(* the next start loads the row into the other two.                        *)
THEOREM FirewallInvariance ==
  ASSUME ~ Overlap, Faults \subseteq {"disk"}
  PROVE  Spec => []FirewallInv
<1>1. Init => FirewallInv
  <2>1. Init => TurnInv /\ PolicyInv /\ EditInv /\ RestInv /\ RestoreInv
    BY NftAssumption DEF Init, NoActors, NoCommand, Actor, TurnInv, PolicyInv,
           EditInv, RestInv, RestoreInv, Editing
  <2>2. Init => RowsAgree
    BY DEF Init, RowsAgree
  <2> QED
    BY <2>1, <2>2, InitTypes DEF FirewallInv
<1>2. FirewallInv /\ [Next]_vars => FirewallInv'
  BY FirewallStep
<1> QED
  BY <1>1, <1>2, PTL DEF Spec

(* Between commands the rows agree on the port and hold what the agent     *)
(* last applied, and the table is that unless someone else has changed it, *)
(* even when the boot file cannot be written (src/handlers/nftables.rs).   *)
THEOREM RowsAreApplied ==
  ASSUME ~ Overlap, Faults \subseteq {"disk"}
  PROVE  Spec => []StoredIsApplied
<1>1. FirewallInv => StoredIsApplied
  <2> SUFFICES ASSUME FirewallInv, Quiet
               PROVE  StoredIsApplied
    BY DEF StoredIsApplied
  <2>1. up /\ \A h \in Handler : ~ Editing(h)
    BY DEF Quiet, Editing, Actor
  <2>2. Empty \notin Ruleset
    BY NftAssumption DEF Special
  <2> QED
    BY <2>1, <2>2 DEF FirewallInv, RestInv, RowsAgree, StoredIsApplied
<1> QED
  BY <1>1, FirewallInvariance, PTL

(* Without failures the boot file is never older than the rows             *)
(* (src/nftables/mod.rs, persist_ruleset).                                 *)
THEOREM BootFileIsStored ==
  ASSUME ~ Overlap, Faults = {}
  PROVE  Spec => []BootFileIsCurrent
<1>1. FirewallInv => BootFileIsCurrent
  <2> SUFFICES ASSUME FirewallInv, Quiet
               PROVE  BootFileIsCurrent
    BY DEF BootFileIsCurrent
  <2>1. up /\ \A h \in Handler : ~ Editing(h)
    BY DEF Quiet, Editing, Actor
  <2> QED
    BY <2>1 DEF FirewallInv, RestInv, Fails, BootFileIsCurrent
<1>2. Spec => []FirewallInv
  BY FirewallInvariance
<1> QED
  BY <1>1, <1>2, PTL

=============================================================================
