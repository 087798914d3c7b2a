--------------------------- MODULE NativeProcess ---------------------------
(***************************************************************************)
(* One native process and its tree (runNativeProcess, endTree,             *)
(* terminated): the leader and what it forks run beside the host, which    *)
(* sees pipes, exits and the process table, and ends the tree in passes,   *)
(* one at a time. A process that was not started by the leader may get the *)
(* leader's number as its parent once the leader is gone (on Windows also  *)
(* before it started). A process the host may not signal forks nothing;    *)
(* zombies and reused group numbers are left out.                          *)
(***************************************************************************)
EXTENDS Naturals, FiniteSets, Sequences

CONSTANTS
  Platforms,   \* of "linux", "darwin", "win32"
  Pids,        \* 1 is the leader, the largest a stranger
  Looks        \* looks at the table in a pass

\* The tree is small enough for the looks of a pass: each finds one of it or is the last.
ProcessAssumption ==
  /\ Platforms \subseteq {"linux", "darwin", "win32"} /\ Looks \in Nat \ {0}
  /\ IsFiniteSet(Pids) /\ Pids \subseteq Nat \ {0} /\ 1 \in Pids /\ \E n \in Pids : n > 1 /\ \A p \in Pids : p <= n
  /\ Cardinality(Pids) <= Looks + 2

VARIABLES
  platform,
  proc,      \* the processes
  exited,    \* the exit event was handled (exitedAt)
  stopped,   \* the host stopped it: a timeout, an abort, too much output or a refused line
  armed,     \* the timers and listeners that may still fire
  passes,    \* the passes queued (ending), by what queued them; the first may have begun
  pass,      \* what the first pass found
  ended,     \* what the passes ended
  failed, closed, heldOpen,
  outcome    \* "open", "checking", then whether the tree was "terminated" or "left"

vars == <<platform, proc, exited, stopped, armed, passes, pass, ended, failed, closed, heldOpen, outcome>>

Leader == 1
Stranger == CHOOSE p \in Pids : \A q \in Pids : q <= p
Posix == platform # "win32"
(* The process table has a session on Linux only. *)
Session(p) == IF platform = "linux" THEN p ELSE 0
None == [life |-> "none", parent |-> 0, group |-> 0, session |-> 0, pipe |-> FALSE, immune |-> FALSE, created |-> 1]
Gone == [None EXCEPT !.life = "gone"]
Idle == [pc |-> "none", looks |-> 0, found |-> {}, fresh |-> {}]

Init ==
  /\ platform \in Platforms /\ exited = FALSE /\ stopped = FALSE /\ passes = <<>> /\ pass = Idle /\ ended = {}
  /\ armed = {"stop"} /\ failed = FALSE /\ closed = FALSE /\ heldOpen = FALSE
  /\ \/ outcome = "open" /\ proc = [p \in Pids |-> IF p # Leader THEN None
                                  ELSE [None EXCEPT !.life = "runs", !.group = Leader, !.session = Session(Leader), !.pipe = TRUE]]
     \/ outcome = "terminated" /\ proc = [p \in Pids |-> None] \* cancelled before it, or it could not be started

----------------------------------------------------------------------------
(* The operating system and the processes themselves. *)
Living(p) == proc[p].life \in {"runs", "frozen"}
Holding == {p \in Pids : Living(p) /\ proc[p].pipe}
Struck(targets) == {p \in targets : Living(p) /\ ~proc[p].immune}
(* On POSIX a child whose parent died is another process's; Windows keeps the parent's number. *)
Dead(dead) ==
  [p \in Pids |-> IF p \in dead THEN Gone ELSE IF Posix /\ proc[p].parent \in dead THEN [proc[p] EXCEPT !.parent = 0] ELSE proc[p]]
Frozen(targets) == [p \in Pids |-> IF p \in Struck(targets) THEN [proc[p] EXCEPT !.life = "frozen"] ELSE proc[p]]
InGroup == {p \in Pids : Living(p) /\ proc[p].group = Leader}
System == <<platform, exited, stopped, armed, passes, pass, ended, failed, closed, heldOpen, outcome>>
Fork(p) ==
  /\ proc[p].life = "runs" /\ p # Stranger /\ ~proc[p].immune
  /\ \E q \in Pids \ {Stranger}, pipe, immune \in BOOLEAN :
       /\ proc[q].life = "none" /\ \A r \in Pids : r < q => proc[r].life # "none" \* numbers in order
       /\ pipe => proc[p].pipe
       /\ proc' = [proc EXCEPT ![q] = [proc[p] EXCEPT !.parent = p, !.pipe = pipe, !.immune = immune, !.created = IF exited /\ ~Posix THEN 2 ELSE 1]]
  /\ UNCHANGED System
Detach(p) ==
  /\ Posix /\ proc[p].life = "runs" /\ p # Leader /\ proc[p].group # p /\ p # Stranger
  /\ \E session \in {Session(p), proc[p].session} : proc' = [proc EXCEPT ![p].group = p, ![p].session = session]
  /\ UNCHANGED System
Exit(p) == proc[p].life = "runs" /\ p # Stranger /\ proc' = Dead({p}) /\ UNCHANGED System
Reuse ==
  /\ proc[Stranger].life = "none" /\ \E created \in {0, 2} :
       /\ IF created = 0 THEN ~Posix ELSE exited
       /\ proc' = [proc EXCEPT ![Stranger] =
                     [None EXCEPT !.life = "runs", !.parent = Leader, !.group = Stranger, !.session = Session(Stranger), !.created = created]]
  /\ UNCHANGED System

----------------------------------------------------------------------------
(* The host's events. *)
Stop == stopped' = TRUE /\ passes' = Append(passes, "stop")
Abort == \* the timer or the signal
  /\ "stop" \in armed /\ armed' = armed \ {"stop"} /\ Stop
  /\ UNCHANGED <<platform, proc, exited, pass, ended, failed, closed, heldOpen, outcome>>
Data == \* more output than allowed, or a line its reader refuses
  /\ ~stopped /\ ~closed /\ Holding # {} /\ Stop
  /\ UNCHANGED <<platform, proc, exited, armed, pass, ended, failed, closed, heldOpen, outcome>>
OnExit ==
  /\ ~exited /\ ~Living(Leader) /\ exited' = TRUE /\ armed' = armed \union {"grace"}
  /\ passes' = IF Posix THEN Append(passes, "exit") ELSE passes
  /\ UNCHANGED <<platform, proc, stopped, pass, ended, failed, closed, heldOpen, outcome>>
Grace ==
  /\ "grace" \in armed /\ armed' = armed \ {"grace"} /\ passes' = Append(passes, "grace")
  /\ UNCHANGED <<platform, proc, exited, stopped, pass, ended, failed, closed, heldOpen, outcome>>
Held ==
  /\ "held" \in armed /\ armed' = armed \ {"held"} /\ heldOpen' = TRUE
  /\ UNCHANGED <<platform, proc, exited, stopped, passes, pass, ended, failed, closed, outcome>>
OnClose ==
  /\ exited /\ ~closed /\ (Holding = {} \/ heldOpen)
  /\ closed' = TRUE /\ armed' = {} /\ passes' = Append(passes, "close")
  /\ UNCHANGED <<platform, proc, exited, stopped, pass, ended, failed, heldOpen, outcome>>

----------------------------------------------------------------------------
(* endTree. A descendant is reached through the group, the session, or a chain of living parents. *)
Reached(first, kin) ==
  {p \in Pids \ {Leader} :
     \A S \in SUBSET Pids : first \subseteq S /\ (\A k \in kin : k[1] \in S => k[2] \in S) => p \in S}
Kin == {x \in Pids \X Pids : Living(x[2]) /\ proc[x[2]].parent = x[1]}
PosixDescendantsOfNumber(rootRunning) == Reached({p \in Pids : Living(p) /\ Leader \in {proc[p].group, proc[p].session, proc[p].parent}}, Kin)
PosixDescendants(rootRunning) ==
  Reached({p \in Pids : Living(p) /\ (Leader \in {proc[p].group, proc[p].session} \/ (rootRunning /\ proc[p].parent = Leader))}, Kin)
WindowsDescendants ==
  Reached({p \in Pids : Living(p) /\ proc[p].parent = Leader /\ proc[p].created = 1},
          {k \in Kin : proc[k[2]].created >= proc[k[1]].created})
Done(more) ==
  /\ pass' = Idle /\ passes' = Tail(passes) /\ ended' = ended \union more
  /\ armed' = IF Head(passes) = "grace" /\ ~closed THEN armed \union {"held"} ELSE armed
  /\ outcome' = IF Head(passes) = "close" THEN "checking" ELSE outcome
Queue == <<armed, passes, ended, outcome>>
Events == <<platform, exited, stopped, closed, heldOpen>>
Begin ==
  /\ pass.pc = "none" /\ passes # <<>> /\ UNCHANGED Events
  /\ \/ /\ Posix \/ exited
        /\ proc' = IF Posix THEN Frozen(InGroup) ELSE proc
        /\ pass' = [Idle EXCEPT !.pc = "look"] /\ UNCHANGED <<failed, Queue>>
     \/ /\ ~Posix /\ ~exited /\ Done({})
        /\ \/ proc' = Dead(Struck({Leader} \union WindowsDescendants)) /\ UNCHANGED failed
           \/ failed' = TRUE /\ proc' = Dead(Struck({Leader}))
Look ==
  /\ pass.pc = "look" /\ UNCHANGED <<proc, Events, Queue>>
  /\ \/ \E fresh \in {(IF Posix THEN PosixDescendants(~exited) ELSE WindowsDescendants) \ pass.found} :
          /\ pass' = IF fresh = {} THEN [pass EXCEPT !.pc = "kill"]
                     ELSE IF Posix THEN [pass EXCEPT !.pc = "freeze", !.fresh = fresh]
                     ELSE [pass EXCEPT !.pc = "kill", !.found = fresh]
          /\ UNCHANGED failed
     \/ ~failed /\ failed' = TRUE /\ pass' = [pass EXCEPT !.pc = "kill"] \* the table cannot be read
Freeze ==
  /\ pass.pc = "freeze" /\ proc' = Frozen(pass.fresh)
  /\ pass' = [pc |-> IF pass.looks + 1 = Looks THEN "kill" ELSE "look", looks |-> pass.looks + 1,
              found |-> pass.found \union pass.fresh, fresh |-> {}]
  /\ UNCHANGED <<failed, Events, Queue>>
Kill ==
  /\ pass.pc = "kill" /\ Done(pass.found)
  /\ proc' = Dead(Struck(pass.found \union (IF Posix THEN InGroup ELSE {})))
  /\ UNCHANGED <<failed, Events>>

(* terminated, once the last pass is over: the group is killed again until it is gone, for at most five seconds. *)
Remaining == {p \in ended : Living(p)} \union (IF Posix THEN InGroup ELSE {})
Resolve ==
  /\ outcome = "checking"
  /\ \/ ~failed /\ ~heldOpen /\ Remaining = {} /\ outcome' = "terminated" /\ UNCHANGED proc
     \/ Posix /\ InGroup # {} /\ proc' = Dead(Struck(InGroup)) /\ UNCHANGED outcome
     \/ (failed \/ heldOpen \/ Remaining # {}) /\ outcome' = "left" /\ UNCHANGED proc
  /\ UNCHANGED <<platform, exited, stopped, armed, passes, pass, ended, failed, closed, heldOpen>>

Host == Abort \/ Data \/ OnExit \/ Grace \/ Held \/ OnClose \/ Begin \/ Look \/ Freeze \/ Kill \/ Resolve
Next ==
  /\ outcome \in {"open", "checking"}
  /\ \/ Host \/ Reuse
     \/ \E p \in Pids : Fork(p) \/ Detach(p) \/ Exit(p)

Spec == Init /\ [][Next]_vars

----------------------------------------------------------------------------
Tree == {p \in Pids \ {Stranger} : Living(p)}
Pending ==
  armed # {} \/ passes # <<>> \/ (~exited /\ ~Living(Leader)) \/ (exited /\ ~closed /\ (Holding = {} \/ heldOpen)) \/ outcome = "checking"

(* A tree reported as terminated holds no pipe and leaves nothing in the leader's group, nor on Linux in its session,  *)
(* nor a child of the leader where the system keeps its number; no process that is not of the tree is frozen or        *)
(* killed; and until the call is resolved some timer, event or pass is still to come, whatever the processes do.       *)
NativeTreeEnded ==
  /\ outcome = "terminated" => \A p \in Tree : ~proc[p].pipe /\ (IF Posix THEN Leader \notin {proc[p].group, proc[p].session}
                                                         ELSE proc[p].parent # Leader)
  /\ proc[Stranger].life \in {"none", "runs"}
  /\ outcome = "open" => Pending
=============================================================================
