----------------------------- MODULE Supervisor -----------------------------
(***************************************************************************)
(* How a sentinel watches over the Cargo it has started, on Unix           *)
(* (crates/zhold-cli: command/cargo/supervisor/, the wait of               *)
(* command/cargo.rs).  Cargo is the leader of a process group of its own;  *)
(* while it runs it has the terminal.  The main thread polls the leader,   *)
(* stops and continues the group with the sentinel's own job, and says     *)
(* what became of the group; a second thread forwards signals.  Cargo, the *)
(* user at the terminal and the shell act at any time.                     *)
(***************************************************************************)
EXTENDS Naturals

CONSTANTS
    Signal,   \* the signals that end a build: SIGINT, SIGTERM, SIGHUP, SIGQUIT
    MaxStops, \* bound on the stops of Cargo or of the sentinel
    MaxFaults \* bound on failing system calls

ASSUME SupervisorAssumption == MaxStops \in Nat /\ MaxFaults \in Nat

VARIABLES
    leader, member, \* Cargo, and another process of its group
    event,          \* the change of the leader that waitpid has yet to tell
    killed,         \* whether SIGKILL was sent to the group
    foreground,     \* who has the terminal, if there is one
    wrapper,        \* whether the sentinel runs or is stopped
    pc,             \* the next operation of its main thread
    handoff,        \* ForegroundTerminal.handoff: none, inactive or active; lost if it was
                    \* dropped with the terminal in Cargo's hands
    quiesce,        \* quiesce_stop_pending
    asked,          \* whether this poll was asked to continue
    forwarder,      \* the thread that forwards: off, on, or failed with an error to tell
    interrupted, continued, \* what it has seen: interrupted and continue_requested
    signals,        \* those that are pending: one that is pending already is not sent again
    sigcont,        \* whether SIGCONT is
    outcome,        \* what the lease records
    stops, faults

cargo == <<leader, member, event, killed>>
terminal == <<foreground, handoff>>
inbox == <<signals, sigcont>>
thread == <<forwarder, interrupted, continued>>
bounds == <<stops, faults>>
vars == <<cargo, terminal, wrapper, pc, quiesce, asked, thread, inbox, outcome, bounds>>

Live == {"running", "stopped"}
Alive == leader \in Live \/ member \in Live

\* What killpg says: a group of which only a dead leader is left may refuse.
Answers ==
    IF Alive THEN {"done"} ELSE IF leader = "zombie" THEN {"done", "refused"} ELSE {"none"}

Init ==
    /\ leader = "none" /\ member = "none" /\ event = "none" /\ killed = FALSE
    /\ foreground \in {"wrapper", "shell", "none"} /\ handoff = "none"
    /\ wrapper = "running" /\ pc = "spawn" /\ quiesce = FALSE /\ asked = FALSE
    /\ forwarder = "off" /\ interrupted = FALSE /\ continued = FALSE
    /\ signals = {} /\ sigcont = FALSE /\ outcome = "none"
    /\ stops = 0 /\ faults = 0

-----------------------------------------------------------------------------
(* Cargo, the user and the shell.                                          *)

Stop(state) == IF state = "running" THEN "stopped" ELSE state
Continue(state) == IF state = "stopped" THEN "running" ELSE state

\* A process that has SIGKILL neither stops nor starts another.
StopGroup(reason) ==
    /\ leader' = Stop(leader) /\ member' = Stop(member)
    /\ event' = IF leader = "running" THEN reason ELSE event
    /\ UNCHANGED killed

ContinueGroup ==
    /\ leader' = Continue(leader) /\ member' = Continue(member)
    /\ event' = IF leader = "stopped" THEN "continued" ELSE event
    /\ UNCHANGED killed

World == UNCHANGED <<pc, handoff, quiesce, asked, thread, outcome, faults>>

StartMember ==
    /\ leader = "running" /\ member = "none" /\ ~killed /\ member' = "running"
    /\ World /\ UNCHANGED <<leader, event, killed, foreground, wrapper, inbox, stops>>

\* The leader ends by itself or by a signal.  A group that it leaves behind is orphaned:
\* what is stopped in it is continued.
LeaderExits ==
    /\ leader = "running" \/ (leader = "stopped" /\ killed)
    /\ leader' = "zombie" /\ member' = Continue(member) /\ event' = "none"
    /\ World /\ UNCHANGED <<killed, foreground, wrapper, inbox, stops>>

MemberExits ==
    /\ member = "running" \/ (member = "stopped" /\ killed)
    /\ member' = "gone"
    /\ World /\ UNCHANGED <<leader, event, killed, foreground, wrapper, inbox, stops>>

\* Ctrl-Z stops the job in the foreground; a read from the background stops Cargo, too.
StopCargo ==
    /\ stops < MaxStops /\ stops' = stops + 1
    /\ Alive /\ ~killed /\ StopGroup("stopped")
    /\ World /\ UNCHANGED <<foreground, wrapper, inbox>>

StopWrapper ==
    /\ stops < MaxStops /\ stops' = stops + 1
    /\ wrapper = "running" /\ pc # "end" /\ foreground = "wrapper"
    /\ wrapper' = "stopped"
    /\ World /\ UNCHANGED <<cargo, foreground, inbox>>

\* The shell sees that its job has stopped;
ShellTakesTerminal ==
    /\ wrapper = "stopped" /\ foreground \in {"wrapper", "cargo"} /\ foreground' = "shell"
    /\ World /\ UNCHANGED <<cargo, wrapper, inbox, stops>>

\* fg gives the terminal to the sentinel's group, bg does not; both continue it.
ShellContinues ==
    /\ foreground \in {"shell", "none"} /\ pc # "end"
    /\ \/ foreground = "shell" /\ foreground' = "wrapper"
       \/ wrapper = "stopped" /\ UNCHANGED foreground
    /\ wrapper' = "running" /\ sigcont' = TRUE
    /\ World /\ UNCHANGED <<cargo, signals, stops>>

\* SIGINT, SIGTERM, SIGHUP or SIGQUIT.
Interrupt ==
    /\ pc # "end" /\ \E signal \in Signal : signals' = signals \cup {signal}
    /\ World /\ UNCHANGED <<cargo, foreground, wrapper, sigcont, stops>>

Environment ==
    \/ StartMember \/ LeaderExits \/ MemberExits \/ StopCargo \/ StopWrapper
    \/ ShellTakesTerminal \/ ShellContinues \/ Interrupt

-----------------------------------------------------------------------------
(* The thread that forwards signals: forward_signals.                      *)

ForwardContinue ==
    /\ wrapper = "running" /\ forwarder = "on" /\ sigcont
    /\ sigcont' = FALSE /\ continued' = TRUE
    /\ UNCHANGED <<cargo, terminal, wrapper, pc, quiesce, asked, forwarder, interrupted,
                   signals, outcome, bounds>>

\* Mutant of Forwarded: the second signal is forwarded like the first.
ForwardedAsIs(answer) == UNCHANGED killed

\* The first signal is passed on; the second one is SIGKILL.
Forwarded(answer) == killed' = (killed \/ (interrupted /\ answer = "done"))

\* An error ends the thread.
ForwardSignal ==
    /\ wrapper = "running" /\ forwarder = "on"
    /\ \E signal \in signals : signals' = signals \ {signal}
    /\ interrupted' = TRUE
    /\ \E answer \in Answers :
        /\ Forwarded(answer)
        /\ forwarder' = IF answer = "refused" THEN "failed" ELSE "on"
    /\ UNCHANGED <<leader, member, event, terminal, wrapper, pc, quiesce, asked, continued,
                   sigcont, outcome, bounds>>

-----------------------------------------------------------------------------
(* Spawning.                                                               *)

Goto(place) == pc' = place

\* The main thread takes a step of its own.
Main(place) == pc = place /\ wrapper = "running" /\ UNCHANGED <<wrapper, inbox, stops>>

Failing == faults < MaxFaults /\ faults' = faults + 1

Spawn ==
    /\ Main("spawn")
    /\ \/ leader' = "running" /\ Goto("record") /\ UNCHANGED <<outcome, faults>>
       \/ Failing /\ outcome' = "not started" /\ Goto("end") /\ UNCHANGED leader
    /\ UNCHANGED <<member, event, killed, terminal, quiesce, asked, thread>>

\* mark_spawned, as spawn's callback.
RecordSpawned ==
    /\ Main("record")
    /\ \/ Goto("forward") /\ UNCHANGED faults
       \/ Failing /\ Goto("clean")
    /\ UNCHANGED <<cargo, terminal, quiesce, asked, thread, outcome>>

StartForwarder ==
    /\ Main("forward")
    /\ \/ forwarder' = "on" /\ Goto("hand off") /\ UNCHANGED faults
       \/ Failing /\ Goto("clean") /\ UNCHANGED forwarder
    /\ UNCHANGED <<cargo, terminal, quiesce, asked, interrupted, continued, outcome>>

\* hand_off: the terminal is Cargo's if it was the sentinel's.
HandOff ==
    /\ Main("hand off")
    /\ \/ /\ handoff' = IF foreground = "none" THEN "none" ELSE "inactive"
          /\ Goto(IF foreground = "wrapper" THEN "give first" ELSE "poll")
          /\ UNCHANGED faults
       \/ Failing /\ Goto("clean") /\ UNCHANGED handoff
    /\ UNCHANGED <<cargo, foreground, quiesce, asked, thread, outcome>>

GiveFirst ==
    /\ Main("give first")
    /\ \/ foreground' = "cargo" /\ handoff' = "active" /\ Goto("continue first") /\ UNCHANGED faults
       \/ Failing /\ handoff' = "none" /\ Goto("clean") /\ UNCHANGED foreground
    /\ UNCHANGED <<cargo, quiesce, asked, thread, outcome>>

\* Mutant of Restored: the hand-off is forgotten, and the terminal stays where it is.
Forgotten == handoff' = "none" /\ UNCHANGED foreground

\* The terminal is taken back if it is still Cargo's: restore.
Restored ==
    /\ foreground' = IF handoff = "active" /\ foreground = "cargo" THEN "wrapper" ELSE foreground
    /\ handoff' = "none"

\* ForegroundTerminal is dropped.  Nobody hears of a last attempt that fails.
DropTerminal ==
    \/ Restored /\ UNCHANGED faults
    \/ Failing /\ handoff = "active" /\ handoff' = "lost" /\ UNCHANGED foreground

\* Cargo may have stopped for want of the terminal.
ContinueFirst ==
    /\ Main("continue first")
    /\ \E answer \in Answers :
        IF answer = "refused" THEN DropTerminal /\ Goto("clean") /\ UNCHANGED cargo
        ELSE ContinueGroup /\ Goto("poll") /\ UNCHANGED <<terminal, faults>>
    /\ UNCHANGED <<quiesce, asked, thread, outcome>>

\* terminate_group_child: the group is killed,
KillSpawned ==
    /\ Main("clean") /\ forwarder' = "off"
    /\ \/ /\ \E answer \in Answers :
               /\ killed' = (killed \/ answer = "done")
               /\ Goto(IF answer = "done" THEN "reap spawned" ELSE "try spawned")
          /\ UNCHANGED faults
       \/ Failing /\ Goto("try spawned") /\ UNCHANGED killed
    /\ UNCHANGED <<leader, member, event, terminal, quiesce, asked, interrupted, continued,
                   outcome>>

\* and its leader is waited for, nobody else.
ReapSpawned ==
    /\ Main("reap spawned") /\ Goto("end")
    /\ \/ leader = "zombie" /\ leader' = "reaped" /\ outcome' = "not supervised" /\ UNCHANGED faults
       \/ Failing /\ outcome' = "suspect" /\ UNCHANGED leader
    /\ UNCHANGED <<member, event, killed, terminal, quiesce, asked, thread>>

\* A kill that failed is forgotten if the leader turns out to be dead, whoever else lives.
TrySpawned ==
    /\ Main("try spawned") /\ Goto("end")
    /\ \/ leader = "zombie" /\ leader' = "reaped" /\ outcome' = "not supervised" /\ UNCHANGED faults
       \/ leader \in Live /\ outcome' = "suspect" /\ UNCHANGED <<leader, faults>>
       \/ Failing /\ outcome' = "suspect" /\ UNCHANGED leader
    /\ UNCHANGED <<member, event, killed, terminal, quiesce, asked, thread>>

-----------------------------------------------------------------------------
(* try_wait, over and over: wait_for_cargo.                                *)

\* An error that the forwarding thread has met is told here.
Check ==
    /\ Main("poll")
    /\ IF forwarder = "failed"
          THEN Goto("kill") /\ forwarder' = "off" /\ UNCHANGED <<asked, continued>>
          ELSE /\ asked' = continued /\ continued' = FALSE
               /\ Goto(IF leader = "reaped" THEN "restore" ELSE "observe")
               /\ UNCHANGED forwarder
    /\ UNCHANGED <<cargo, terminal, quiesce, interrupted, outcome, faults>>

\* record_leader_exit: Cargo may have been ended by a signal that it got from the terminal.
RecordExit ==
    /\ leader' = "reaped" /\ quiesce' = FALSE
    /\ interrupted' \in {interrupted, TRUE}

ObserveExit ==
    /\ Main("observe") /\ leader = "zombie"
    /\ RecordExit /\ Goto("restore")
    /\ UNCHANGED <<member, event, killed, terminal, asked, forwarder, continued, outcome, faults>>

\* A leader that runs, or runs again, is brought in line with the terminal if the sentinel
\* was continued or has stopped the group.
ObserveRunning ==
    /\ Main("observe") /\ leader \in Live /\ event \in {"none", "continued"}
    /\ Goto(IF asked \/ quiesce THEN "in foreground" ELSE "poll")
    /\ quiesce' = (quiesce /\ event = "continued")
    /\ event' = "none"
    /\ UNCHANGED <<leader, member, killed, terminal, asked, thread, outcome, faults>>

IsInForeground ==
    /\ Main("in foreground")
    /\ Goto(IF foreground = "wrapper" /\ handoff # "none" THEN "resume" ELSE "poll")
    /\ UNCHANGED <<cargo, terminal, quiesce, asked, thread, outcome, faults>>

\* A stop of the group's own making is undone.
ObserveStop ==
    /\ Main("observe") /\ leader \in Live /\ event \in {"stopped", "quiesced"}
    /\ Goto(IF event = "quiesced" /\ quiesce THEN "resume" ELSE "stop")
    /\ event' = "none"
    /\ UNCHANGED <<leader, member, killed, terminal, quiesce, asked, thread, outcome, faults>>

\* Any other stop is one for the whole job, unless the sentinel has the terminal.
FollowStop ==
    /\ Main("stop")
    /\ Goto(IF foreground = "wrapper" /\ handoff # "none" THEN "resume" ELSE "quiesce")
    /\ UNCHANGED <<cargo, terminal, quiesce, asked, thread, outcome, faults>>

\* suspend_cargo: whatever still runs in the group is stopped (while its leader is not
\* reaped the group is there),
Quiesce ==
    /\ Main("quiesce")
    /\ \E answer \in Answers :
        IF answer = "refused" THEN Goto("kill") /\ UNCHANGED <<cargo, quiesce>>
        ELSE StopGroup("quiesced") /\ quiesce' = TRUE /\ Goto("reclaim")
    /\ UNCHANGED <<terminal, asked, thread, outcome, faults>>

\* Mutant of Reclaim: the job stops with the terminal in Cargo's hands.
ReclaimNothing ==
    /\ Main("reclaim") /\ Goto("sleep")
    /\ UNCHANGED <<cargo, terminal, quiesce, asked, thread, outcome, faults>>

\* the terminal is taken back,
Reclaim ==
    /\ Main("reclaim")
    /\ foreground' = IF handoff = "active" /\ foreground = "cargo" THEN "wrapper" ELSE foreground
    /\ handoff' = IF handoff = "none" THEN "none" ELSE "inactive"
    /\ Goto("sleep")
    /\ UNCHANGED <<cargo, quiesce, asked, thread, outcome, faults>>

\* and the sentinel's own group is stopped, if there is a shell to continue it.
Sleep ==
    /\ pc = "sleep" /\ wrapper = "running"
    /\ wrapper' \in {"running", "stopped"} /\ Goto("resume")
    /\ UNCHANGED <<cargo, terminal, quiesce, asked, thread, inbox, outcome, bounds>>

\* resume_cargo: in the foreground Cargo gets the terminal back,
Resume ==
    /\ Main("resume")
    /\ handoff' = IF handoff = "active" /\ foreground # "cargo" THEN "inactive" ELSE handoff
    /\ Goto(IF foreground = "wrapper" /\ handoff # "none" THEN "give" ELSE "continue")
    /\ UNCHANGED <<cargo, foreground, quiesce, asked, thread, outcome, faults>>

Give ==
    /\ Main("give") /\ foreground' = "cargo" /\ handoff' = "active" /\ Goto("continue")
    /\ UNCHANGED <<cargo, quiesce, asked, thread, outcome, faults>>

\* Mutant of ContinueCargo: Cargo goes on only in the foreground.
ContinueInForeground ==
    /\ Main("continue")
    /\ IF foreground = "cargo" THEN ContinueGroup ELSE UNCHANGED cargo
    /\ Goto("poll")
    /\ UNCHANGED <<terminal, quiesce, asked, thread, outcome, faults>>

\* and everywhere it goes on.
ContinueCargo ==
    /\ Main("continue")
    /\ \E answer \in Answers :
        IF answer = "refused" THEN RecordExit /\ Goto("restore") /\ UNCHANGED <<member, event, killed>>
        ELSE ContinueGroup /\ Goto("poll") /\ UNCHANGED <<quiesce, interrupted>>
    /\ UNCHANGED <<terminal, asked, forwarder, continued, outcome, faults>>

\* The leader is gone: the terminal is the sentinel's again.
Restore ==
    /\ Main("restore") /\ Restored /\ Goto("alive")
    /\ UNCHANGED <<cargo, quiesce, asked, thread, outcome, faults>>

\* Mutant of IsGroupAlive: the build is over with its leader.
IsLeaderAlive ==
    /\ Main("alive") /\ Goto("stop forwarding")
    /\ UNCHANGED <<cargo, terminal, quiesce, asked, thread, outcome, faults>>

\* The build is over when nobody is left in the group.
IsGroupAlive ==
    /\ Main("alive") /\ Goto(IF Alive THEN "poll" ELSE "stop forwarding")
    /\ UNCHANGED <<cargo, terminal, quiesce, asked, thread, outcome, faults>>

\* The thread is joined, and what it met last is told.
StopForwarding ==
    /\ Main("stop forwarding") /\ forwarder' = "off"
    /\ IF forwarder = "failed" THEN Goto("kill") /\ UNCHANGED outcome
       ELSE Goto("end") /\ outcome' = "finished"
    /\ UNCHANGED <<cargo, terminal, quiesce, asked, interrupted, continued, faults>>

-----------------------------------------------------------------------------
(* terminate_and_wait, after an error.                                     *)

Polling == {"poll", "observe", "in foreground", "stop", "quiesce", "reclaim", "sleep", "resume",
            "give", "continue", "restore", "alive"}

\* A system call of a poll fails.
Fail ==
    /\ \E place \in Polling : Main(place)
    /\ Failing /\ Goto("kill")
    /\ UNCHANGED <<cargo, terminal, quiesce, asked, thread, outcome>>

\* Whether the cleanup goes on, or failed: the arena is left suspect then.
LeaveSuspect == outcome' = "suspect" /\ Goto("drop")

\* Mutant of Kill: a group that could not be killed counts as cleaned up.
KillOrNot ==
    /\ Main("kill")
    /\ \/ killed' = (killed \/ Alive) /\ Goto("reap") /\ UNCHANGED <<outcome, faults>>
       \/ Failing /\ outcome' = "aborted" /\ Goto("drop") /\ UNCHANGED killed
    /\ UNCHANGED <<leader, member, event, terminal, quiesce, asked, thread>>

Kill ==
    /\ Main("kill")
    /\ \/ /\ \E answer \in Answers :
               IF answer = "refused" THEN LeaveSuspect /\ UNCHANGED killed
               ELSE killed' = (killed \/ answer = "done") /\ Goto("reap") /\ UNCHANGED outcome
          /\ UNCHANGED faults
       \/ Failing /\ LeaveSuspect /\ UNCHANGED killed
    /\ UNCHANGED <<leader, member, event, terminal, quiesce, asked, thread>>

\* The leader is waited for, unless it was reaped before, then the group, and the terminal
\* is taken back.
Reap ==
    /\ Main("reap") /\ leader \in {"zombie", "reaped"}
    /\ leader' = "reaped" /\ Goto("wait")
    /\ UNCHANGED <<member, event, killed, terminal, quiesce, asked, thread, outcome, faults>>

\* The error of a thread that failed is the cleanup's.
WaitForGroup ==
    /\ Main("wait") /\ ~Alive
    /\ Restored /\ forwarder' = "off"
    /\ IF forwarder = "failed" THEN LeaveSuspect ELSE outcome' = "aborted" /\ Goto("end")
    /\ UNCHANGED <<cargo, quiesce, asked, interrupted, continued, faults>>

\* Any of these calls may fail.
FailCleanup ==
    /\ \E place \in {"reap", "wait"} : Main(place)
    /\ Failing /\ LeaveSuspect
    /\ UNCHANGED <<cargo, terminal, quiesce, asked, thread>>

\* Drop: the supervisor of a suspect arena tries once more, whatever becomes of it,
Drop ==
    /\ Main("drop")
    /\ \E answer \in Answers :
        /\ killed' = (killed \/ answer = "done")
        /\ Goto(IF answer = "refused" THEN "abandon" ELSE "reap dropped")
    /\ UNCHANGED <<leader, member, event, terminal, quiesce, asked, thread, outcome, faults>>

ReapDropped ==
    /\ Main("reap dropped") /\ leader \in {"zombie", "reaped"}
    /\ leader' = "reaped" /\ Goto("wait dropped")
    /\ UNCHANGED <<member, event, killed, terminal, quiesce, asked, thread, outcome, faults>>

FailDrop ==
    /\ \E place \in {"drop", "reap dropped", "wait dropped"} : Main(place)
    /\ Failing /\ Goto("abandon")
    /\ UNCHANGED <<cargo, terminal, quiesce, asked, thread, outcome>>

\* and gives the terminal back.
Abandon ==
    /\ \E place \in {"abandon", "wait dropped"} : Main(place)
    /\ pc = "wait dropped" => ~Alive
    /\ DropTerminal /\ forwarder' = "off" /\ Goto("end")
    /\ UNCHANGED <<cargo, quiesce, asked, interrupted, continued, outcome>>

-----------------------------------------------------------------------------

Start ==
    \/ Spawn \/ RecordSpawned \/ StartForwarder \/ HandOff \/ GiveFirst \/ ContinueFirst
    \/ KillSpawned \/ ReapSpawned \/ TrySpawned

Poll ==
    \/ Check \/ ObserveExit \/ ObserveRunning \/ IsInForeground \/ ObserveStop \/ FollowStop
    \/ Quiesce \/ Reclaim \/ Sleep \/ Resume \/ Give \/ ContinueCargo \/ Restore
    \/ IsGroupAlive \/ StopForwarding

Terminate ==
    \/ Kill \/ Reap \/ WaitForGroup \/ Drop \/ ReapDropped \/ Abandon

Ended == pc = "end" /\ UNCHANGED vars

Next ==
    \/ Environment \/ ForwardContinue \/ ForwardSignal
    \/ Start \/ Poll \/ Terminate \/ Fail \/ FailCleanup \/ FailDrop \/ Ended

\* The threads of a running process are scheduled, and who has SIGKILL dies.
Fairness ==
    /\ WF_vars(Start) /\ WF_vars(Poll) /\ WF_vars(Terminate)
    /\ WF_vars(ForwardContinue) /\ WF_vars(ForwardSignal)
    /\ WF_vars(killed /\ LeaderExits) /\ WF_vars(killed /\ MemberExits)

Spec == Init /\ [][Next]_vars /\ Fairness

-----------------------------------------------------------------------------
(* Properties.                                                             *)

Place == Polling \cup {"spawn", "record", "forward", "hand off", "give first", "continue first", "clean",
                       "reap spawned", "try spawned", "stop forwarding", "kill", "reap", "wait", "drop",
                       "reap dropped", "wait dropped", "abandon", "end"}

LeaderState == Live \cup {"none", "zombie", "reaped"}
MemberState == Live \cup {"none", "gone"}
Event == {"none", "stopped", "quiesced", "continued"}
Owner == {"wrapper", "cargo", "shell", "none"}
HandoffState == {"none", "inactive", "active", "lost"}
ForwarderState == {"off", "on", "failed"}
Outcome == {"none", "not started", "not supervised", "finished", "aborted", "suspect"}

Flags ==
    /\ killed \in BOOLEAN /\ quiesce \in BOOLEAN /\ asked \in BOOLEAN
    /\ interrupted \in BOOLEAN /\ continued \in BOOLEAN /\ sigcont \in BOOLEAN

States ==
    /\ leader \in LeaderState /\ member \in MemberState /\ event \in Event
    /\ foreground \in Owner /\ handoff \in HandoffState /\ wrapper \in Live
    /\ forwarder \in ForwarderState /\ outcome \in Outcome

Counts ==
    /\ signals \subseteq Signal
    /\ stops \in 0..MaxStops /\ faults \in 0..MaxFaults

TypeOK == Flags /\ States /\ pc \in Place /\ Counts

\* A lease that records how its build ended does so when the group is gone.  After a spawn
\* that could not be completed Cargo is gone, and the others are at least killed unless a
\* second call failed, the kill.
OutcomeWhenGone ==
    /\ outcome \in {"finished", "aborted"} => ~Alive
    /\ outcome = "not supervised" => leader = "reaped" /\ (Alive => killed \/ faults > 1)

\* The terminal is Cargo's only while the sentinel knows that it has to take it back, or
\* when its last attempt has failed, and never when the lease records how the build ended.
TerminalReturned ==
    /\ foreground = "cargo" => (handoff = "active" /\ pc # "end") \/ handoff = "lost"
    /\ outcome \in {"finished", "aborted"} => foreground # "cargo"

\* The job stops as one: while the sentinel is stopped, by itself or by the user, the
\* terminal is not Cargo's, and the shell may take it.
StopsAsOne == wrapper = "stopped" => foreground # "cargo"

\* What each operation of the main thread may count on.
PlaceOK ==
    /\ pc \in {"spawn", "record", "forward", "hand off", "alive", "stop forwarding"} =>
          handoff = "none"
    /\ pc \in {"clean", "reap spawned", "try spawned", "end"} => handoff \in {"none", "lost"}
    /\ handoff = "lost" => pc \in {"clean", "reap spawned", "try spawned", "end"}
    /\ pc = "spawn" => leader = "none" /\ member = "none"
    /\ pc = "give first" => handoff = "inactive"
    /\ pc = "sleep" => foreground # "cargo"
    /\ pc = "clean" => ~Alive \/ faults > 0
    /\ pc = "reap spawned" => killed
    /\ pc = "try spawned" => ~Alive \/ faults > 1
    /\ pc \in {"restore", "alive", "stop forwarding", "wait", "wait dropped"} => leader = "reaped"
    /\ pc = "stop forwarding" => ~Alive
    /\ outcome \in {"finished", "aborted", "not supervised"} => pc = "end"
    /\ outcome \in {"finished", "aborted"} => handoff = "none"

\* The inductive invariant.
Inv == TypeOK /\ PlaceOK /\ OutcomeWhenGone /\ TerminalReturned /\ StopsAsOne

\* A stopped Cargo is continued while the sentinel runs, whatever stops, signals and moves
\* of the terminal cross.
StoppedIsContinued ==
    leader = "stopped" /\ wrapper = "running" /\ outcome = "none"
        ~> leader # "stopped" \/ wrapper = "stopped" \/ outcome # "none"

\* A signal that comes after another one was passed on ends the build, even one that ignores
\* the first or is stopped.  Equal signals that are pending together are one.
SecondSignalEnds ==
    interrupted /\ signals # {} /\ forwarder = "on" ~> pc = "end" \/ wrapper = "stopped"

\* A lease records how its build ended only after the process tree has exited: what
\* docs/design.md and docs/safety.md promise.
TreeExitedFirst == outcome \in {"finished", "aborted", "not supervised"} => ~Alive

=============================================================================
