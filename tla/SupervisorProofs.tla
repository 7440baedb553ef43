-------------------------- MODULE SupervisorProofs --------------------------
(***************************************************************************)
(* The invariants of Supervisor hold whatever the signals are, and the     *)
(* bounds on stops and failing system calls.                               *)
(***************************************************************************)
EXTENDS Supervisor, TLAPS

\* A step that keeps the parts keeps the whole.
LEMMA InvFrom ==
    ASSUME TypeOK', PlaceOK', OutcomeWhenGone', TerminalReturned', StopsAsOne'
    PROVE  Inv'
BY DEF Inv

\* The failed calls are counted.
LEMMA FaultsCounted == Inv => faults \in Nat
BY SupervisorAssumption DEF Inv, TypeOK, Counts

\* A call more that fails.
LEMMA FailingCounted ==
    ASSUME Inv, Failing
    PROVE  faults' > 0 /\ (faults > 0 => faults' > 1)
BY FaultsCounted DEF Failing

-----------------------------------------------------------------------------
(* Steps of the Cargo group, the user and the shell.                       *)

LEMMA StartMemberStep == ASSUME Inv, StartMember PROVE Inv'
<1>1. TypeOK'
  <2>1. Flags'
      BY DEF Inv, TypeOK, Flags, StartMember, World, thread, inbox
  <2>2. States'
      BY DEF Inv, TypeOK, States, MemberState, Live, StartMember, World, thread
  <2>3. (pc \in Place)'
      BY DEF Inv, TypeOK, StartMember, World
  <2>4. Counts'
      BY SupervisorAssumption DEF Inv, TypeOK, Counts, StartMember, World, inbox
  <2> QED
      BY <2>1, <2>2, <2>3, <2>4 DEF TypeOK
<1>2. PlaceOK'
    BY DEF Inv, TypeOK, States, PlaceOK, TerminalReturned, Alive, Live, StartMember,
           World
<1>3. OutcomeWhenGone'
    BY DEF Inv, TypeOK, States, PlaceOK, OutcomeWhenGone, Alive, Live, StartMember,
           World
<1>4. TerminalReturned'
    BY DEF Inv, PlaceOK, TerminalReturned, StartMember, World
<1>5. StopsAsOne'
    BY DEF Inv, PlaceOK, TerminalReturned, StopsAsOne, StartMember, World
<1> QED
    BY <1>1, <1>2, <1>3, <1>4, <1>5, InvFrom

LEMMA LeaderExitsStep == ASSUME Inv, LeaderExits PROVE Inv'
<1>1. TypeOK'
  <2>1. Flags'
      BY DEF Inv, TypeOK, Flags, LeaderExits, World, thread, inbox
  <2>2. States'
      BY DEF Inv, TypeOK, States, LeaderState, MemberState, Event, Live, LeaderExits,
             World, Continue, thread
  <2>3. (pc \in Place)'
      BY DEF Inv, TypeOK, LeaderExits, World
  <2>4. Counts'
      BY SupervisorAssumption DEF Inv, TypeOK, Counts, LeaderExits, World, inbox
  <2> QED
      BY <2>1, <2>2, <2>3, <2>4 DEF TypeOK
<1>2. PlaceOK'
    BY DEF Inv, TypeOK, States, PlaceOK, TerminalReturned, Alive, Live, LeaderExits,
           World, Continue
<1>3. OutcomeWhenGone'
    BY DEF Inv, TypeOK, States, PlaceOK, OutcomeWhenGone, Alive, Live, LeaderExits,
           World, Continue
<1>4. TerminalReturned'
    BY DEF Inv, PlaceOK, TerminalReturned, LeaderExits, World
<1>5. StopsAsOne'
    BY DEF Inv, PlaceOK, TerminalReturned, StopsAsOne, LeaderExits, World
<1> QED
    BY <1>1, <1>2, <1>3, <1>4, <1>5, InvFrom

LEMMA MemberExitsStep == ASSUME Inv, MemberExits PROVE Inv'
<1>1. TypeOK'
  <2>1. Flags'
      BY DEF Inv, TypeOK, Flags, MemberExits, World, thread, inbox
  <2>2. States'
      BY DEF Inv, TypeOK, States, MemberState, MemberExits, World, thread
  <2>3. (pc \in Place)'
      BY DEF Inv, TypeOK, MemberExits, World
  <2>4. Counts'
      BY SupervisorAssumption DEF Inv, TypeOK, Counts, MemberExits, World, inbox
  <2> QED
      BY <2>1, <2>2, <2>3, <2>4 DEF TypeOK
<1>2. PlaceOK'
    BY DEF Inv, TypeOK, States, PlaceOK, TerminalReturned, Alive, Live, MemberExits,
           World
<1>3. OutcomeWhenGone'
    BY DEF Inv, TypeOK, States, PlaceOK, OutcomeWhenGone, Alive, Live, MemberExits,
           World
<1>4. TerminalReturned'
    BY DEF Inv, PlaceOK, TerminalReturned, MemberExits, World
<1>5. StopsAsOne'
    BY DEF Inv, PlaceOK, TerminalReturned, StopsAsOne, MemberExits, World
<1> QED
    BY <1>1, <1>2, <1>3, <1>4, <1>5, InvFrom

LEMMA StopCargoStep == ASSUME Inv, StopCargo PROVE Inv'
<1>1. TypeOK'
  <2>1. Flags'
      BY DEF Inv, TypeOK, Flags, StopCargo, World, StopGroup, thread, inbox
  <2>2. States'
      BY DEF Inv, TypeOK, States, LeaderState, MemberState, Event, Live, StopCargo,
             World, Stop, StopGroup, thread
  <2>3. (pc \in Place)'
      BY DEF Inv, TypeOK, StopCargo, World
  <2>4. Counts'
      BY SupervisorAssumption DEF Inv, TypeOK, Counts, StopCargo, World, inbox
  <2> QED
      BY <2>1, <2>2, <2>3, <2>4 DEF TypeOK
<1>2. PlaceOK'
    BY DEF Inv, TypeOK, States, PlaceOK, TerminalReturned, Alive, Live, StopCargo,
           World, Stop, StopGroup
<1>3. OutcomeWhenGone'
    BY DEF Inv, TypeOK, States, PlaceOK, OutcomeWhenGone, Alive, Live, StopCargo,
           World, Stop, StopGroup
<1>4. TerminalReturned'
    BY DEF Inv, PlaceOK, TerminalReturned, StopCargo, World, StopGroup
<1>5. StopsAsOne'
    BY DEF Inv, PlaceOK, TerminalReturned, StopsAsOne, StopCargo, World, StopGroup
<1> QED
    BY <1>1, <1>2, <1>3, <1>4, <1>5, InvFrom

LEMMA StopWrapperStep == ASSUME Inv, StopWrapper PROVE Inv'
<1>1. TypeOK'
  <2>1. Flags'
      BY DEF Inv, TypeOK, Flags, StopWrapper, World, cargo, thread, inbox
  <2>2. States'
      BY DEF Inv, TypeOK, States, Live, StopWrapper, World, cargo, thread
  <2>3. (pc \in Place)'
      BY DEF Inv, TypeOK, StopWrapper, World
  <2>4. Counts'
      BY SupervisorAssumption DEF Inv, TypeOK, Counts, StopWrapper, World, inbox
  <2> QED
      BY <2>1, <2>2, <2>3, <2>4 DEF TypeOK
<1>2. PlaceOK'
    BY DEF Inv, TypeOK, States, PlaceOK, TerminalReturned, Alive, Live, StopWrapper,
           World, cargo
<1>3. OutcomeWhenGone'
    BY DEF Inv, TypeOK, States, PlaceOK, OutcomeWhenGone, Alive, Live, StopWrapper,
           World, cargo
<1>4. TerminalReturned'
    BY DEF Inv, PlaceOK, TerminalReturned, StopWrapper, World
<1>5. StopsAsOne'
    BY DEF Inv, PlaceOK, TerminalReturned, StopsAsOne, StopWrapper, World
<1> QED
    BY <1>1, <1>2, <1>3, <1>4, <1>5, InvFrom

LEMMA ShellTakesTerminalStep == ASSUME Inv, ShellTakesTerminal PROVE Inv'
<1>1. TypeOK'
  <2>1. Flags'
      BY DEF Inv, TypeOK, Flags, ShellTakesTerminal, World, cargo, thread, inbox
  <2>2. States'
      BY DEF Inv, TypeOK, States, Owner, ShellTakesTerminal, World, cargo, thread
  <2>3. (pc \in Place)'
      BY DEF Inv, TypeOK, ShellTakesTerminal, World
  <2>4. Counts'
      BY SupervisorAssumption DEF Inv, TypeOK, Counts, ShellTakesTerminal, World, inbox
  <2> QED
      BY <2>1, <2>2, <2>3, <2>4 DEF TypeOK
<1>2. PlaceOK'
    BY DEF Inv, TypeOK, States, PlaceOK, TerminalReturned, Alive, Live,
           ShellTakesTerminal, World, cargo
<1>3. OutcomeWhenGone'
    BY DEF Inv, TypeOK, States, PlaceOK, OutcomeWhenGone, Alive, Live,
           ShellTakesTerminal, World, cargo
<1>4. TerminalReturned'
    BY DEF Inv, PlaceOK, TerminalReturned, ShellTakesTerminal, World
<1>5. StopsAsOne'
    BY DEF Inv, PlaceOK, TerminalReturned, StopsAsOne, ShellTakesTerminal, World
<1> QED
    BY <1>1, <1>2, <1>3, <1>4, <1>5, InvFrom

LEMMA ShellContinuesStep == ASSUME Inv, ShellContinues PROVE Inv'
<1>1. TypeOK'
  <2>1. Flags'
      BY DEF Inv, TypeOK, Flags, ShellContinues, World, cargo, thread
  <2>2. States'
      BY DEF Inv, TypeOK, States, Owner, Live, ShellContinues, World, cargo, thread
  <2>3. (pc \in Place)'
      BY DEF Inv, TypeOK, ShellContinues, World
  <2>4. Counts'
      BY SupervisorAssumption DEF Inv, TypeOK, Counts, ShellContinues, World
  <2> QED
      BY <2>1, <2>2, <2>3, <2>4 DEF TypeOK
<1>2. PlaceOK'
    BY DEF Inv, TypeOK, States, PlaceOK, TerminalReturned, Alive, Live, ShellContinues,
           World, cargo
<1>3. OutcomeWhenGone'
    BY DEF Inv, TypeOK, States, PlaceOK, OutcomeWhenGone, Alive, Live, ShellContinues,
           World, cargo
<1>4. TerminalReturned'
    BY DEF Inv, PlaceOK, TerminalReturned, ShellContinues, World
<1>5. StopsAsOne'
    BY DEF Inv, PlaceOK, TerminalReturned, StopsAsOne, ShellContinues, World
<1> QED
    BY <1>1, <1>2, <1>3, <1>4, <1>5, InvFrom

LEMMA InterruptStep == ASSUME Inv, Interrupt PROVE Inv'
<1>1. TypeOK'
  <2>1. Flags'
      BY DEF Inv, TypeOK, Flags, Interrupt, World, cargo, thread
  <2>2. States'
      BY DEF Inv, TypeOK, States, Interrupt, World, cargo, thread
  <2>3. (pc \in Place)'
      BY DEF Inv, TypeOK, Interrupt, World
  <2>4. Counts'
      BY SupervisorAssumption DEF Inv, TypeOK, Counts, Interrupt, World
  <2> QED
      BY <2>1, <2>2, <2>3, <2>4 DEF TypeOK
<1>2. PlaceOK'
    BY DEF Inv, TypeOK, States, PlaceOK, TerminalReturned, Alive, Live, Interrupt,
           World, cargo
<1>3. OutcomeWhenGone'
    BY DEF Inv, TypeOK, States, PlaceOK, OutcomeWhenGone, Alive, Live, Interrupt,
           World, cargo
<1>4. TerminalReturned'
    BY DEF Inv, PlaceOK, TerminalReturned, Interrupt, World
<1>5. StopsAsOne'
    BY DEF Inv, PlaceOK, TerminalReturned, StopsAsOne, Interrupt, World
<1> QED
    BY <1>1, <1>2, <1>3, <1>4, <1>5, InvFrom

-----------------------------------------------------------------------------
(* Steps of the forwarding thread.                                         *)

LEMMA ForwardContinueStep == ASSUME Inv, ForwardContinue PROVE Inv'
<1>1. TypeOK'
  <2>1. Flags'
      BY DEF Inv, TypeOK, Flags, ForwardContinue, cargo
  <2>2. States'
      BY DEF Inv, TypeOK, States, ForwardContinue, cargo, terminal
  <2>3. (pc \in Place)'
      BY DEF Inv, TypeOK, ForwardContinue
  <2>4. Counts'
      BY SupervisorAssumption DEF Inv, TypeOK, Counts, ForwardContinue, bounds
  <2> QED
      BY <2>1, <2>2, <2>3, <2>4 DEF TypeOK
<1>2. PlaceOK'
    BY DEF Inv, TypeOK, States, PlaceOK, TerminalReturned, Alive, Live,
           ForwardContinue, cargo, terminal, bounds
<1>3. OutcomeWhenGone'
    BY DEF Inv, TypeOK, States, PlaceOK, OutcomeWhenGone, Alive, Live, ForwardContinue,
           cargo, bounds
<1>4. TerminalReturned'
    BY DEF Inv, PlaceOK, TerminalReturned, ForwardContinue, terminal
<1>5. StopsAsOne'
    BY DEF Inv, PlaceOK, TerminalReturned, StopsAsOne, ForwardContinue, terminal
<1> QED
    BY <1>1, <1>2, <1>3, <1>4, <1>5, InvFrom

LEMMA ForwardSignalStep == ASSUME Inv, ForwardSignal PROVE Inv'
<1>1. TypeOK'
  <2>1. Flags'
      BY DEF Inv, TypeOK, Flags, ForwardSignal, Answers, Forwarded
  <2>2. States'
      BY DEF Inv, TypeOK, States, ForwarderState, ForwardSignal, Answers, terminal
  <2>3. (pc \in Place)'
      BY DEF Inv, TypeOK, ForwardSignal, Answers
  <2>4. Counts'
      BY SupervisorAssumption DEF Inv, TypeOK, Counts, ForwardSignal, bounds
  <2> QED
      BY <2>1, <2>2, <2>3, <2>4 DEF TypeOK
<1>2. PlaceOK'
    BY DEF Inv, TypeOK, States, PlaceOK, TerminalReturned, Alive, Live, ForwardSignal,
           Answers, Forwarded, terminal, bounds
<1>3. OutcomeWhenGone'
    BY DEF Inv, TypeOK, States, PlaceOK, OutcomeWhenGone, Alive, Live, ForwardSignal,
           Answers, Forwarded, bounds
<1>4. TerminalReturned'
    BY DEF Inv, PlaceOK, TerminalReturned, ForwardSignal, Answers, Forwarded, terminal
<1>5. StopsAsOne'
    BY DEF Inv, PlaceOK, TerminalReturned, StopsAsOne, ForwardSignal, Answers,
           Forwarded, terminal
<1> QED
    BY <1>1, <1>2, <1>3, <1>4, <1>5, InvFrom

-----------------------------------------------------------------------------
(* Steps of spawning.                                                      *)

LEMMA SpawnStep == ASSUME Inv, Spawn PROVE Inv'
<1>1. TypeOK'
  <2>1. Flags'
      BY DEF Inv, TypeOK, Flags, Spawn, Main, Failing, thread, inbox
  <2>2. States'
      BY DEF Inv, TypeOK, States, LeaderState, Live, Outcome, Spawn, Main, terminal,
             thread
  <2>3. (pc \in Place)'
      BY DEF Inv, TypeOK, Place, Polling, Spawn, Main, Goto
  <2>4. Counts'
    <3>1. faults' = faults \/ (faults < MaxFaults /\ faults' = faults + 1)
        BY DEF Spawn, Failing
    <3>2. UNCHANGED <<inbox, stops>>
        BY DEF Spawn, Main
    <3> QED
        BY <3>1, <3>2, SupervisorAssumption DEF Inv, TypeOK, Counts, inbox
  <2> QED
      BY <2>1, <2>2, <2>3, <2>4 DEF TypeOK
<1>2. PlaceOK'
    BY DEF Inv, TypeOK, States, PlaceOK, TerminalReturned, Alive, Live, Spawn, Main,
           Goto, Failing, terminal
<1>3. OutcomeWhenGone'
    BY DEF Inv, TypeOK, States, PlaceOK, OutcomeWhenGone, Alive, Live, Spawn, Main,
           Goto, Failing
<1>4. TerminalReturned'
    BY DEF Inv, PlaceOK, TerminalReturned, Spawn, Main, Goto, Failing, terminal
<1>5. StopsAsOne'
    BY DEF Inv, PlaceOK, TerminalReturned, StopsAsOne, Spawn, Main, Goto, Failing,
           terminal
<1> QED
    BY <1>1, <1>2, <1>3, <1>4, <1>5, InvFrom

LEMMA RecordSpawnedStep == ASSUME Inv, RecordSpawned PROVE Inv'
<1>1. TypeOK'
  <2>1. Flags'
      BY DEF Inv, TypeOK, Flags, RecordSpawned, Main, Failing, cargo, thread, inbox
  <2>2. States'
      BY DEF Inv, TypeOK, States, RecordSpawned, Main, cargo, terminal, thread
  <2>3. (pc \in Place)'
      BY DEF Inv, TypeOK, Place, Polling, RecordSpawned, Main, Goto
  <2>4. Counts'
    <3>1. faults' = faults \/ (faults < MaxFaults /\ faults' = faults + 1)
        BY DEF RecordSpawned, Failing
    <3>2. UNCHANGED <<inbox, stops>>
        BY DEF RecordSpawned, Main
    <3> QED
        BY <3>1, <3>2, SupervisorAssumption DEF Inv, TypeOK, Counts, inbox
  <2> QED
      BY <2>1, <2>2, <2>3, <2>4 DEF TypeOK
<1>2. PlaceOK'
    BY FailingCounted DEF Inv, TypeOK, States, PlaceOK, TerminalReturned, Alive, Live,
           RecordSpawned, Main, Goto, cargo, terminal
<1>3. OutcomeWhenGone'
    BY DEF Inv, TypeOK, States, PlaceOK, OutcomeWhenGone, Alive, Live, RecordSpawned,
           Main, Goto, Failing, cargo
<1>4. TerminalReturned'
    BY DEF Inv, PlaceOK, TerminalReturned, RecordSpawned, Main, Goto, Failing, terminal
<1>5. StopsAsOne'
    BY DEF Inv, PlaceOK, TerminalReturned, StopsAsOne, RecordSpawned, Main, Goto,
           Failing, terminal
<1> QED
    BY <1>1, <1>2, <1>3, <1>4, <1>5, InvFrom

LEMMA StartForwarderStep == ASSUME Inv, StartForwarder PROVE Inv'
<1>1. TypeOK'
  <2>1. Flags'
      BY DEF Inv, TypeOK, Flags, StartForwarder, Main, Failing, cargo, inbox
  <2>2. States'
      BY DEF Inv, TypeOK, States, ForwarderState, StartForwarder, Main, cargo, terminal
  <2>3. (pc \in Place)'
      BY DEF Inv, TypeOK, Place, Polling, StartForwarder, Main, Goto
  <2>4. Counts'
    <3>1. faults' = faults \/ (faults < MaxFaults /\ faults' = faults + 1)
        BY DEF StartForwarder, Failing
    <3>2. UNCHANGED <<inbox, stops>>
        BY DEF StartForwarder, Main
    <3> QED
        BY <3>1, <3>2, SupervisorAssumption DEF Inv, TypeOK, Counts, inbox
  <2> QED
      BY <2>1, <2>2, <2>3, <2>4 DEF TypeOK
<1>2. PlaceOK'
    BY FailingCounted DEF Inv, TypeOK, States, PlaceOK, TerminalReturned, Alive, Live,
           StartForwarder, Main, Goto, cargo, terminal
<1>3. OutcomeWhenGone'
    BY DEF Inv, TypeOK, States, PlaceOK, OutcomeWhenGone, Alive, Live, StartForwarder,
           Main, Goto, Failing, cargo
<1>4. TerminalReturned'
    BY DEF Inv, PlaceOK, TerminalReturned, StartForwarder, Main, Goto, Failing, terminal
<1>5. StopsAsOne'
    BY DEF Inv, PlaceOK, TerminalReturned, StopsAsOne, StartForwarder, Main, Goto,
           Failing, terminal
<1> QED
    BY <1>1, <1>2, <1>3, <1>4, <1>5, InvFrom

LEMMA HandOffStep == ASSUME Inv, HandOff PROVE Inv'
<1>1. TypeOK'
  <2>1. Flags'
      BY DEF Inv, TypeOK, Flags, HandOff, Main, Failing, cargo, thread, inbox
  <2>2. States'
      BY DEF Inv, TypeOK, States, HandoffState, HandOff, Main, cargo, thread
  <2>3. (pc \in Place)'
      BY DEF Inv, TypeOK, Place, Polling, HandOff, Main, Goto
  <2>4. Counts'
    <3>1. faults' = faults \/ (faults < MaxFaults /\ faults' = faults + 1)
        BY DEF HandOff, Failing
    <3>2. UNCHANGED <<inbox, stops>>
        BY DEF HandOff, Main
    <3> QED
        BY <3>1, <3>2, SupervisorAssumption DEF Inv, TypeOK, Counts, inbox
  <2> QED
      BY <2>1, <2>2, <2>3, <2>4 DEF TypeOK
<1>2. PlaceOK'
    BY FailingCounted DEF Inv, TypeOK, States, PlaceOK, TerminalReturned, Alive, Live,
           HandOff, Main, Goto, cargo
<1>3. OutcomeWhenGone'
    BY DEF Inv, TypeOK, States, PlaceOK, OutcomeWhenGone, Alive, Live, HandOff, Main,
           Goto, Failing, cargo
<1>4. TerminalReturned'
    BY DEF Inv, PlaceOK, TerminalReturned, HandOff, Main, Goto, Failing
<1>5. StopsAsOne'
    BY DEF Inv, PlaceOK, TerminalReturned, StopsAsOne, HandOff, Main, Goto, Failing
<1> QED
    BY <1>1, <1>2, <1>3, <1>4, <1>5, InvFrom

LEMMA GiveFirstStep == ASSUME Inv, GiveFirst PROVE Inv'
<1>1. TypeOK'
  <2>1. Flags'
      BY DEF Inv, TypeOK, Flags, GiveFirst, Main, Failing, cargo, thread, inbox
  <2>2. States'
      BY DEF Inv, TypeOK, States, Owner, HandoffState, GiveFirst, Main, cargo, thread
  <2>3. (pc \in Place)'
      BY DEF Inv, TypeOK, Place, Polling, GiveFirst, Main, Goto
  <2>4. Counts'
    <3>1. faults' = faults \/ (faults < MaxFaults /\ faults' = faults + 1)
        BY DEF GiveFirst, Failing
    <3>2. UNCHANGED <<inbox, stops>>
        BY DEF GiveFirst, Main
    <3> QED
        BY <3>1, <3>2, SupervisorAssumption DEF Inv, TypeOK, Counts, inbox
  <2> QED
      BY <2>1, <2>2, <2>3, <2>4 DEF TypeOK
<1>2. PlaceOK'
    BY FailingCounted DEF Inv, TypeOK, States, PlaceOK, TerminalReturned, Alive, Live,
           GiveFirst, Main, Goto, cargo
<1>3. OutcomeWhenGone'
    BY DEF Inv, TypeOK, States, PlaceOK, OutcomeWhenGone, Alive, Live, GiveFirst, Main,
           Goto, Failing, cargo
<1>4. TerminalReturned'
    BY DEF Inv, PlaceOK, TerminalReturned, GiveFirst, Main, Goto, Failing
<1>5. StopsAsOne'
    BY DEF Inv, PlaceOK, TerminalReturned, StopsAsOne, GiveFirst, Main, Goto, Failing
<1> QED
    BY <1>1, <1>2, <1>3, <1>4, <1>5, InvFrom

LEMMA ContinueFirstStep == ASSUME Inv, ContinueFirst PROVE Inv'
<1>1. TypeOK'
  <2>1. Flags'
      BY DEF Inv, TypeOK, Flags, ContinueFirst, Main, Answers, DropTerminal, Failing,
             Restored, ContinueGroup, cargo, thread, inbox
  <2>2. States'
      BY DEF Inv, TypeOK, States, LeaderState, MemberState, Event, Owner, HandoffState,
             ForwarderState, Live, ContinueFirst, Main, Answers, DropTerminal, Failing,
             Restored, ContinueGroup, Continue, cargo, terminal, thread
  <2>3. (pc \in Place)'
      BY DEF Inv, TypeOK, Place, Polling, ContinueFirst, Main, Answers, Goto
  <2>4. Counts'
    <3>1. faults' = faults \/ (faults < MaxFaults /\ faults' = faults + 1)
        BY DEF ContinueFirst, DropTerminal, Failing
    <3>2. UNCHANGED <<inbox, stops>>
        BY DEF ContinueFirst, Main
    <3> QED
        BY <3>1, <3>2, SupervisorAssumption DEF Inv, TypeOK, Counts, inbox
  <2> QED
      BY <2>1, <2>2, <2>3, <2>4 DEF TypeOK
<1>2. PlaceOK'
    BY FaultsCounted DEF Inv, TypeOK, States, PlaceOK, TerminalReturned, Alive, Live,
           ContinueFirst, Main, Answers, Goto, DropTerminal, Failing, Restored,
           ContinueGroup, Continue, cargo, terminal
<1>3. OutcomeWhenGone'
    BY DEF Inv, TypeOK, States, PlaceOK, OutcomeWhenGone, Alive, Live, ContinueFirst,
           Main, Answers, Goto, DropTerminal, Failing, Restored, ContinueGroup,
           Continue, cargo
<1>4. TerminalReturned'
    BY DEF Inv, PlaceOK, TerminalReturned, ContinueFirst, Main, Answers, Goto,
           DropTerminal, Failing, Restored, ContinueGroup, terminal
<1>5. StopsAsOne'
    BY DEF Inv, PlaceOK, TerminalReturned, StopsAsOne, ContinueFirst, Main, Answers,
           Goto, DropTerminal, Failing, Restored, ContinueGroup, terminal
<1> QED
    BY <1>1, <1>2, <1>3, <1>4, <1>5, InvFrom

LEMMA KillSpawnedStep == ASSUME Inv, KillSpawned PROVE Inv'
<1>1. TypeOK'
  <2>1. Flags'
      BY DEF Inv, TypeOK, Flags, KillSpawned, Main, Answers, Failing, inbox
  <2>2. States'
      BY DEF Inv, TypeOK, States, ForwarderState, Outcome, KillSpawned, Main, Answers,
             terminal
  <2>3. (pc \in Place)'
      BY DEF Inv, TypeOK, Place, Polling, KillSpawned, Main, Answers, Goto
  <2>4. Counts'
    <3>1. faults' = faults \/ (faults < MaxFaults /\ faults' = faults + 1)
        BY DEF KillSpawned, Failing
    <3>2. UNCHANGED <<inbox, stops>>
        BY DEF KillSpawned, Main
    <3> QED
        BY <3>1, <3>2, SupervisorAssumption DEF Inv, TypeOK, Counts, inbox
  <2> QED
      BY <2>1, <2>2, <2>3, <2>4 DEF TypeOK
<1>2. PlaceOK'
    BY FailingCounted DEF Inv, TypeOK, States, PlaceOK, TerminalReturned, Alive, Live,
           KillSpawned, Main, Answers, Goto, terminal
<1>3. OutcomeWhenGone'
    BY DEF Inv, TypeOK, States, PlaceOK, OutcomeWhenGone, Alive, Live, KillSpawned,
           Main, Answers, Goto, Failing
<1>4. TerminalReturned'
    BY DEF Inv, PlaceOK, TerminalReturned, KillSpawned, Main, Answers, Goto, Failing,
           terminal
<1>5. StopsAsOne'
    BY DEF Inv, PlaceOK, TerminalReturned, StopsAsOne, KillSpawned, Main, Answers,
           Goto, Failing, terminal
<1> QED
    BY <1>1, <1>2, <1>3, <1>4, <1>5, InvFrom

LEMMA ReapSpawnedStep == ASSUME Inv, ReapSpawned PROVE Inv'
<1>1. TypeOK'
  <2>1. Flags'
      BY DEF Inv, TypeOK, Flags, ReapSpawned, Failing, Main, thread, inbox
  <2>2. States'
      BY DEF Inv, TypeOK, States, LeaderState, Outcome, ReapSpawned, Failing, Main,
             terminal, thread
  <2>3. (pc \in Place)'
      BY DEF Inv, TypeOK, Place, Polling, ReapSpawned, Failing, Main, Goto
  <2>4. Counts'
    <3>1. faults' = faults \/ (faults < MaxFaults /\ faults' = faults + 1)
        BY DEF ReapSpawned, Failing
    <3>2. UNCHANGED <<inbox, stops>>
        BY DEF ReapSpawned, Failing, Main
    <3> QED
        BY <3>1, <3>2, SupervisorAssumption DEF Inv, TypeOK, Counts, inbox
  <2> QED
      BY <2>1, <2>2, <2>3, <2>4 DEF TypeOK
<1>2. PlaceOK'
    BY FaultsCounted DEF Inv, TypeOK, States, PlaceOK, TerminalReturned, Alive, Live,
           ReapSpawned, Failing, Main, Goto, terminal
<1>3. OutcomeWhenGone'
    BY FaultsCounted DEF Inv, TypeOK, States, PlaceOK, OutcomeWhenGone, Alive, Live,
           ReapSpawned, Failing, Main, Goto
<1>4. TerminalReturned'
    BY DEF Inv, PlaceOK, TerminalReturned, ReapSpawned, Failing, Main, Goto, terminal
<1>5. StopsAsOne'
    BY DEF Inv, PlaceOK, TerminalReturned, StopsAsOne, ReapSpawned, Failing, Main, Goto,
           terminal
<1> QED
    BY <1>1, <1>2, <1>3, <1>4, <1>5, InvFrom

LEMMA TrySpawnedStep == ASSUME Inv, TrySpawned PROVE Inv'
<1>1. TypeOK'
  <2>1. Flags'
      BY DEF Inv, TypeOK, Flags, TrySpawned, Failing, Main, thread, inbox
  <2>2. States'
      BY DEF Inv, TypeOK, States, LeaderState, Outcome, TrySpawned, Failing, Main,
             terminal, thread
  <2>3. (pc \in Place)'
      BY DEF Inv, TypeOK, Place, Polling, TrySpawned, Failing, Main, Goto
  <2>4. Counts'
    <3>1. faults' = faults \/ (faults < MaxFaults /\ faults' = faults + 1)
        BY DEF TrySpawned, Failing
    <3>2. UNCHANGED <<inbox, stops>>
        BY DEF TrySpawned, Failing, Main
    <3> QED
        BY <3>1, <3>2, SupervisorAssumption DEF Inv, TypeOK, Counts, inbox
  <2> QED
      BY <2>1, <2>2, <2>3, <2>4 DEF TypeOK
<1>2. PlaceOK'
    BY FaultsCounted DEF Inv, TypeOK, States, PlaceOK, TerminalReturned, Alive, Live,
           TrySpawned, Failing, Main, Goto, terminal
<1>3. OutcomeWhenGone'
    BY FaultsCounted DEF Inv, TypeOK, States, PlaceOK, OutcomeWhenGone, Alive, Live,
           TrySpawned, Failing, Main, Goto
<1>4. TerminalReturned'
    BY DEF Inv, PlaceOK, TerminalReturned, TrySpawned, Failing, Main, Goto, terminal
<1>5. StopsAsOne'
    BY DEF Inv, PlaceOK, TerminalReturned, StopsAsOne, TrySpawned, Failing, Main, Goto,
           terminal
<1> QED
    BY <1>1, <1>2, <1>3, <1>4, <1>5, InvFrom

-----------------------------------------------------------------------------
(* Steps of a poll of the leader.                                          *)

LEMMA CheckStep == ASSUME Inv, Check PROVE Inv'
<1>1. TypeOK'
  <2>1. Flags'
      BY DEF Inv, TypeOK, Flags, Check, Main, cargo, inbox
  <2>2. States'
      BY DEF Inv, TypeOK, States, ForwarderState, Check, Main, cargo, terminal
  <2>3. (pc \in Place)'
      BY DEF Inv, TypeOK, Place, Polling, Check, Main, Goto
  <2>4. Counts'
      BY SupervisorAssumption DEF Inv, TypeOK, Counts, Check, Main, inbox
  <2> QED
      BY <2>1, <2>2, <2>3, <2>4 DEF TypeOK
<1>2. PlaceOK'
    BY DEF Inv, TypeOK, States, PlaceOK, TerminalReturned, Alive, Live, Check, Main,
           Goto, cargo, terminal
<1>3. OutcomeWhenGone'
    BY DEF Inv, TypeOK, States, PlaceOK, OutcomeWhenGone, Alive, Live, Check, Main,
           Goto, cargo
<1>4. TerminalReturned'
    BY DEF Inv, PlaceOK, TerminalReturned, Check, Main, Goto, terminal
<1>5. StopsAsOne'
    BY DEF Inv, PlaceOK, TerminalReturned, StopsAsOne, Check, Main, Goto, terminal
<1> QED
    BY <1>1, <1>2, <1>3, <1>4, <1>5, InvFrom

LEMMA ObserveExitStep == ASSUME Inv, ObserveExit PROVE Inv'
<1>1. TypeOK'
  <2>1. Flags'
      BY DEF Inv, TypeOK, Flags, ObserveExit, Main, RecordExit, inbox
  <2>2. States'
      BY DEF Inv, TypeOK, States, LeaderState, ObserveExit, Main, RecordExit, terminal
  <2>3. (pc \in Place)'
      BY DEF Inv, TypeOK, Place, Polling, ObserveExit, Main, Goto
  <2>4. Counts'
      BY SupervisorAssumption DEF Inv, TypeOK, Counts, ObserveExit, Main, inbox
  <2> QED
      BY <2>1, <2>2, <2>3, <2>4 DEF TypeOK
<1>2. PlaceOK'
    BY DEF Inv, TypeOK, States, PlaceOK, TerminalReturned, Alive, Live, ObserveExit,
           Main, Goto, RecordExit, terminal
<1>3. OutcomeWhenGone'
    BY DEF Inv, TypeOK, States, PlaceOK, OutcomeWhenGone, Alive, Live, ObserveExit,
           Main, Goto, RecordExit
<1>4. TerminalReturned'
    BY DEF Inv, PlaceOK, TerminalReturned, ObserveExit, Main, Goto, RecordExit, terminal
<1>5. StopsAsOne'
    BY DEF Inv, PlaceOK, TerminalReturned, StopsAsOne, ObserveExit, Main, Goto,
           RecordExit, terminal
<1> QED
    BY <1>1, <1>2, <1>3, <1>4, <1>5, InvFrom

LEMMA ObserveRunningStep == ASSUME Inv, ObserveRunning PROVE Inv'
<1>1. TypeOK'
  <2>1. Flags'
      BY DEF Inv, TypeOK, Flags, ObserveRunning, Main, thread, inbox
  <2>2. States'
      BY DEF Inv, TypeOK, States, Event, ObserveRunning, Main, terminal, thread
  <2>3. (pc \in Place)'
      BY DEF Inv, TypeOK, Place, Polling, ObserveRunning, Main, Goto
  <2>4. Counts'
      BY SupervisorAssumption DEF Inv, TypeOK, Counts, ObserveRunning, Main, inbox
  <2> QED
      BY <2>1, <2>2, <2>3, <2>4 DEF TypeOK
<1>2. PlaceOK'
    BY DEF Inv, TypeOK, States, PlaceOK, TerminalReturned, Alive, Live, ObserveRunning,
           Main, Goto, terminal
<1>3. OutcomeWhenGone'
    BY DEF Inv, TypeOK, States, PlaceOK, OutcomeWhenGone, Alive, Live, ObserveRunning,
           Main, Goto
<1>4. TerminalReturned'
    BY DEF Inv, PlaceOK, TerminalReturned, ObserveRunning, Main, Goto, terminal
<1>5. StopsAsOne'
    BY DEF Inv, PlaceOK, TerminalReturned, StopsAsOne, ObserveRunning, Main, Goto,
           terminal
<1> QED
    BY <1>1, <1>2, <1>3, <1>4, <1>5, InvFrom

LEMMA IsInForegroundStep == ASSUME Inv, IsInForeground PROVE Inv'
<1>1. TypeOK'
  <2>1. Flags'
      BY DEF Inv, TypeOK, Flags, IsInForeground, Main, cargo, thread, inbox
  <2>2. States'
      BY DEF Inv, TypeOK, States, IsInForeground, Main, cargo, terminal, thread
  <2>3. (pc \in Place)'
      BY DEF Inv, TypeOK, Place, Polling, IsInForeground, Main, Goto
  <2>4. Counts'
      BY SupervisorAssumption DEF Inv, TypeOK, Counts, IsInForeground, Main, inbox
  <2> QED
      BY <2>1, <2>2, <2>3, <2>4 DEF TypeOK
<1>2. PlaceOK'
    BY DEF Inv, TypeOK, States, PlaceOK, TerminalReturned, Alive, Live, IsInForeground,
           Main, Goto, cargo, terminal
<1>3. OutcomeWhenGone'
    BY DEF Inv, TypeOK, States, PlaceOK, OutcomeWhenGone, Alive, Live, IsInForeground,
           Main, Goto, cargo
<1>4. TerminalReturned'
    BY DEF Inv, PlaceOK, TerminalReturned, IsInForeground, Main, Goto, terminal
<1>5. StopsAsOne'
    BY DEF Inv, PlaceOK, TerminalReturned, StopsAsOne, IsInForeground, Main, Goto,
           terminal
<1> QED
    BY <1>1, <1>2, <1>3, <1>4, <1>5, InvFrom

LEMMA ObserveStopStep == ASSUME Inv, ObserveStop PROVE Inv'
<1>1. TypeOK'
  <2>1. Flags'
      BY DEF Inv, TypeOK, Flags, ObserveStop, Main, thread, inbox
  <2>2. States'
      BY DEF Inv, TypeOK, States, Event, ObserveStop, Main, terminal, thread
  <2>3. (pc \in Place)'
      BY DEF Inv, TypeOK, Place, Polling, ObserveStop, Main, Goto
  <2>4. Counts'
      BY SupervisorAssumption DEF Inv, TypeOK, Counts, ObserveStop, Main, inbox
  <2> QED
      BY <2>1, <2>2, <2>3, <2>4 DEF TypeOK
<1>2. PlaceOK'
    BY DEF Inv, TypeOK, States, PlaceOK, TerminalReturned, Alive, Live, ObserveStop,
           Main, Goto, terminal
<1>3. OutcomeWhenGone'
    BY DEF Inv, TypeOK, States, PlaceOK, OutcomeWhenGone, Alive, Live, ObserveStop,
           Main, Goto
<1>4. TerminalReturned'
    BY DEF Inv, PlaceOK, TerminalReturned, ObserveStop, Main, Goto, terminal
<1>5. StopsAsOne'
    BY DEF Inv, PlaceOK, TerminalReturned, StopsAsOne, ObserveStop, Main, Goto, terminal
<1> QED
    BY <1>1, <1>2, <1>3, <1>4, <1>5, InvFrom

LEMMA FollowStopStep == ASSUME Inv, FollowStop PROVE Inv'
<1>1. TypeOK'
  <2>1. Flags'
      BY DEF Inv, TypeOK, Flags, FollowStop, Main, cargo, thread, inbox
  <2>2. States'
      BY DEF Inv, TypeOK, States, FollowStop, Main, cargo, terminal, thread
  <2>3. (pc \in Place)'
      BY DEF Inv, TypeOK, Place, Polling, FollowStop, Main, Goto
  <2>4. Counts'
      BY SupervisorAssumption DEF Inv, TypeOK, Counts, FollowStop, Main, inbox
  <2> QED
      BY <2>1, <2>2, <2>3, <2>4 DEF TypeOK
<1>2. PlaceOK'
    BY DEF Inv, TypeOK, States, PlaceOK, TerminalReturned, Alive, Live, FollowStop,
           Main, Goto, cargo, terminal
<1>3. OutcomeWhenGone'
    BY DEF Inv, TypeOK, States, PlaceOK, OutcomeWhenGone, Alive, Live, FollowStop,
           Main, Goto, cargo
<1>4. TerminalReturned'
    BY DEF Inv, PlaceOK, TerminalReturned, FollowStop, Main, Goto, terminal
<1>5. StopsAsOne'
    BY DEF Inv, PlaceOK, TerminalReturned, StopsAsOne, FollowStop, Main, Goto, terminal
<1> QED
    BY <1>1, <1>2, <1>3, <1>4, <1>5, InvFrom

LEMMA QuiesceStep == ASSUME Inv, Quiesce PROVE Inv'
<1>1. TypeOK'
  <2>1. Flags'
      BY DEF Inv, TypeOK, Flags, Quiesce, Main, Answers, StopGroup, cargo, thread, inbox
  <2>2. States'
      BY DEF Inv, TypeOK, States, LeaderState, MemberState, Event, Live, Quiesce, Main,
             Answers, StopGroup, Stop, cargo, terminal, thread
  <2>3. (pc \in Place)'
      BY DEF Inv, TypeOK, Place, Polling, Quiesce, Main, Answers, Goto
  <2>4. Counts'
      BY SupervisorAssumption DEF Inv, TypeOK, Counts, Quiesce, Main, inbox
  <2> QED
      BY <2>1, <2>2, <2>3, <2>4 DEF TypeOK
<1>2. PlaceOK'
    BY DEF Inv, TypeOK, States, PlaceOK, TerminalReturned, Alive, Live, Quiesce, Main,
           Answers, Goto, StopGroup, Stop, cargo, terminal
<1>3. OutcomeWhenGone'
    BY DEF Inv, TypeOK, States, PlaceOK, OutcomeWhenGone, Alive, Live, Quiesce, Main,
           Answers, Goto, StopGroup, Stop, cargo
<1>4. TerminalReturned'
    BY DEF Inv, PlaceOK, TerminalReturned, Quiesce, Main, Answers, Goto, StopGroup,
           terminal
<1>5. StopsAsOne'
    BY DEF Inv, PlaceOK, TerminalReturned, StopsAsOne, Quiesce, Main, Answers, Goto,
           StopGroup, terminal
<1> QED
    BY <1>1, <1>2, <1>3, <1>4, <1>5, InvFrom

LEMMA ReclaimStep == ASSUME Inv, Reclaim PROVE Inv'
<1>1. TypeOK'
  <2>1. Flags'
      BY DEF Inv, TypeOK, Flags, Reclaim, Main, cargo, thread, inbox
  <2>2. States'
      BY DEF Inv, TypeOK, States, Owner, HandoffState, Reclaim, Main, cargo, thread
  <2>3. (pc \in Place)'
      BY DEF Inv, TypeOK, Place, Polling, Reclaim, Main, Goto
  <2>4. Counts'
      BY SupervisorAssumption DEF Inv, TypeOK, Counts, Reclaim, Main, inbox
  <2> QED
      BY <2>1, <2>2, <2>3, <2>4 DEF TypeOK
<1>2. PlaceOK'
    BY DEF Inv, TypeOK, States, PlaceOK, TerminalReturned, Alive, Live, Reclaim, Main,
           Goto, cargo
<1>3. OutcomeWhenGone'
    BY DEF Inv, TypeOK, States, PlaceOK, OutcomeWhenGone, Alive, Live, Reclaim, Main,
           Goto, cargo
<1>4. TerminalReturned'
    BY DEF Inv, PlaceOK, TerminalReturned, Reclaim, Main, Goto
<1>5. StopsAsOne'
    BY DEF Inv, PlaceOK, TerminalReturned, StopsAsOne, Reclaim, Main, Goto
<1> QED
    BY <1>1, <1>2, <1>3, <1>4, <1>5, InvFrom

LEMMA SleepStep == ASSUME Inv, Sleep PROVE Inv'
<1>1. TypeOK'
  <2>1. Flags'
      BY DEF Inv, TypeOK, Flags, Sleep, cargo, thread, inbox
  <2>2. States'
      BY DEF Inv, TypeOK, States, Live, Sleep, cargo, terminal, thread
  <2>3. (pc \in Place)'
      BY DEF Inv, TypeOK, Place, Polling, Sleep, Goto
  <2>4. Counts'
      BY SupervisorAssumption DEF Inv, TypeOK, Counts, Sleep, inbox, bounds
  <2> QED
      BY <2>1, <2>2, <2>3, <2>4 DEF TypeOK
<1>2. PlaceOK'
    BY DEF Inv, TypeOK, States, PlaceOK, TerminalReturned, Alive, Live, Sleep, Goto,
           cargo, terminal
<1>3. OutcomeWhenGone'
    BY DEF Inv, TypeOK, States, PlaceOK, OutcomeWhenGone, Alive, Live, Sleep, Goto,
           cargo
<1>4. TerminalReturned'
    BY DEF Inv, PlaceOK, TerminalReturned, Sleep, Goto, terminal
<1>5. StopsAsOne'
    BY DEF Inv, PlaceOK, TerminalReturned, StopsAsOne, Sleep, Goto, terminal
<1> QED
    BY <1>1, <1>2, <1>3, <1>4, <1>5, InvFrom

LEMMA ResumeStep == ASSUME Inv, Resume PROVE Inv'
<1>1. TypeOK'
  <2>1. Flags'
      BY DEF Inv, TypeOK, Flags, Resume, Main, cargo, thread, inbox
  <2>2. States'
      BY DEF Inv, TypeOK, States, HandoffState, Resume, Main, cargo, thread
  <2>3. (pc \in Place)'
      BY DEF Inv, TypeOK, Place, Polling, Resume, Main, Goto
  <2>4. Counts'
      BY SupervisorAssumption DEF Inv, TypeOK, Counts, Resume, Main, inbox
  <2> QED
      BY <2>1, <2>2, <2>3, <2>4 DEF TypeOK
<1>2. PlaceOK'
    BY DEF Inv, TypeOK, States, PlaceOK, TerminalReturned, Alive, Live, Resume, Main,
           Goto, cargo
<1>3. OutcomeWhenGone'
    BY DEF Inv, TypeOK, States, PlaceOK, OutcomeWhenGone, Alive, Live, Resume, Main,
           Goto, cargo
<1>4. TerminalReturned'
    BY DEF Inv, PlaceOK, TerminalReturned, Resume, Main, Goto
<1>5. StopsAsOne'
    BY DEF Inv, PlaceOK, TerminalReturned, StopsAsOne, Resume, Main, Goto
<1> QED
    BY <1>1, <1>2, <1>3, <1>4, <1>5, InvFrom

LEMMA GiveStep == ASSUME Inv, Give PROVE Inv'
<1>1. TypeOK'
  <2>1. Flags'
      BY DEF Inv, TypeOK, Flags, Give, Main, cargo, thread, inbox
  <2>2. States'
      BY DEF Inv, TypeOK, States, Owner, HandoffState, Give, Main, cargo, thread
  <2>3. (pc \in Place)'
      BY DEF Inv, TypeOK, Place, Polling, Give, Main, Goto
  <2>4. Counts'
      BY SupervisorAssumption DEF Inv, TypeOK, Counts, Give, Main, inbox
  <2> QED
      BY <2>1, <2>2, <2>3, <2>4 DEF TypeOK
<1>2. PlaceOK'
    BY DEF Inv, TypeOK, States, PlaceOK, TerminalReturned, Alive, Live, Give, Main,
           Goto, cargo
<1>3. OutcomeWhenGone'
    BY DEF Inv, TypeOK, States, PlaceOK, OutcomeWhenGone, Alive, Live, Give, Main,
           Goto, cargo
<1>4. TerminalReturned'
    BY DEF Inv, PlaceOK, TerminalReturned, Give, Main, Goto
<1>5. StopsAsOne'
    BY DEF Inv, PlaceOK, TerminalReturned, StopsAsOne, Give, Main, Goto
<1> QED
    BY <1>1, <1>2, <1>3, <1>4, <1>5, InvFrom

LEMMA ContinueCargoStep == ASSUME Inv, ContinueCargo PROVE Inv'
<1>1. TypeOK'
  <2>1. Flags'
      BY DEF Inv, TypeOK, Flags, ContinueCargo, Main, Answers, ContinueGroup,
             RecordExit, inbox
  <2>2. States'
      BY DEF Inv, TypeOK, States, LeaderState, MemberState, Event, Live, ContinueCargo,
             Main, Answers, ContinueGroup, Continue, RecordExit, terminal
  <2>3. (pc \in Place)'
      BY DEF Inv, TypeOK, Place, Polling, ContinueCargo, Main, Answers, Goto
  <2>4. Counts'
      BY SupervisorAssumption DEF Inv, TypeOK, Counts, ContinueCargo, Main, inbox
  <2> QED
      BY <2>1, <2>2, <2>3, <2>4 DEF TypeOK
<1>2. PlaceOK'
    BY DEF Inv, TypeOK, States, PlaceOK, TerminalReturned, Alive, Live, ContinueCargo,
           Main, Answers, Goto, ContinueGroup, Continue, RecordExit, terminal
<1>3. OutcomeWhenGone'
    BY DEF Inv, TypeOK, States, PlaceOK, OutcomeWhenGone, Alive, Live, ContinueCargo,
           Main, Answers, Goto, ContinueGroup, Continue, RecordExit
<1>4. TerminalReturned'
    BY DEF Inv, PlaceOK, TerminalReturned, ContinueCargo, Main, Answers, Goto,
           ContinueGroup, RecordExit, terminal
<1>5. StopsAsOne'
    BY DEF Inv, PlaceOK, TerminalReturned, StopsAsOne, ContinueCargo, Main, Answers,
           Goto, ContinueGroup, RecordExit, terminal
<1> QED
    BY <1>1, <1>2, <1>3, <1>4, <1>5, InvFrom

LEMMA RestoreStep == ASSUME Inv, Restore PROVE Inv'
<1>1. TypeOK'
  <2>1. Flags'
      BY DEF Inv, TypeOK, Flags, Restore, Main, Restored, cargo, thread, inbox
  <2>2. States'
      BY DEF Inv, TypeOK, States, Owner, HandoffState, Restore, Main, Restored, cargo,
             thread
  <2>3. (pc \in Place)'
      BY DEF Inv, TypeOK, Place, Polling, Restore, Main, Goto
  <2>4. Counts'
      BY SupervisorAssumption DEF Inv, TypeOK, Counts, Restore, Main, inbox
  <2> QED
      BY <2>1, <2>2, <2>3, <2>4 DEF TypeOK
<1>2. PlaceOK'
    BY DEF Inv, TypeOK, States, PlaceOK, TerminalReturned, Alive, Live, Restore, Main,
           Goto, Restored, cargo
<1>3. OutcomeWhenGone'
    BY DEF Inv, TypeOK, States, PlaceOK, OutcomeWhenGone, Alive, Live, Restore, Main,
           Goto, Restored, cargo
<1>4. TerminalReturned'
    BY DEF Inv, PlaceOK, TerminalReturned, Restore, Main, Goto, Restored
<1>5. StopsAsOne'
    BY DEF Inv, PlaceOK, TerminalReturned, StopsAsOne, Restore, Main, Goto, Restored
<1> QED
    BY <1>1, <1>2, <1>3, <1>4, <1>5, InvFrom

LEMMA IsGroupAliveStep == ASSUME Inv, IsGroupAlive PROVE Inv'
<1>1. TypeOK'
  <2>1. Flags'
      BY DEF Inv, TypeOK, Flags, IsGroupAlive, Main, cargo, thread, inbox
  <2>2. States'
      BY DEF Inv, TypeOK, States, IsGroupAlive, Main, cargo, terminal, thread
  <2>3. (pc \in Place)'
      BY DEF Inv, TypeOK, Place, Polling, IsGroupAlive, Main, Goto
  <2>4. Counts'
      BY SupervisorAssumption DEF Inv, TypeOK, Counts, IsGroupAlive, Main, inbox
  <2> QED
      BY <2>1, <2>2, <2>3, <2>4 DEF TypeOK
<1>2. PlaceOK'
    BY DEF Inv, TypeOK, States, PlaceOK, TerminalReturned, Alive, Live, IsGroupAlive,
           Main, Goto, cargo, terminal
<1>3. OutcomeWhenGone'
    BY DEF Inv, TypeOK, States, PlaceOK, OutcomeWhenGone, Alive, Live, IsGroupAlive,
           Main, Goto, cargo
<1>4. TerminalReturned'
    BY DEF Inv, PlaceOK, TerminalReturned, IsGroupAlive, Main, Goto, terminal
<1>5. StopsAsOne'
    BY DEF Inv, PlaceOK, TerminalReturned, StopsAsOne, IsGroupAlive, Main, Goto,
           terminal
<1> QED
    BY <1>1, <1>2, <1>3, <1>4, <1>5, InvFrom

LEMMA StopForwardingStep == ASSUME Inv, StopForwarding PROVE Inv'
<1>1. TypeOK'
  <2>1. Flags'
      BY DEF Inv, TypeOK, Flags, StopForwarding, Main, cargo, inbox
  <2>2. States'
      BY DEF Inv, TypeOK, States, ForwarderState, Outcome, StopForwarding, Main, cargo,
             terminal
  <2>3. (pc \in Place)'
      BY DEF Inv, TypeOK, Place, Polling, StopForwarding, Main, Goto
  <2>4. Counts'
      BY SupervisorAssumption DEF Inv, TypeOK, Counts, StopForwarding, Main, inbox
  <2> QED
      BY <2>1, <2>2, <2>3, <2>4 DEF TypeOK
<1>2. PlaceOK'
    BY DEF Inv, TypeOK, States, PlaceOK, TerminalReturned, Alive, Live, StopForwarding,
           Main, Goto, cargo, terminal
<1>3. OutcomeWhenGone'
    BY DEF Inv, TypeOK, States, PlaceOK, OutcomeWhenGone, Alive, Live, StopForwarding,
           Main, Goto, cargo
<1>4. TerminalReturned'
    BY DEF Inv, PlaceOK, TerminalReturned, StopForwarding, Main, Goto, terminal
<1>5. StopsAsOne'
    BY DEF Inv, PlaceOK, TerminalReturned, StopsAsOne, StopForwarding, Main, Goto,
           terminal
<1> QED
    BY <1>1, <1>2, <1>3, <1>4, <1>5, InvFrom

-----------------------------------------------------------------------------
(* Steps of the termination after an error.                                *)

LEMMA KillStep == ASSUME Inv, Kill PROVE Inv'
<1>1. TypeOK'
  <2>1. Flags'
      BY DEF Inv, TypeOK, Flags, Kill, Main, Answers, Failing, LeaveSuspect, thread,
             inbox
  <2>2. States'
      BY DEF Inv, TypeOK, States, Outcome, Kill, Main, Answers, LeaveSuspect, terminal,
             thread
  <2>3. (pc \in Place)'
      BY DEF Inv, TypeOK, Place, Polling, Kill, Main, Answers, Goto, LeaveSuspect
  <2>4. Counts'
    <3>1. faults' = faults \/ (faults < MaxFaults /\ faults' = faults + 1)
        BY DEF Kill, Failing
    <3>2. UNCHANGED <<inbox, stops>>
        BY DEF Kill, Main
    <3> QED
        BY <3>1, <3>2, SupervisorAssumption DEF Inv, TypeOK, Counts, inbox
  <2> QED
      BY <2>1, <2>2, <2>3, <2>4 DEF TypeOK
<1>2. PlaceOK'
    BY DEF Inv, TypeOK, States, PlaceOK, TerminalReturned, Alive, Live, Kill, Main,
           Answers, Goto, Failing, LeaveSuspect, terminal
<1>3. OutcomeWhenGone'
    BY DEF Inv, TypeOK, States, PlaceOK, OutcomeWhenGone, Alive, Live, Kill, Main,
           Answers, Goto, Failing, LeaveSuspect
<1>4. TerminalReturned'
    BY DEF Inv, PlaceOK, TerminalReturned, Kill, Main, Answers, Goto, Failing,
           LeaveSuspect, terminal
<1>5. StopsAsOne'
    BY DEF Inv, PlaceOK, TerminalReturned, StopsAsOne, Kill, Main, Answers, Goto,
           Failing, LeaveSuspect, terminal
<1> QED
    BY <1>1, <1>2, <1>3, <1>4, <1>5, InvFrom

LEMMA ReapStep == ASSUME Inv, Reap PROVE Inv'
<1>1. TypeOK'
  <2>1. Flags'
      BY DEF Inv, TypeOK, Flags, Reap, Main, thread, inbox
  <2>2. States'
      BY DEF Inv, TypeOK, States, LeaderState, Reap, Main, terminal, thread
  <2>3. (pc \in Place)'
      BY DEF Inv, TypeOK, Place, Polling, Reap, Main, Goto
  <2>4. Counts'
      BY SupervisorAssumption DEF Inv, TypeOK, Counts, Reap, Main, inbox
  <2> QED
      BY <2>1, <2>2, <2>3, <2>4 DEF TypeOK
<1>2. PlaceOK'
    BY DEF Inv, TypeOK, States, PlaceOK, TerminalReturned, Alive, Live, Reap, Main,
           Goto, terminal
<1>3. OutcomeWhenGone'
    BY DEF Inv, TypeOK, States, PlaceOK, OutcomeWhenGone, Alive, Live, Reap, Main, Goto
<1>4. TerminalReturned'
    BY DEF Inv, PlaceOK, TerminalReturned, Reap, Main, Goto, terminal
<1>5. StopsAsOne'
    BY DEF Inv, PlaceOK, TerminalReturned, StopsAsOne, Reap, Main, Goto, terminal
<1> QED
    BY <1>1, <1>2, <1>3, <1>4, <1>5, InvFrom

LEMMA WaitForGroupStep == ASSUME Inv, WaitForGroup PROVE Inv'
<1>1. TypeOK'
  <2>1. Flags'
      BY DEF Inv, TypeOK, Flags, WaitForGroup, Main, Restored, LeaveSuspect, cargo,
             inbox
  <2>2. States'
      BY DEF Inv, TypeOK, States, Owner, HandoffState, ForwarderState, Outcome,
             WaitForGroup, Main, Restored, LeaveSuspect, cargo
  <2>3. (pc \in Place)'
      BY DEF Inv, TypeOK, Place, Polling, WaitForGroup, Main, Goto, LeaveSuspect
  <2>4. Counts'
      BY SupervisorAssumption DEF Inv, TypeOK, Counts, WaitForGroup, Main, inbox
  <2> QED
      BY <2>1, <2>2, <2>3, <2>4 DEF TypeOK
<1>2. PlaceOK'
    BY DEF Inv, TypeOK, States, PlaceOK, TerminalReturned, Alive, Live, WaitForGroup,
           Main, Goto, Restored, LeaveSuspect, cargo
<1>3. OutcomeWhenGone'
    BY DEF Inv, TypeOK, States, PlaceOK, OutcomeWhenGone, Alive, Live, WaitForGroup,
           Main, Goto, Restored, LeaveSuspect, cargo
<1>4. TerminalReturned'
    BY DEF Inv, PlaceOK, TerminalReturned, WaitForGroup, Main, Goto, Restored,
           LeaveSuspect
<1>5. StopsAsOne'
    BY DEF Inv, PlaceOK, TerminalReturned, StopsAsOne, WaitForGroup, Main, Goto,
           Restored, LeaveSuspect
<1> QED
    BY <1>1, <1>2, <1>3, <1>4, <1>5, InvFrom

LEMMA DropStep == ASSUME Inv, Drop PROVE Inv'
<1>1. TypeOK'
  <2>1. Flags'
      BY DEF Inv, TypeOK, Flags, Drop, Main, Answers, thread, inbox
  <2>2. States'
      BY DEF Inv, TypeOK, States, Drop, Main, Answers, terminal, thread
  <2>3. (pc \in Place)'
      BY DEF Inv, TypeOK, Place, Polling, Drop, Main, Answers, Goto
  <2>4. Counts'
      BY SupervisorAssumption DEF Inv, TypeOK, Counts, Drop, Main, inbox
  <2> QED
      BY <2>1, <2>2, <2>3, <2>4 DEF TypeOK
<1>2. PlaceOK'
    BY DEF Inv, TypeOK, States, PlaceOK, TerminalReturned, Alive, Live, Drop, Main,
           Answers, Goto, terminal
<1>3. OutcomeWhenGone'
    BY DEF Inv, TypeOK, States, PlaceOK, OutcomeWhenGone, Alive, Live, Drop, Main,
           Answers, Goto
<1>4. TerminalReturned'
    BY DEF Inv, PlaceOK, TerminalReturned, Drop, Main, Answers, Goto, terminal
<1>5. StopsAsOne'
    BY DEF Inv, PlaceOK, TerminalReturned, StopsAsOne, Drop, Main, Answers, Goto,
           terminal
<1> QED
    BY <1>1, <1>2, <1>3, <1>4, <1>5, InvFrom

LEMMA ReapDroppedStep == ASSUME Inv, ReapDropped PROVE Inv'
<1>1. TypeOK'
  <2>1. Flags'
      BY DEF Inv, TypeOK, Flags, ReapDropped, Main, thread, inbox
  <2>2. States'
      BY DEF Inv, TypeOK, States, LeaderState, ReapDropped, Main, terminal, thread
  <2>3. (pc \in Place)'
      BY DEF Inv, TypeOK, Place, Polling, ReapDropped, Main, Goto
  <2>4. Counts'
      BY SupervisorAssumption DEF Inv, TypeOK, Counts, ReapDropped, Main, inbox
  <2> QED
      BY <2>1, <2>2, <2>3, <2>4 DEF TypeOK
<1>2. PlaceOK'
    BY DEF Inv, TypeOK, States, PlaceOK, TerminalReturned, Alive, Live, ReapDropped,
           Main, Goto, terminal
<1>3. OutcomeWhenGone'
    BY DEF Inv, TypeOK, States, PlaceOK, OutcomeWhenGone, Alive, Live, ReapDropped,
           Main, Goto
<1>4. TerminalReturned'
    BY DEF Inv, PlaceOK, TerminalReturned, ReapDropped, Main, Goto, terminal
<1>5. StopsAsOne'
    BY DEF Inv, PlaceOK, TerminalReturned, StopsAsOne, ReapDropped, Main, Goto, terminal
<1> QED
    BY <1>1, <1>2, <1>3, <1>4, <1>5, InvFrom

LEMMA AbandonStep == ASSUME Inv, Abandon PROVE Inv'
<1>1. TypeOK'
  <2>1. Flags'
      BY DEF Inv, TypeOK, Flags, Abandon, Main, DropTerminal, Failing, Restored, cargo,
             inbox
  <2>2. States'
      BY DEF Inv, TypeOK, States, Owner, HandoffState, ForwarderState, Abandon, Main,
             DropTerminal, Failing, Restored, cargo
  <2>3. (pc \in Place)'
      BY DEF Inv, TypeOK, Place, Polling, Abandon, Main, Goto
  <2>4. Counts'
    <3>1. faults' = faults \/ (faults < MaxFaults /\ faults' = faults + 1)
        BY DEF Abandon, DropTerminal, Failing
    <3>2. UNCHANGED <<inbox, stops>>
        BY DEF Abandon, Main
    <3> QED
        BY <3>1, <3>2, SupervisorAssumption DEF Inv, TypeOK, Counts, inbox
  <2> QED
      BY <2>1, <2>2, <2>3, <2>4 DEF TypeOK
<1>2. PlaceOK'
    BY FaultsCounted DEF Inv, TypeOK, States, PlaceOK, TerminalReturned, Alive, Live,
           Abandon, Main, Goto, DropTerminal, Failing, Restored, cargo
<1>3. OutcomeWhenGone'
    BY DEF Inv, TypeOK, States, PlaceOK, OutcomeWhenGone, Alive, Live, Abandon, Main,
           Goto, DropTerminal, Failing, Restored, cargo
<1>4. TerminalReturned'
    BY DEF Inv, PlaceOK, TerminalReturned, Abandon, Main, Goto, DropTerminal, Failing,
           Restored
<1>5. StopsAsOne'
    BY DEF Inv, PlaceOK, TerminalReturned, StopsAsOne, Abandon, Main, Goto,
           DropTerminal, Failing, Restored
<1> QED
    BY <1>1, <1>2, <1>3, <1>4, <1>5, InvFrom

LEMMA FailStep == ASSUME Inv, Fail PROVE Inv'
<1>1. TypeOK'
  <2>1. Flags'
      BY DEF Inv, TypeOK, Flags, Fail, Main, Failing, cargo, thread, inbox
  <2>2. States'
      BY DEF Inv, TypeOK, States, Fail, Main, cargo, terminal, thread
  <2>3. (pc \in Place)'
      BY DEF Inv, TypeOK, Place, Polling, Fail, Main, Goto
  <2>4. Counts'
    <3>1. faults' = faults \/ (faults < MaxFaults /\ faults' = faults + 1)
        BY DEF Fail, Failing
    <3>2. UNCHANGED <<inbox, stops>>
        BY DEF Fail, Main
    <3> QED
        BY <3>1, <3>2, SupervisorAssumption DEF Inv, TypeOK, Counts, inbox
  <2> QED
      BY <2>1, <2>2, <2>3, <2>4 DEF TypeOK
<1>2. PlaceOK'
    BY DEF Inv, TypeOK, States, PlaceOK, TerminalReturned, Alive, Live, Fail, Main,
           Goto, Failing, Polling, cargo, terminal
<1>3. OutcomeWhenGone'
    BY DEF Inv, TypeOK, States, PlaceOK, OutcomeWhenGone, Alive, Live, Fail, Main,
           Goto, Failing, Polling, cargo
<1>4. TerminalReturned'
    BY DEF Inv, PlaceOK, TerminalReturned, Fail, Main, Goto, Failing, Polling, terminal
<1>5. StopsAsOne'
    BY DEF Inv, PlaceOK, TerminalReturned, StopsAsOne, Fail, Main, Goto, Failing,
           Polling, terminal
<1> QED
    BY <1>1, <1>2, <1>3, <1>4, <1>5, InvFrom

LEMMA FailCleanupStep == ASSUME Inv, FailCleanup PROVE Inv'
<1>1. TypeOK'
  <2>1. Flags'
      BY DEF Inv, TypeOK, Flags, FailCleanup, LeaveSuspect, Main, Failing, cargo,
             thread, inbox
  <2>2. States'
      BY DEF Inv, TypeOK, States, Outcome, FailCleanup, LeaveSuspect, Main, cargo,
             terminal, thread
  <2>3. (pc \in Place)'
      BY DEF Inv, TypeOK, Place, Polling, FailCleanup, LeaveSuspect, Main, Goto
  <2>4. Counts'
    <3>1. faults' = faults \/ (faults < MaxFaults /\ faults' = faults + 1)
        BY DEF FailCleanup, Failing
    <3>2. UNCHANGED <<inbox, stops>>
        BY DEF FailCleanup, LeaveSuspect, Main
    <3> QED
        BY <3>1, <3>2, SupervisorAssumption DEF Inv, TypeOK, Counts, inbox
  <2> QED
      BY <2>1, <2>2, <2>3, <2>4 DEF TypeOK
<1>2. PlaceOK'
    BY DEF Inv, TypeOK, States, PlaceOK, TerminalReturned, Alive, Live, FailCleanup,
           LeaveSuspect, Main, Goto, Failing, cargo, terminal
<1>3. OutcomeWhenGone'
    BY DEF Inv, TypeOK, States, PlaceOK, OutcomeWhenGone, Alive, Live, FailCleanup,
           LeaveSuspect, Main, Goto, Failing, cargo
<1>4. TerminalReturned'
    BY DEF Inv, PlaceOK, TerminalReturned, FailCleanup, LeaveSuspect, Main, Goto,
           Failing, terminal
<1>5. StopsAsOne'
    BY DEF Inv, PlaceOK, TerminalReturned, StopsAsOne, FailCleanup, LeaveSuspect, Main,
           Goto, Failing, terminal
<1> QED
    BY <1>1, <1>2, <1>3, <1>4, <1>5, InvFrom

LEMMA FailDropStep == ASSUME Inv, FailDrop PROVE Inv'
<1>1. TypeOK'
  <2>1. Flags'
      BY DEF Inv, TypeOK, Flags, FailDrop, Main, Failing, cargo, thread, inbox
  <2>2. States'
      BY DEF Inv, TypeOK, States, FailDrop, Main, cargo, terminal, thread
  <2>3. (pc \in Place)'
      BY DEF Inv, TypeOK, Place, Polling, FailDrop, Main, Goto
  <2>4. Counts'
    <3>1. faults' = faults \/ (faults < MaxFaults /\ faults' = faults + 1)
        BY DEF FailDrop, Failing
    <3>2. UNCHANGED <<inbox, stops>>
        BY DEF FailDrop, Main
    <3> QED
        BY <3>1, <3>2, SupervisorAssumption DEF Inv, TypeOK, Counts, inbox
  <2> QED
      BY <2>1, <2>2, <2>3, <2>4 DEF TypeOK
<1>2. PlaceOK'
    BY DEF Inv, TypeOK, States, PlaceOK, TerminalReturned, Alive, Live, FailDrop, Main,
           Goto, Failing, cargo, terminal
<1>3. OutcomeWhenGone'
    BY DEF Inv, TypeOK, States, PlaceOK, OutcomeWhenGone, Alive, Live, FailDrop, Main,
           Goto, Failing, cargo
<1>4. TerminalReturned'
    BY DEF Inv, PlaceOK, TerminalReturned, FailDrop, Main, Goto, Failing, terminal
<1>5. StopsAsOne'
    BY DEF Inv, PlaceOK, TerminalReturned, StopsAsOne, FailDrop, Main, Goto, Failing,
           terminal
<1> QED
    BY <1>1, <1>2, <1>3, <1>4, <1>5, InvFrom

-----------------------------------------------------------------------------
(* The theorems.                                                           *)

LEMMA InitInv == Init => Inv
<1> SUFFICES ASSUME Init PROVE Inv
    OBVIOUS
<1>1. Flags
    BY DEF Init, Flags
<1>2. States
    BY DEF Init, States, Live, LeaderState, MemberState, Event, Owner, HandoffState,
           ForwarderState, Outcome
<1>3. Counts
    BY SupervisorAssumption DEF Init, Counts
<1>4. pc \in Place
    BY DEF Init, Place
<1>5. PlaceOK /\ OutcomeWhenGone /\ TerminalReturned /\ StopsAsOne
    BY DEF Init, PlaceOK, OutcomeWhenGone, TerminalReturned, StopsAsOne
<1> QED
    BY <1>1, <1>2, <1>3, <1>4, <1>5 DEF Inv, TypeOK

LEMMA NextInv == Inv /\ [Next]_vars => Inv'
<1> SUFFICES ASSUME Inv, [Next]_vars PROVE Inv'
    OBVIOUS
<1>1. CASE Environment
    BY <1>1, StartMemberStep, LeaderExitsStep, MemberExitsStep, StopCargoStep,
       StopWrapperStep, ShellTakesTerminalStep, ShellContinuesStep, InterruptStep DEF Environment
<1>2. CASE Start
    BY <1>2, SpawnStep, RecordSpawnedStep, StartForwarderStep, HandOffStep,
       GiveFirstStep, ContinueFirstStep, KillSpawnedStep, ReapSpawnedStep, TrySpawnedStep DEF Start
<1>3. CASE Poll
    BY <1>3, CheckStep, ObserveExitStep, ObserveRunningStep, IsInForegroundStep,
       ObserveStopStep, FollowStopStep, QuiesceStep, ReclaimStep, SleepStep, ResumeStep,
       GiveStep, ContinueCargoStep, RestoreStep, IsGroupAliveStep, StopForwardingStep DEF Poll
<1>4. CASE Terminate
    BY <1>4, KillStep, ReapStep, WaitForGroupStep, DropStep, ReapDroppedStep,
       AbandonStep DEF Terminate
<1>5. CASE UNCHANGED vars
  <2>1. TypeOK'
      BY <1>5 DEF vars, cargo, terminal, inbox, thread, bounds, Inv, TypeOK, Flags,
             States, Counts
  <2>2. PlaceOK' /\ StopsAsOne' /\ TerminalReturned'
      BY <1>5 DEF vars, cargo, terminal, bounds, Inv, PlaceOK, StopsAsOne,
             TerminalReturned, Alive
  <2>3. OutcomeWhenGone'
      BY <1>5 DEF vars, cargo, bounds, Inv, OutcomeWhenGone, Alive
  <2> QED
      BY <2>1, <2>2, <2>3, InvFrom
<1> QED
    BY <1>1, <1>2, <1>3, <1>4, <1>5, ForwardContinueStep, ForwardSignalStep, FailStep,
       FailCleanupStep, FailDropStep DEF Next, Ended

\* The inductive invariant holds in every reachable state.
THEOREM InductiveInvariant == Spec => []Inv
<1> QED
    BY InitInv, NextInv, PTL DEF Spec

\* A lease records how its build ended only when nobody is left in the Cargo group, or, after
\* a spawn that could not be completed, when Cargo is gone and the others have SIGKILL, or the
\* kill failed as well (platform_unix.rs, group_alive and terminate_group_child).
THEOREM OutcomeTrue == Spec => []OutcomeWhenGone
<1>1. Inv => OutcomeWhenGone
    BY DEF Inv
<1> QED
    BY <1>1, InductiveInvariant, PTL

\* The terminal is taken back from Cargo however the build ends, unless the last attempt
\* fails (terminal.rs, restore).
THEOREM TerminalTakenBack == Spec => []TerminalReturned
<1>1. Inv => TerminalReturned
    BY DEF Inv
<1> QED
    BY <1>1, InductiveInvariant, PTL

\* A stopped sentinel has left the terminal to its shell (platform_unix.rs, suspend_cargo).
THEOREM JobStopsAsOne == Spec => []StopsAsOne
<1>1. Inv => StopsAsOne
    BY DEF Inv
<1> QED
    BY <1>1, InductiveInvariant, PTL

=============================================================================
