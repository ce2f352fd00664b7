--------------------------- MODULE LifecycleProofs ---------------------------
(***************************************************************************)
(* What Lifecycle keeps on any of the platforms, with or without failures: *)
(* types, and that shared memory is there for whoever uses it.             *)
(***************************************************************************)
EXTENDS Lifecycle, TLAPS

(* Where the client has made its memory and not removed it.                *)
Owning == {"launching", "active"} \cup Polling \cup Deleting

(* The segment is there exactly while the client owns it.                  *)
SegmentInv ==
    host # "dead" => segment = IF host \in Owning THEN Buffers ELSE {}

(* The process lives only between the launch and the kill.                 *)
ChildInv ==
    host \in {"inactive", "launching", "removing", "deleted"} => ~Alive

(* The server's thread lives only between activate() and the join.         *)
ServerInv ==
    host \in {"inactive", "launching", "deleting", "removing", "deleted"} \cup Polling
        => server \in {"none", "exited"}

(* Threads run only between initialize() and the end of finish().          *)
ThreadsInv ==
    /\ mapped <=> child \in {"created", "running", "finishing"}
    /\ child \notin {"running", "finishing"} =>
          \A t \in ThreadNames : threads[t] \in {"none", "exited"}

IInv ==
    /\ TypeOK
    /\ SegmentInv
    /\ ChildInv
    /\ ServerInv
    /\ ThreadsInv
    /\ OpensItsMemory

-----------------------------------------------------------------------------
LEMMA InitIInv == Init => IInv
  <1>. SUFFICES ASSUME Init PROVE IInv
       OBVIOUS
  <1>. USE DEF Init, NoThreads
  <1>1. TypeOK
    BY DEF TypeOK, HostStates, Gone, Adopters
  <1>2. SegmentInv /\ ServerInv
    BY DEF SegmentInv, ServerInv, Owning, Polling, Deleting
  <1>3. ChildInv /\ ThreadsInv /\ OpensItsMemory
    BY DEF ChildInv, ThreadsInv, OpensItsMemory, Alive, Gone
  <1>. QED BY <1>1, <1>2, <1>3 DEF IInv

LEMMA StepHost == TypeOK /\ [Next]_vars => (host \in HostStates)'
  <1>. SUFFICES ASSUME TypeOK, [Next]_vars PROVE (host \in HostStates)'
       OBVIOUS
  <1>. USE DEF envVars, hostVars, memoryVars, mainVars, childVars, TypeOK,
               HostStates, Polling, Deleting
  <1>1. CASE CreateMemory \/ DeleteInactive \/ ShutDown
    BY <1>1 DEF CreateMemory, DeleteInactive, ShutDown, HostStep
  <1>2. CASE HostThread
    BY <1>2 DEF HostThread, HostStep, Launch, LaunchFails, PollAudio, PollRpc,
                DeleteServer, JoinServer, KillChild, RemoveMemory, NoThreads
  <1>3. CASE ServerThread
    BY <1>3 DEF ServerThread, ServerBoots, ServerExits, ServerStep
  <1>4. CASE MainThread
    BY <1>4 DEF MainThread, MainStep, SetDeathSignal, DoNotWatch, CheckParent,
                StartWatcher, StartFails, ConstructServer, Found, Initialize,
                Finish, Unload, Parent
  <1>5. CASE Watch \/ ScriptQuits
    BY <1>5 DEF Watch, ScriptQuits, Parent
  <1>6. ASSUME NEW t \in ThreadNames, Thread(t) PROVE (host \in HostStates)'
    BY <1>6 DEF Thread, Boot, Exit
  <1>7. CASE HandleShutdown \/ LauncherEnds
    BY <1>7 DEF HandleShutdown, LauncherEnds, Armed
  <1>8. CASE SigTerm \/ ChildDies
    BY <1>8 DEF SigTerm, ChildDies, ChildEnds, NoThreads
  <1>9. CASE HostDies
    BY <1>9 DEF HostDies, Armed
  <1>10. CASE UNCHANGED vars
    BY <1>10 DEF vars
  <1>. QED
    BY <1>1, <1>2, <1>3, <1>4, <1>5, <1>6, <1>7, <1>8, <1>9, <1>10 DEF Next

LEMMA StepTypes == ASSUME TypeOK, (host \in HostStates)' PROVE [Next]_vars => TypeOK'
  <1>. USE DEF envVars, hostVars, memoryVars, mainVars, childVars, TypeOK
  <1>1. CreateMemory => TypeOK'
    BY DEF CreateMemory
  <1>2. DeleteInactive \/ ShutDown => TypeOK'
    BY DEF DeleteInactive, ShutDown
  <1>3. Launch \/ LaunchFails => TypeOK'
    BY DEF Launch, LaunchFails, Gone
  <1>4. PollAudio \/ PollRpc => TypeOK'
    BY DEF PollAudio, PollRpc
  <1>5. DeleteServer \/ JoinServer => TypeOK'
    BY DEF DeleteServer, JoinServer
  <1>6. KillChild => TypeOK'
    BY DEF KillChild, NoThreads, Gone
  <1>7. RemoveMemory => TypeOK'
    BY DEF RemoveMemory
  <1>8. ServerThread => TypeOK'
    BY DEF ServerThread, ServerBoots, ServerExits, ServerStep
  <1>9. SetDeathSignal \/ DoNotWatch => TypeOK'
    BY DEF SetDeathSignal, DoNotWatch, MainStep
  <1>10. CheckParent => TypeOK'
    BY DEF CheckParent, MainStep, Parent, Gone
  <1>11. StartWatcher => TypeOK'
    BY DEF StartWatcher, MainStep, Parent
  <1>12. StartFails \/ ConstructServer => TypeOK'
    BY DEF StartFails, ConstructServer, MainStep, Found, Gone
  <1>13. Initialize => TypeOK'
    BY DEF Initialize, MainStep
  <1>14. Finish \/ Unload => TypeOK'
    BY DEF Finish, Unload, MainStep, Gone
  <1>15. Watch \/ ScriptQuits => TypeOK'
    BY DEF Watch, ScriptQuits
  <1>16. (\E t \in ThreadNames : Boot(t)) => TypeOK'
    BY DEF Boot
  <1>17. (\E t \in ThreadNames : Exit(t)) => TypeOK'
    BY DEF Exit
  <1>18. HandleShutdown => TypeOK'
    BY DEF HandleShutdown
  <1>19. LauncherEnds => TypeOK'
    BY DEF LauncherEnds, Armed
  <1>20. SigTerm \/ ChildDies => TypeOK'
    BY DEF SigTerm, ChildDies, ChildEnds, NoThreads, Gone
  <1>21. HostDies => TypeOK'
    BY DEF HostDies
  <1>22. UNCHANGED vars => TypeOK'
    BY DEF vars
  <1>. QED
    BY <1>1, <1>2, <1>3, <1>4, <1>5, <1>6, <1>7, <1>8, <1>9, <1>10, <1>11, <1>12, <1>13, <1>14, <1>15, <1>16, <1>17, <1>18, <1>19, <1>20, <1>21, <1>22
       DEF Next, HostThread, MainThread, Thread

LEMMA StepType == TypeOK /\ [Next]_vars => TypeOK'
  BY StepHost, StepTypes

LEMMA StepMemory == IInv /\ [Next]_vars => (SegmentInv /\ OpensItsMemory)'
  <1>. SUFFICES ASSUME IInv, [Next]_vars PROVE (SegmentInv /\ OpensItsMemory)'
       OBVIOUS
  <1>. USE DEF envVars, hostVars, memoryVars, mainVars, childVars, IInv, TypeOK, HostStates,
               SegmentInv, ChildInv, OpensItsMemory, Owning, Polling, Deleting, Gone, Alive
  <1>1. CASE CreateMemory \/ DeleteInactive \/ ShutDown
    BY <1>1 DEF CreateMemory, DeleteInactive, ShutDown, HostStep
  <1>2. CASE HostThread
    BY <1>2 DEF HostThread, HostStep, Launch, LaunchFails, PollAudio, PollRpc,
                DeleteServer, JoinServer, KillChild, RemoveMemory, NoThreads
  <1>3. CASE ServerThread
    BY <1>3 DEF ServerThread, ServerBoots, ServerExits, ServerStep
  <1>4. CASE MainThread
    BY <1>4 DEF MainThread, MainStep, SetDeathSignal, DoNotWatch, CheckParent,
                StartWatcher, StartFails, ConstructServer, Found, Initialize,
                Finish, Unload, Parent
  <1>5. CASE Watch \/ ScriptQuits
    BY <1>5 DEF Watch, ScriptQuits, Parent
  <1>6. ASSUME NEW t \in ThreadNames, Thread(t) PROVE (SegmentInv /\ OpensItsMemory)'
    BY <1>6 DEF Thread, Boot, Exit
  <1>7. CASE HandleShutdown \/ LauncherEnds
    BY <1>7 DEF HandleShutdown, LauncherEnds, Armed
  <1>8. CASE SigTerm \/ ChildDies
    BY <1>8 DEF SigTerm, ChildDies, ChildEnds, NoThreads
  <1>9. CASE HostDies
    BY <1>9 DEF HostDies, Armed
  <1>10. CASE UNCHANGED vars
    BY <1>10 DEF vars
  <1>. QED
    BY <1>1, <1>2, <1>3, <1>4, <1>5, <1>6, <1>7, <1>8, <1>9, <1>10 DEF Next

LEMMA StepChild == IInv /\ [Next]_vars => ChildInv'
  <1>. SUFFICES ASSUME IInv, [Next]_vars PROVE ChildInv'
       OBVIOUS
  <1>. USE DEF envVars, hostVars, memoryVars, mainVars, childVars, IInv, TypeOK,
               ChildInv, Polling, Deleting, Gone, Alive
  <1>1. CASE CreateMemory \/ DeleteInactive \/ ShutDown
    BY <1>1 DEF CreateMemory, DeleteInactive, ShutDown, HostStep
  <1>2. CASE HostThread
    BY <1>2 DEF HostThread, HostStep, Launch, LaunchFails, PollAudio, PollRpc,
                DeleteServer, JoinServer, KillChild, RemoveMemory, NoThreads
  <1>3. CASE ServerThread
    BY <1>3 DEF ServerThread, ServerBoots, ServerExits, ServerStep
  <1>4. CASE MainThread
    BY <1>4 DEF MainThread, MainStep, SetDeathSignal, DoNotWatch, CheckParent,
                StartWatcher, StartFails, ConstructServer, Found, Initialize,
                Finish, Unload, Parent
  <1>5. CASE Watch \/ ScriptQuits
    BY <1>5 DEF Watch, ScriptQuits, Parent
  <1>6. ASSUME NEW t \in ThreadNames, Thread(t) PROVE ChildInv'
    BY <1>6 DEF Thread, Boot, Exit
  <1>7. CASE HandleShutdown \/ LauncherEnds
    BY <1>7 DEF HandleShutdown, LauncherEnds, Armed
  <1>8. CASE SigTerm \/ ChildDies
    BY <1>8 DEF SigTerm, ChildDies, ChildEnds, NoThreads
  <1>9. CASE HostDies
    BY <1>9 DEF HostDies, Armed
  <1>10. CASE UNCHANGED vars
    BY <1>10 DEF vars
  <1>. QED
    BY <1>1, <1>2, <1>3, <1>4, <1>5, <1>6, <1>7, <1>8, <1>9, <1>10 DEF Next

LEMMA StepServer == IInv /\ [Next]_vars => ServerInv'
  <1>. SUFFICES ASSUME IInv, [Next]_vars PROVE ServerInv'
       OBVIOUS
  <1>. USE DEF envVars, hostVars, memoryVars, mainVars, childVars, IInv, TypeOK,
               ServerInv, Polling, Deleting, Gone, Alive
  <1>1. CASE CreateMemory \/ DeleteInactive \/ ShutDown
    BY <1>1 DEF CreateMemory, DeleteInactive, ShutDown, HostStep
  <1>2. CASE HostThread
    BY <1>2 DEF HostThread, HostStep, Launch, LaunchFails, PollAudio, PollRpc,
                DeleteServer, JoinServer, KillChild, RemoveMemory, NoThreads
  <1>3. CASE ServerThread
    BY <1>3 DEF ServerThread, ServerBoots, ServerExits, ServerStep
  <1>4. CASE MainThread
    BY <1>4 DEF MainThread, MainStep, SetDeathSignal, DoNotWatch, CheckParent,
                StartWatcher, StartFails, ConstructServer, Found, Initialize,
                Finish, Unload, Parent
  <1>5. CASE Watch \/ ScriptQuits
    BY <1>5 DEF Watch, ScriptQuits, Parent
  <1>6. ASSUME NEW t \in ThreadNames, Thread(t) PROVE ServerInv'
    BY <1>6 DEF Thread, Boot, Exit
  <1>7. CASE HandleShutdown \/ LauncherEnds
    BY <1>7 DEF HandleShutdown, LauncherEnds, Armed
  <1>8. CASE SigTerm \/ ChildDies
    BY <1>8 DEF SigTerm, ChildDies, ChildEnds, NoThreads
  <1>9. CASE HostDies
    BY <1>9 DEF HostDies, Armed
  <1>10. CASE UNCHANGED vars
    BY <1>10 DEF vars
  <1>. QED
    BY <1>1, <1>2, <1>3, <1>4, <1>5, <1>6, <1>7, <1>8, <1>9, <1>10 DEF Next

LEMMA StepThreads ==
    ASSUME TypeOK, ChildInv, ThreadsInv PROVE [Next]_vars => ThreadsInv'
  <1>1. UNCHANGED childVars => ThreadsInv'
    BY DEF childVars, mainVars, ThreadsInv
  <1>2. CreateMemory \/ DeleteInactive \/ ShutDown => UNCHANGED childVars
    BY DEF CreateMemory, DeleteInactive, ShutDown
  <1>3. LaunchFails \/ PollAudio \/ PollRpc => UNCHANGED childVars
    BY DEF LaunchFails, PollAudio, PollRpc
  <1>4. DeleteServer \/ JoinServer \/ RemoveMemory => UNCHANGED childVars
    BY DEF DeleteServer, JoinServer, RemoveMemory
  <1>5. ServerThread \/ UNCHANGED vars => UNCHANGED childVars
    BY DEF ServerThread, ServerBoots, ServerExits, ServerStep, vars
  <1>. USE DEF mainVars, ThreadsInv
  <1>6. Launch => ThreadsInv'
    <2>. SUFFICES ASSUME Launch PROVE ThreadsInv'
         OBVIOUS
    <2>1. child \in Gone
      BY DEF Launch, HostStep, ChildInv, Alive
    <2>2. child' = "launched" /\ mapped' = mapped /\ threads' = threads
      BY DEF Launch
    <2>. QED BY <2>1, <2>2 DEF Gone
  <1>7. KillChild => ThreadsInv'
    BY DEF KillChild, NoThreads, Gone, Alive
  <1>8. SetDeathSignal => ThreadsInv'
    BY DEF SetDeathSignal, MainStep
  <1>9. DoNotWatch => ThreadsInv'
    BY DEF DoNotWatch, MainStep
  <1>10. CheckParent => ThreadsInv'
    BY DEF CheckParent, MainStep
  <1>11. StartWatcher => ThreadsInv'
    BY DEF StartWatcher, MainStep
  <1>12. StartFails => ThreadsInv'
    BY DEF StartFails, MainStep
  <1>13. ConstructServer => ThreadsInv'
    BY DEF ConstructServer, MainStep, Found
  <1>14. Initialize => ThreadsInv'
    BY DEF Initialize, MainStep
  <1>15. Finish => ThreadsInv'
    BY DEF Finish, MainStep
  <1>16. Unload => ThreadsInv'
    BY DEF Unload, Running, MainStep, TypeOK
  <1>17. Watch => ThreadsInv'
    BY DEF Watch
  <1>18. ScriptQuits => ThreadsInv'
    BY DEF ScriptQuits
  <1>19. (\E t \in ThreadNames : Boot(t)) => ThreadsInv'
    BY DEF Boot, TypeOK
  <1>20. (\E t \in ThreadNames : Exit(t)) => ThreadsInv'
    BY DEF Exit, TypeOK
  <1>21. HandleShutdown => ThreadsInv'
    BY DEF HandleShutdown
  <1>22. LauncherEnds => ThreadsInv'
    BY DEF LauncherEnds
  <1>23. SigTerm \/ ChildDies => ThreadsInv'
    BY DEF SigTerm, ChildDies, ChildEnds, NoThreads, Gone
  <1>24. HostDies => ThreadsInv'
    BY DEF HostDies
  <1>. QED
    BY <1>1, <1>2, <1>3, <1>4, <1>5, <1>6, <1>7, <1>8, <1>9, <1>10, <1>11,
       <1>12, <1>13, <1>14, <1>15, <1>16, <1>17, <1>18, <1>19, <1>20,
       <1>21, <1>22, <1>23, <1>24
       DEF Next, HostThread, MainThread, Thread

LEMMA StepIInv == IInv /\ [Next]_vars => IInv'
  BY StepType, StepMemory, StepChild, StepServer, StepThreads DEF IInv

LEMMA SpecIInv == Spec => []IInv
  BY InitIInv, StepIInv, PTL DEF Spec

-----------------------------------------------------------------------------
(* Every variable keeps its type.                                          *)
THEOREM LifecycleTypeCorrect == Spec => []TypeOK
  <1>1. IInv => TypeOK
    BY DEF IInv
  <1>. QED BY SpecIInv, <1>1, PTL

(* Whatever fails or dies and whoever quits first, shared memory is there  *)
(* as long as a thread or a process uses it, and removed with the plugin.  *)
THEOREM MemoryOutlives == Spec => []MemoryOutlivesItsUsers
  <1>1. IInv => MemoryOutlivesItsUsers
    <2>. SUFFICES ASSUME IInv PROVE MemoryOutlivesItsUsers
         OBVIOUS
    <2>1. Running # {} => mapped
      BY DEF IInv, ThreadsInv, Running
    <2>2. host # "dead" /\ segment = {} => ~Alive /\ server \in {"none", "exited"}
      <3>. SUFFICES ASSUME host # "dead", segment = {}
                    PROVE ~Alive /\ server \in {"none", "exited"}
           OBVIOUS
      <3>1. Buffers # {}
        BY DEF Buffers
      <3>2. host \in HostStates /\ host \notin Owning
        BY <3>1 DEF IInv, TypeOK, SegmentInv
      <3>3. host \in {"inactive", "deleted"}
        BY <3>2 DEF HostStates, Owning
      <3>. QED BY <3>3 DEF IInv, ChildInv, ServerInv
    <2>3. host = "deleted" => segment = {}
      BY DEF IInv, SegmentInv, Owning, Polling, Deleting
    <2>. QED BY <2>1, <2>2, <2>3 DEF MemoryOutlivesItsUsers
  <1>. QED BY SpecIInv, <1>1, PTL

(* A plugin process whose host lives finds the segment and its buffers.    *)
THEOREM ProcessFindsMemory == Spec => []OpensItsMemory
  <1>1. IInv => OpensItsMemory
    BY DEF IInv
  <1>. QED BY SpecIInv, <1>1, PTL

=============================================================================
