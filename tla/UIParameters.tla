----------------------------- MODULE UIParameters ----------------------------
(***************************************************************************)
(* Parameter values from the UI process to the host.  The UI process       *)
(* writes its own DistrhoSharedMemoryRegion: first the number of           *)
(* parameters, then their defaults (initialize), then what scripts set.  A *)
(* thread of the host (GodotDistrhoUIServer::process_thread_func), which   *)
(* runs from before the UI process is up until the window closes, polls    *)
(* the region, keeps a copy and forwards what changed to the plugin host   *)
(* (setParameterValue).  The UI process polls the region too.              *)
(*                                                                         *)
(* The host thread's copy is an array nobody initializes: it starts with   *)
(* any values.  The host never writes this region; it tells the UI of its  *)
(* own changes by requests (parameter_changed), which touch no copy.       *)
(*                                                                         *)
(* The region and the array of the host hold MAX_PARAMS values; the copy   *)
(* of the UI process is as long as the script has parameters, and so is    *)
(* the loop of the host.                                                   *)
(***************************************************************************)
EXTENDS Integers, Sequences

CONSTANTS
    Counts,             \* how many parameters a script may have
    MAX_PARAMS,         \* parameters the region and the host hold
    Values,
    Default,            \* get_default_value
    MaxWrites           \* bound: writes of one parameter

ASSUME UIParametersAssumption ==
    /\ Counts \subseteq Nat
    /\ MAX_PARAMS \in Nat
    /\ 0 \in Values
    /\ Default \in Values
    /\ MaxWrites \in Nat

Slots == 0..(MAX_PARAMS - 1)

VARIABLES
    count,              \* SharedMemoryRegion::count
    region,             \* SharedMemoryRegion::parameters
    main,               \* the main thread of the UI process
    main_index,
    parameters,         \* DistrhoUIServer::parameters
    signals,            \* parameter_changed signals process() has deferred
    poller,             \* process_thread_func
    index,
    value,
    host_parameters,    \* GodotDistrhoUIServer::parameters
    exit_poller,
    history,            \* history: what a slot of the region held
    forwarded           \* history: of each parameter, what the host was told

Indices == 0..(count - 1)

regionVars == <<count, region, history>>
mainVars == <<main, main_index, parameters, signals>>
pollerVars == <<poller, index, value, host_parameters, forwarded>>
forwardVars == <<regionVars, mainVars, pollerVars, exit_poller>>

ForwardInit ==
    /\ count = 0
    /\ region = [i \in Slots |-> 0]
    /\ main = "booting"
    /\ main_index = 0
    /\ parameters = [i \in {} |-> 0]
    /\ signals = {}
    /\ poller = "sleeping"
    /\ index = 0
    /\ value = 0
    /\ host_parameters \in [Slots -> Values]
    /\ exit_poller = FALSE
    /\ history = [i \in Slots |-> <<0>>]
    /\ forwarded = [i \in Slots |-> <<>>]

-----------------------------------------------------------------------------
(* DistrhoSharedMemoryRegion.                                              *)

ReadParameterValue(i) == IF i < MAX_PARAMS THEN region[i] ELSE 0

WriteParameterValue(i, v) ==
    IF i < MAX_PARAMS
    THEN /\ region' = [region EXCEPT ![i] = v]
         /\ history' = [history EXCEPT ![i] = Append(@, v)]
    ELSE UNCHANGED <<region, history>>

-----------------------------------------------------------------------------
(* The main thread of the UI process.                                      *)

(* The script says how many parameters there are; initialize_parameters.   *)
Initialize(size) ==
    /\ main = "booting"
    /\ parameters' = [i \in 0..(size - 1) |-> 0]
    /\ count' = size
    /\ main' = "initializing"
    /\ UNCHANGED <<region, history, main_index, signals, pollerVars,
                   exit_poller>>

InitializeParameter ==
    /\ main = "initializing"
    /\ main_index < count
    /\ parameters' = [parameters EXCEPT ![main_index] = Default]
    /\ WriteParameterValue(main_index, Default)
    /\ main_index' = main_index + 1
    /\ UNCHANGED <<count, main, signals, pollerVars, exit_poller>>

Start ==
    /\ main = "initializing"
    /\ main_index = count
    /\ main' = "running"
    /\ UNCHANGED <<regionVars, main_index, parameters, signals, pollerVars,
                   exit_poller>>

(* set_parameter_value, by a script.                                       *)
SetParameterValue(i, v) ==
    /\ main = "running"
    /\ i \in Slots => Len(history[i]) <= MaxWrites
    /\ parameters' = [parameters EXCEPT ![i] = v]
    /\ WriteParameterValue(i, v)
    /\ UNCHANGED <<count, main, main_index, signals, pollerVars, exit_poller>>

(* process(), one step: nobody else writes the region.                     *)
Process ==
    /\ main = "running"
    /\ parameters' = [i \in Indices |-> ReadParameterValue(i)]
    /\ signals' = signals \cup {i \in Indices : parameters'[i] # parameters[i]}
    /\ UNCHANGED <<regionVars, main, main_index, pollerVars, exit_poller>>

-----------------------------------------------------------------------------
(* The thread of the host.                                                 *)

PollStart ==
    /\ poller = "sleeping"
    /\ ~exit_poller
    /\ poller' = "polling"
    /\ index' = 0
    /\ UNCHANGED <<regionVars, mainVars, value, host_parameters, forwarded,
                   exit_poller>>

(* Mutant: the last parameter is left out.                                 *)
PollReadButLast ==
    /\ poller = "polling"
    /\ index < count - 1
    /\ value' = ReadParameterValue(index)
    /\ poller' = "comparing"
    /\ UNCHANGED <<regionVars, mainVars, index, host_parameters, forwarded,
                   exit_poller>>

PollRead ==
    /\ poller = "polling"
    /\ index < count
    /\ value' = ReadParameterValue(index)
    /\ poller' = "comparing"
    /\ UNCHANGED <<regionVars, mainVars, index, host_parameters, forwarded,
                   exit_poller>>

(* Mutant: what is forwarded is read again.                                *)
PollCompareReadingAgain ==
    /\ poller = "comparing"
    /\ index < MAX_PARAMS
    /\ IF host_parameters[index] = value
       THEN UNCHANGED <<host_parameters, forwarded>>
       ELSE /\ host_parameters' = [host_parameters EXCEPT ![index] = value]
            /\ forwarded' = [forwarded EXCEPT ![index] = Append(@, region[index])]
    /\ index' = index + 1
    /\ poller' = "polling"
    /\ UNCHANGED <<regionVars, mainVars, value, exit_poller>>

PollCompare ==
    /\ poller = "comparing"
    /\ index < MAX_PARAMS
    /\ IF host_parameters[index] = value
       THEN UNCHANGED <<host_parameters, forwarded>>
       ELSE /\ host_parameters' = [host_parameters EXCEPT ![index] = value]
            /\ forwarded' = [forwarded EXCEPT ![index] = Append(@, value)]
    /\ index' = index + 1
    /\ poller' = "polling"
    /\ UNCHANGED <<regionVars, mainVars, value, exit_poller>>

(* There is no such element: the behaviour of the host is undefined and    *)
(* ends here.                                                              *)
PollOverrun ==
    /\ poller = "comparing"
    /\ index >= MAX_PARAMS
    /\ poller' = "overrun"
    /\ UNCHANGED <<regionVars, mainVars, index, value, host_parameters,
                   forwarded, exit_poller>>

PollEnd ==
    /\ poller = "polling"
    /\ index >= count
    /\ poller' = "sleeping"
    /\ UNCHANGED <<regionVars, mainVars, index, value, host_parameters,
                   forwarded, exit_poller>>

PollExit ==
    /\ poller = "sleeping"
    /\ exit_poller
    /\ poller' = "exited"
    /\ UNCHANGED <<regionVars, mainVars, index, value, host_parameters,
                   forwarded, exit_poller>>

(* The window closes: the destructor sets the flag and joins.              *)
ShutDown ==
    /\ ~exit_poller
    /\ poller # "overrun"
    /\ exit_poller' = TRUE
    /\ UNCHANGED <<regionVars, mainVars, pollerVars>>

-----------------------------------------------------------------------------
MainThread ==
    \/ \E size \in Counts : Initialize(size)
    \/ InitializeParameter
    \/ Start

Poller ==
    \/ PollStart
    \/ PollRead
    \/ PollCompare
    \/ PollOverrun
    \/ PollEnd
    \/ PollExit

ForwardNext ==
    \/ MainThread
    \/ \E i \in Indices, v \in Values : SetParameterValue(i, v)
    \/ Process
    \/ Poller
    \/ ShutDown

ForwardSpec == ForwardInit /\ [][ForwardNext]_forwardVars

(* Both threads run.  No fairness for scripts and for closing the window.  *)
ForwardFairSpec ==
    ForwardSpec /\ WF_forwardVars(MainThread) /\ WF_forwardVars(Poller)

-----------------------------------------------------------------------------
(* Every variable keeps its type.                                          *)
ForwardTypeOK ==
    /\ count \in Counts \cup {0}
    /\ region \in [Slots -> Values]
    /\ main \in {"booting", "initializing", "running"}
    /\ main = "booting" => count = 0
    /\ main_index \in 0..count
    /\ parameters \in [Indices -> Values]
    /\ signals \subseteq Indices
    /\ poller \in {"sleeping", "polling", "comparing", "overrun", "exited"}
    /\ index \in 0..count
    /\ poller \in {"comparing", "overrun"} => index \in Indices
    /\ poller = "overrun" => index >= MAX_PARAMS
    /\ value \in Values
    /\ host_parameters \in [Slots -> Values]
    /\ exit_poller \in BOOLEAN
    /\ history \in [Slots -> Seq(Values)]
    /\ forwarded \in [Slots -> Seq(Values)]

(* What the host is told of a parameter are values the UI process wrote,   *)
(* each once and in their order, although the thread polls while they are  *)
(* written.  The first of them may be the 0 of fresh memory: the count is  *)
(* there before the values.                                                *)
ForwardedInOrder ==
    \A i \in Slots :
        LET told == 1..Len(forwarded[i]) IN
        \E position \in [told -> 1..Len(history[i])] :
            /\ \A n \in told : forwarded[i][n] = history[i][position[n]]
            /\ \A m, n \in told : m < n => position[m] < position[n]

(* The thread of the host leaves its array only if the script has more     *)
(* parameters than the array: then nothing in the code keeps it inside.    *)
OnlyTooManyOverrun == poller = "overrun" => count > MAX_PARAMS

(* process() in the UI process signals parameter_changed of no parameter   *)
(* the region holds: its own writes are in its copy and nobody else writes *)
(* its region.                                                             *)
ProcessIsSilent == \A i \in signals : i >= MAX_PARAMS

(* Unless the window closes, the host is told the last value of every      *)
(* parameter, or the array nobody initialized held it by chance.  A script *)
(* with more parameters than that array has makes the thread leave it:     *)
(* then nothing is promised.                                               *)
HostCatchesUp ==
    <>[]( \/ exit_poller
          \/ poller = "overrun" /\ count > MAX_PARAMS
          \/ \A i \in Indices \cap Slots : host_parameters[i] = region[i] )

=============================================================================
